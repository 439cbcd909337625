# C0PL4ND: a verification project

C0PL4ND is a GPU terminal emulator: `crates/core` holds the terminal (grid,
VT parser, scrollback, PTY session), `crates/app` the egui shell with panes,
settings, and an in-app updater. This directory holds TLA+ models of the parts
whose correctness depends on more than one step: the screen of a pane and the
reflow on a change of width, the session between a program and the window, the
panes of the window and their saved layout, the pictures a program shows, the
files the instances keep in the user's directory, the updater with what it
does on the network, and the split tree, window tabs and workspaces of the
older winit shell. TLC checks them on small instances; TLAPS proves the
theorems of section 4 for every value of the constants.

Paths below are relative to `src/crates/`.

## 1. Inventory

| component | state | operations | hard because |
|---|---|---|---|
| grid, `core/src/grid.rs` | cells, spacer flags, wrap flags and damage flags per row | `set`, scrolls of a region, row edits, `resize`, `clear` | four parallel vectors must move together; a forgotten damage flag freezes the picture |
| screen, `core/src/term.rs` | the grid, cursor, margins, tabs, modes, scrollback, prompt marks, view offset, the stashed primary grid | one handler per escape sequence, called by the reader thread; view and resize, called by the UI | absolute line numbers, margins and tab stops must follow every change of the grid |
| pane, `app/src/egui_app/pane_term.rs` | the size last asked for, the rows last drawn and their key | `grid_rows`, `resize`, `jump_to_prompt`, `window_start` | works on what it read in an earlier frame |
| session, `core/src/session.rs`, `core/src/pty.rs` | reader thread, `alive`, the wake callback, the PTY | spawn, parse, wake, resize, drop | two threads, a child process and two bounded pipes between them |
| byte filters, `Terminal::advance` in `core/src/term.rs` | APC state, held UTF-8 bytes, the batch for vte | `advance` | input cut at any byte |
| panes, `app/src/egui_app/mod.rs`, `grid.rs` | map of terminals, layout tree, focus, zoom, tabs, overlays | split, close, zoom, focus, type, paste, restore | a dozen collections in step, effects applied at the end of a frame, geometry of the frame before |
| saved layout, `app/src/egui_app/layout_state.rs` | a blob in the storage of eframe | save, restore | restores what an earlier run, or anything, has left |
| config file, `app/src/config_load.rs`, `core/src/config/mod.rs`, `core/src/atomic_write.rs` | the file, its temporary sibling, a save that waits | load, save, save after a delay, save at the exit | crash between create, write and rename; two instances |
| crash reports, `app/src/reporting.rs`, `panic_hook.rs`, `egui_app/app_report_ui.rs` | a spool of files, the dialog and its queue | capture, drain, send, decline, remember | failing network, crashes, a list made once and walked through later |
| updater, `app/src/update_engine/updater.rs` | state, channel, chain and banner flags, staging directory | check, download, apply, run the installer, poll | a worker thread, a chain over three results, partial failures |
| anti-rollback, `rollback_guard.rs`, `update_state.rs`, `apply.rs` | the executable, its backup, two records | gate, backup, swap, rollback, record | several instances and crashes between file accesses |
| update network, `net.rs`, `verify.rs`, `manifest.rs`, `.github/workflows/release.yml` | the worker, its staging directory; the release page | requests, redirects, the gates of the manifest, verification | the release changes between two requests; dates; redirects |
| images, `core/src/image.rs`, `term.rs`, `pane_term.rs`, `glyph_cache.rs` | pictures sent in pieces, the store, the placed pictures, textures by line and size | decode, place, continue, show, evict, paint | pieces interleave and break off; four limits; two locks in a frame |
| layout tree, `core/src/layout/*.rs` | a tree of splits with shares, focus, zoom, the next id | split, remove, move, resize, swap, rebalance, presets, cascade to pixels, neighbour | edits at any depth, rounding to pixels, ids that must survive |
| winit shell, `app/src/window.rs`, `drag.rs`, `core/src/layout_persist.rs` | window tabs, cells with stacks of shells, a drag, workspace files | the same from the keyboard, nested tabs, drop, reap, save, restore | shells exit or do not start in any order, indices shift under loops |
| OSC, keys, search, themes, plugins, rendering | their own | sequential | covered by unit tests; not modelled |

How they interact. The program writes into a PTY; the reader thread reads a
chunk, takes the mutex of the terminal, parses it (`advance`, then the `Screen`
handlers), lets go and calls the wake callback. The UI thread takes the same
mutex several times per frame and pane, for the replies, for a resize, to read
rows, and writes keys and replies into the PTY without it; it keeps the size,
the cached rows and the selection outside the mutex. A frame of the window goes
over chords, input, drawing and the pointer in a fixed order, and a key or a
click of one stage changes panes, focus and overlays under the next. The
updater lives on the UI thread, starts a worker per check and per download, and
reads its results from a channel in the next frame. Instances of the program
share only files: nothing keeps a second instance from starting.

What makes each correct, in short: the screen promises that a line number names
the line it was taken for, that indices stay in the grid, and that the picture
drawn is the picture held; the reflow, that text is kept; the session, that
everything written is drawn in the end and nobody waits for ever; the byte
filters, that the cuts of the pipe do not show; the panes, that terminals and
tree agree and that what is typed is seen; the files, that a crash loses neither
settings nor reports; the images, that a picture on the screen is whole, is the
one that was sent for its line, and is not lost; the download, that what is
staged is one build of one release that was offered, and that an honest release
arrives; the updater, that what it says is what is installed, that
it goes up only, acts only when asked, leaves nothing behind, and always ends.

## 2. Modules

| module | models | remarks |
|---|---|---|
| `Grid` | `Grid` | operators from grids to grids; no state |
| `Reflow` | `Screen::reflow_resize`, the layout of the new rows | no recursion: row *k* is given directly |
| `Screen` | `Screen`, the pane's view, selection and row cache, three actors | `scr`, `cache`, `sel`, `size`, `scene` |
| `ByteFilter` | `Terminal::advance` down to the call of vte | operators on the state of the filter |
| `Session` | program, PTY, reader thread, wake slot, a frame of one pane | uses `ByteFilter` |
| `Display` | the abstract display: said, shown, open | implemented by `Session` (`ShowsAll`) |
| `Panes` | the frame of the window, the saved layout, restart | `at` is the place in the frame |
| `Desk` | the abstract desk: open panes, focus, fresh names, saved | implemented by `Panes` (`KeepsDesk`) |
| `Profile` | config file, its temporary, crash spool, several instances | every file access is a step |
| `Updater` | the updater, several instances, and the files they share | `app`, `disk`, `dirs`, `helpers`, `everRun` |
| `Images` | pieces, store, placed pictures, textures of one pane | a frame is sweep, paint, prune |
| `Fetch` | the worker of a check or a download, and the release page | each request is a step |
| `SplitTree` | the layout library: tree, operations, geometry, neighbours | operators from layouts to layouts; recursion as functions over `Tree`, so that they can be proved about |
| `Workspace` | the window of the winit shell, its drags and workspace files | `tabs`, `active`, `drag`, `dead`, `files`; composes `SplitTree` |
| `ScreenProps`, `ReflowProps`, `SessionProps`, `PanesProps`, `ProfileProps`, `UpdaterProps`, `ImagesProps`, `FetchProps`, `WorkspaceProps` | properties | written without the operators they are about |
| `MCScreen`, `MCSession`, `MCPanes`, `MCProfile`, `MCUpdater`, `MCImages`, `MCFetch`, `MCWorkspace` | scenes and constants for TLC | |
| `ScreenProofs`, `ImagesProofs`, `SessionProofs`, `EguiProofs`, `UpdaterProofs`, `FetchProofs`, `WorkspaceProofs` | theorems | `EguiProofs` is about `Panes` and about `Profile` |
| `Recursion` | induction and recursion along the naturals and along a rank | lemmas for the proofs about recursive functions |

A *scene* names the operations the program, the user and the environment use,
and the bounds: sizes, caps, parameters, faults. One model can so be asked
different questions without a state space that is the product of all
operations (`Profile` calls them trials, and its specification `ProfileSpec`, since
`EguiProofs` has its names beside those of `Panes`). Every operation is in some
scene of a passing run.

**Screen.** An escape sequence is one step: parsing happens under the mutex, so
no other actor sees a handler half done. A handler is an operator from screens
to screens, and the ones it calls are applied inside it (`print` may wrap, wrap
scrolls, a scroll evicts and rebases). A cell is its character and its spacer
flag; a character is a letter, narrow or wide. `tag` on a line and `id` on a
mark or selection are ghosts: they say which line was meant, so that a property
can compare it with the line number the code keeps. Prompt marks stand for the
command marks too, which the same function rebases; the images it rebases have
a module of their own.

**Session.** The terminal here is what the threads share of it: its size
(`grid`, a variable of its own beside `term`, behind the same mutex), the queue of replies, whether a synchronized update is open, and what the parser and
the graphics decoder have been given so far (`log`, a ghost). What the mutex
protects is one step; what the code does after unlocking is the next: parsing
and waking, taking the replies and writing them, recording the new size, asking
the PTY, resizing the grid. Both pipes are bounded and block. The program is
external: it writes its script, reads its input when it is not blocked, exits.
The clock of a synchronized update is a free choice at every chunk.

**Panes.** A frame runs through places 1 to 11. Chords come in the order of the
code, each at most once; the input goes to the overlay that is open, or to the
focused pane; drawing spawns the pending panes that are drawn; the pointer acts
once every pane is drawn. Where a pane lies is left out: the neighbour an arrow
finds is any other pane of the *last* frame, which is what `neighbor_in_rects`
looks at. `moved` and `keyed` are ghosts of `TypedIsShown`.

**Profile.** Two settings stand for all: the mode of the crash reports, which
decides what a launch does, and the font size, which is saved late. A handle
follows its file through a rename and a removal, since two instances use the
same temporary name. `Torn` is a file that was cut: it may parse as nothing
(the defaults) or not at all (the defaults and a message); one that parses with
part of its settings is left out.

**Images.** A picture is its size, which stands for its rows, its weight and
the number of its pieces; columns are left out. The line of a picture is where
the code puts it, `tag` the line of the text it was sent for, `gone` what left
the terminal, `raced` that the reader came in between the steps of a frame, `ok` that
there was room for all pieces of a picture: ghosts. Sums of weights and the
selections the code makes with `retain` and `filter` are recursive functions
(`Bytes`, `Among`), as are the marks that move (`MarksFrom` of `Screen`), so that
they can be proved about. The reader takes one command at a time
under the mutex; the UI takes it twice in a frame, to copy the pictures and to
read the view, and its texture cache lives outside: sweep, paint and prune are
steps. The program is external: it sends pieces in order, may stop in the
middle of a picture and interleave two.

**Fetch.** One worker and a release page that changes under it. Two builds of a
release differ, and a digest or a signature is right for its own build only;
uploading a file again removes it first, and a release may be listed before its
files are there, as `release.yml` does it. A date is a day; `days_from_civil` is
the code's arithmetic. A request follows a chain of redirects of a given
length; with faults it may be refused, cut off, or the staging directory may not
be removable. Archive and installer take the same way up to the last step.

**Workspace.** A tab is a layout and a cell for each leaf; a cell is a stack of
shells, of which one is seen. A shell is a name that is used again when free;
`dead` are those that exited and are still in a cell, until `about_to_wait`
reaps them all in one step, as the code does. Everything runs on the event loop,
so a handler is a step; a split, a preset and a restore start several shells,
any of which may fail. The share of a pane is a natural weight without common
divisor, where the code has an `f32` fraction: exact, so rounding to pixels is
the code's but rounding of the fractions is not there. A workspace file is of
one tab (what "Save Layout As" writes), of all tabs (what closing the window
writes), absent or corrupt; the writes are atomic (module `Profile` models how).
A drop is resolved after the gesture was reset, as in the code, so it never
moves anything (section 5); `MovedPaneIsBeside` therefore applies `move_leaf`
to every tree that is reached.

**Updater.** Every access of `apply_and_restart` to a file that instances share
is a step of its own, so another instance, or a crash, may come between any two.
A release is a number; the
release index is the same number. The worker of a check or a download is one
step that ends it, enabled while the job is there. `run` is the compiled-in
version of the running process; a crash and a closed window both make it
`None`. `asked` and `everRun` are history variables. The elevated installer is
external: it may install its release later, or never.

## 3. Runs

| run | instance | shows |
|---|---|---|
| `Screen` | marks and selections on 3x1, cap 1 to 3, 3 anchors, 2 marks; drawing on 2x1 with history and alternate screen, and 2x2 with a wide letter; 1x2 to 3x2 with margins; 1x1 to 1x3 with tabs; reflow on 2x3, 2x2, 1x3, cap 2 | `AnchorsHold`, `NoMarkForgotten`, `JumpLandsOnPrompt`, `SelectionFollows`, `CacheCoherent`, `IndicesFit`, `AltKeepsScrollback`, `ReflowKeepsText` |
| `Session` | scripts of 4 to 13 bytes cut anywhere; pipes of 2 bytes and 1 write; questions, typing, closing, resizes, refused or not | `NoLostWake`, `SizesSettle`, `ChunksInvisible`, `NobodyStuck`, `ShowsAll` (refinement of `Display`) |
| `Panes` | 3 panes, 4 ids, four scenes of operations over four saved layouts | `SessionsMatchPanes`, `TypedIsShown`, `KeepsDesk` (refinement of `Desk`) |
| `Profile` | one instance with a failing disk, network and crashes over three config files; two instances over the spool | `ReportsKept`, `SettingsOnDisk`, `EveryReportOffered` |
| `Updater` | one instance, 3 releases, 2 directories, writable or not, installer or not, all failures but of the backup; two instances, 2 releases | `ReadyHasArtifact`, `SaysWhatIsInstalled`, `SwapIsNewer`, `RestartOnlyWhenAsked`, `FoundUpdateAnnounced`, `NoStagingLeak`, `Settles` |
| `Images` | 2 and 3 rows, cap 1 and 2, 3 ids, 2 pictures kept, 4 of weight, 2 in the store, 2 sets of pieces, 3 pieces of payload: pictures over scrolling lines, over the limits, in interleaved and interrupted pieces, shown from the store | `ImagesWhole`, `ImagesArrive`, `PicturesTrue` |
| `Fetch` | 10 release dates around ends of months and years; a release built again; a newer one, one withdrawn, floors, platforms; 0 to 5 redirects and faults | `StagedWasOffered`, `HonestUpdateArrives`, `WorkerEnds` |
| `Workspace` | 4 panes at most, a window of 240x160; 5 shells, 2 window tabs, 2 nested tabs; eight scenes: resizing, swapping, shells that come and go, presets, files, failing starts and writes, a corrupt file, drags | `PanesAndShellsAgree`, `ArrowsReachEveryPane`, `MovedPaneIsBeside`, `SavedIsSeen`, `ShellsKept`, `DeadShellsLeave` |
| `AltResizeGrid`, `ReflowTail`, `StaleInstaller`, `LostImage` | small | a violation each, section 5 |

`Screen` and `Images` also check the type invariant of their module, which
contains their limits; those of `Updater`, `Panes`, `Profile` and `Fetch` are
proved, and so are `MarginsOnGrid` (`ScreenProps`) and `IdsAreFresh`
(`PanesProps`), which no run repeats. Of the forty properties of the passing runs
thirty-one are theorems (section 4), and of `ShowsAll` its safety part is.

*Bounds.* Two or three rows tell top, middle and bottom; a cap of 1 or 2
makes eviction start within three scrolls, and a cap that drops from 2 to 1
makes one step evict two lines. Two marks with three anchors overflow the list.
Widths 1 to 3 contain the one-column pane, an exact fill and a partial one;
parameters 0, 1, 2 contain absent, in and out of the grid. The scripts of
`Session` hold codepoints of two and three bytes before and after graphics
commands, bodies over the limit, an ESC inside a body, and every cut of each
is tried, since a read may return any number of the bytes written; a pipe that
holds less than a write of the program makes it block. Three panes let one be
closed beside the focused and another, and the cap be hit; four ids let an id
follow a closed one. The layouts restored are one the program saves, none, and
two it never saves. Two pictures kept, of up to three pieces, with a third to
come, pass each limit of the store and of the pieces; three lines that leave let a
picture leave too. The release dates lie on both sides of the end of a February of
28 and of 29 days, in 2000 and in 2100, and of a year, and the clock is on the last
valid day or the first invalid one; one redirect more than the limit is refused.
Two crash reports make the dialog advance. Four panes (`MAX_PANES` is 6 in the
code) make every kind of nesting that a move or a neighbour can meet: a split in a split in a
split, both axes, a collapse into the parent (`Trees` bounds only how deep splits lie, by
the panes there may be: a split has two children at least); in 240x160 with a gutter of 1 and a
minimum of 24 the shares round and the limits of a resize bind, and a resize goes
on until a split has a weight of 20 in all. Three panes are enough to resize a pair
beside a third. Three releases
let an update be found, superseded and retried; two directories let a retry use
another than the one it leaves; two instances are what the code never
excludes, and every file access is a step. `Anchors`, instances and directories
are interchangeable, hence the symmetry (never with a liveness property).
Deadlock is not checked in `Screen`, `Images` and `Updater`: a scene without
further operations, or a closed program that is not started again, may stop.
In `Workspace` a window can always be closed and opened again, in `Session` there is always another frame, in `Panes` a next place of the
frame, in `Profile` a next step of an instance, in `Fetch` a next download: there TLC
checks it.

*What a run leaves out*, on purpose, because it is one of the disagreements
below: the mark scene of `Screen` neither resizes nor emits region scrolls, nor
prompt marks on the alternate screen; its other scenes do not lower the cap
under a scrolled view and do not resize while the alternate screen is shown;
`SelectionFollows` speaks of a scrollback that grows; `ReflowKeepsText` of a
cursor behind the text. `NoLostWake` speaks of a pane that has set its callback
and of no open synchronized update. `TypedIsShown` speaks of a frame whose keys
have not moved the focus. `SettingsOnDisk` and `EveryReportOffered` speak of
the only instance, and of loads and saves that did not fail; `ReportsKept` of
any. The scenes of `Images` hold pictures of different sizes and never two on a
line, send `i=` and `a=` with every piece, use no id again after an
interruption, keep at least one line of history, and have no regions, no
alternate screen and no change of width; each is a disagreement or a matter of
`Screen`. `SaysWhatIsInstalled` speaks of the only
instance, and of a backup that was made. `Workspace` resizes trees of at most
three panes and lets no drop happen.

*Fairness.* `Settles` (Updater): a worker that can end ends (network calls have
timeouts and a size limit, `net.rs`), a frame polls a message (the worker asks
for a repaint after sending), and the apply steps, which are one function on the
UI thread, go on. A panic aborts the process (`panic = "abort"`), so a worker
never dies alone. `NobodyStuck` and `ShowsAll` (Session): threads
are scheduled, a frame starts at the latest at the idle tick
(`idle_repaint_interval`), a program that is not blocked reads its input, a
write goes on when there is room, and a closed PTY comes to its end. `WorkerEnds` (Fetch): the worker goes on, since every
request has a timeout to connect and to read (`default_agent`, `net.rs`). Nothing is
assumed of the user, of a launch, an exit, the installer, or of the
release page, of the program writing or exiting. `DeadShellsLeave` (Workspace): the
event loop always comes back to `about_to_wait`, and nothing of a shell or of the user;
the weak fairness is written with its enabling condition, `NeedsReaping`. That `ShowsAll` holds rests on the idle tick: without it a
synchronized update that is never closed would hide what was written last.

Every property has a mutant of the code, kept next to the definition it
changes (comment *mutant*), that TLC finds to violate it.

## 4. Proofs

All with the SMT, Zenon and PTL backends of TLAPS; no step is left out. The
assumptions on constants are the named ASSUMEs of the modules that declare
them; TLC evaluates them in every run. A theorem that needs more has it as a
hypothesis on the scenes, by name: what programs, user and environment may do,
for any sizes, glyphs, ids, limits and orders. Each hypothesis is met by all
scenes of the passing run and is there because the code does not keep the
property without it; the list below says where that is seen.

`ScreenProofs`, for any window sizes, glyphs, parameters, caps, numbers of marks
and anchors:

* `LayoutIs`: the layout of `reflow_resize`, for every content, cursor and new
  size: rows of the new width, a grid that starts within them, a cursor on it.
* Under `NoAltResize` (a pane that may show the alternate screen is not
  resized; `AltResizeGrid` shows it to be needed): `WellFormed`
  (`TypeOK`), `IndicesStayOnGrid` (`IndicesFit`), `MarginsAndDimensions`,
  `CacheShowsTheScreen` (`CacheCoherent`), `AlternateKeepsScrollback`
  (`AltKeepsScrollback`). The inductive invariant `IInv` needs of the
  state that no property mentions: that the stashed primary grid has the
  dimensions of the other, that the alternate screen is on only in a scene that
  enters it, and for the cache (`Drawn`) what makes a key without damage mean
  the same rows: the reverse flag, the dimensions and the view of the key, or a
  view that a cleared scrollback has moved, which the key tells.
* Under `NoAltResize` and `PlainMarks` (a pane with prompt marks is not resized,
  its program does not scroll a region or rows of it, marks are not printed on the
  alternate screen, and there is some scrollback; `PromptScenes` and
  section 5 show what happens otherwise): `MarksStayOnTheirLines` (`AnchorsHold`),
  `MarksAreKept` (`NoMarkForgotten`), `JumpsLand` (`JumpLandsOnPrompt`).
  `AnchorsHold` is not inductive: two lines with one anchor, or an anchor that
  comes back, would break it a step later. `MInv` says that each mark is on a line that
  *alone* has its anchor, also while the alternate screen is shown.
* Under `NoAltResize` and `StillSelect` (no resize of a pane with a selection):
  `SelectionStaysOnText` (`SelectionFollows`).

  The screen has some forty operations that call one another. They are sorted by
  what they do to the text, and each is shown once to be of its kind: `Stays` (no
  line moves against another, or all move up together into the scrollback,
  by `e` lines, with the marks), `Goes` (that, when the region is the
  whole screen), `Keeps` (lines of the grid may move, the scrollback does not
  shrink), and the swaps, resets, clears and resizes. The kinds are transitive, so
  `print` that wraps, scrolls, evicts and rebases is of the kind of its parts,
  and so is REP, which iterates it. Each property then follows from the kinds.

`ImagesProofs`, for any limits, ids, pictures and numbers of programs:

* `TypeCorrect` (`TypeOK`), without hypothesis: whatever pieces a program sends,
  the sets in flight, the store and the placed pictures stay within the limits of
  number and weight. `IInv` adds that a picture is on the line of text it was
  put on (`OnLines`).
* Under `KeysRepeat` (each piece repeats `i=` and `a=`, and nobody takes the id an
  interrupted program has left pieces under; `LostImage` shows the first to be
  needed): `PicturesAreWhole` (`ImagesWhole`) and `PicturesArrive`
  (`ImagesArrive`). `WInv` follows a set from its first piece to its last: it is
  of a program that has not sent all (`Owned`), no two senders share an id
  (`Apart`), it has the pieces in order or lacks the size, in which case it will
  decode to nothing (`Ordered`), and as long as there was room it lacks none
  (`Roomy`).
* Under `KeysRepeat` and `PlainPaints` (in the window, no picture is drawn where one
  stands, pictures have sizes of their own, and only a lone one is put from the store;
  `RedrawScenes` and `EvictScenes` of `MCImages` show what happens otherwise):
  `FramesAreTrue` (`PicturesTrue`). The hard part is the textures. A frame that
  the reader overtook may keep the pixels of one picture under the line and size
  of another, and the next frame must not show them. `PInv` says that then every
  picture of the key's size is above the key's line, and lines only ever move
  up: nobody asks for that key again. For the frame itself, what has been painted and
  what is still to be painted are together what is in the window.

`SessionProofs`, for any script, pipes, buffer, limits and sizes. For the first
three, what the terminal makes of a chunk is left opaque:

* `WakeNeverLost` (`NoLostWake`) and `SizesAgree` (`SizesSettle`). `WakeInv` is
  `NoLostWake` for every place of the reader but the call itself; `SizesInv` says what
  holds between the two halves of a resize, and that pane and program agree where
  nothing is refused (after a refusal the pane keeps the size it asked for, and
  asks again only when the window changes); `BytesInOrder` and `PlacesFit` tie the
  threads together.
* `ImplementsDisplay`: `Spec => DisplayImpl!DSafe`, the refinement of `Display`
  without its fairness: every step of program, PTY, reader and pane is a
  step of the display or changes nothing of it.
* `CutsUnseen` (`ChunksInvisible`), under `WritesText`: the programs write text, the
  continuations of a codepoint right behind its lead. (Of other bytes the code
  promises nothing: what `utf8_tail_boundary` holds back of them depends on the cut.)
  The property compares what the terminal has been handed, chunk by chunk from the
  left, with a definition that recurs from the right, and is not inductive. `Good`
  ties the two at every byte: what has been handed on, the batch included, is what
  the bytes mean up to a place of the script, and the state of the filter tells
  what stands from there on: nothing, an ESC, an APC of Kitty or of another, its
  body as far as the limit keeps it. The meaning of what is settled does not depend
  on the bytes to come (`MeaningLocal`), so it holds for each *n* that the
  script may be cut at. `Tracks` adds the chunks: what is held back starts at
  the last boundary of a codepoint.

`EguiProofs`, about `Panes`, for any cap, any number of ids, any scenes, and any
layout found in the storage:

* `TypeCorrect`, `SessionsAgree`, `FreshIds`: `TypeOK`, `SessionsMatchPanes` and
  `IdsAreFresh` are invariants. `SessionsMatchPanes` is not inductive: a
  frame's `drawn` and the panes waiting for a terminal must agree from the
  drawing to the end of the frame, and no id in any collection may reach the
  counter, which the saved counter could break. `IInv` puts the three together.
* `TypedGetsShown`: `Spec => TypedIsShown`. Needs `KeysFollowFocus`: until the
  drawing, what was written went to the focused pane, unless the focus moved,
  and the zoom, if any, is on it.
* `PanesKeepDesk`: `Spec => KeepsDesk`, the refinement: every step of a frame is
  a step of the desk or changes nothing of it.

`EguiProofs`, about `Profile`, for any number of instances, any faults and trials:

* `ProfileTyped`, and `NoReportLost`: `Spec => []ReportsKept`. `KeptInv` adds that
  an instance about to remove a report has sent it, or is about to note that the
  user refused it.
* `SettingsSaved`, `AllReportsOffered`: with one instance. `AloneInv` says, for
  each place of a save, what the temporary holds and whom the handle
  follows, so that a rename only ever installs the whole config of the instance;
  and that a report in the spool was tried, waits in the queue or is being
  shown.

`UpdaterProofs`, for any number of instances, releases and directories, any
faults and any check kinds:

* `TypeCorrect`: `Spec => []TypeOK`.
* `ParkedUpdateStaged`: `Spec => []ReadyHasArtifact`. Not inductive as it
  stands. `IInv` adds, per instance, that a job, a result and a parked state
  name the staging directory the instance tracks (`JobFits`, `ResultFits`,
  `StateFits`), that the flags agree with the state (`FlagsFit`), and that no
  two instances track the same directory (`Owned`): a directory is fresh when
  it is made, and only its owner removes it.
* `SwapsOnlyNewer`: `Spec => SwapIsNewer`; the artifact is the version that
  passed the gate because of `IInv`.
* `NoUnaskedRestart`, `UpdateAnnounced`: from `FlagsFit`.
* `StagingNeverLeaks`: `Spec => NoStagingLeak`, with `Off`: an instance that is not
  running tracks nothing.
* `SaysTrue`: `Spec => []SaysWhatIsInstalled`. The property itself says when: one
  instance, a probe that tells the truth and, for a rollback, a backup that was
  made and put back. The invariant `Truthful` says at every place of the apply
  steps what executable, backup and version there are; `Routes` keeps apart the
  installer's way and the one that swaps, since a directory is writable or not.

`FetchProofs`, for any release page, any dates, any number of redirects and any
faults, from `FetchAssumption` (the limits are natural numbers, the scenes are
well formed):

* `Calendar`: `days_from_civil`, which computes in eras of 400 years from March,
  gives for every date from the year 1 on the number that the rule of the
  calendar gives (lengths of months, leap years, centuries). The window of
  `VALID_DAYS` rests on it.
* `TypeCorrect`, and `OnlyOfferedStaged`: `Spec => []StagedWasOffered`. `StagedInv`
  follows the manifest the worker has passed through its gates to the file it
  verifies against it, whatever the page becomes in between.
* `HonestArrives`: `Spec => []HonestUpdateArrives`. `PageInv` says what an untouched
  page serves, `QuietInv` that a worker on such a page has not failed.

`WorkspaceProofs`, for any number of panes, shells, tabs and nested tabs, any
window, presets and faults, from `SplitTreeAssumption` and `WorkspaceAssumption`
(a preset has a pane in each of its rows and no more panes than are allowed; a
workspace file before the first launch is absent or corrupt). There is no
hypothesis on the scenes:

* `WindowHolds`: `Spec => []WInv`, and from it `PanesAgree` (`PanesAndShellsAgree`)
  and `ShellsStay` (`ShellsKept`). The property alone is not inductive: a restore
  makes a tab of whatever a file says, a free shell is one that is in no tab, and a
  new pane takes the number of the counter. So `WInv` says of the files that their
  panes are numbered from 0 without a gap, of the layouts that their counter is past
  every pane, that they have no more panes than allowed and no split within as many, and of
  the tabs that their shells are apart.
* The proof has three floors. The functions over trees are recursive, and what they
  compute is first brought into the form of a step (`LeavesStep`, `EditStep`,
  `RenamedStep`, `CascadeStep`, ...), by recursion along the depth. Then each edit
  of a tree is shown, by induction on the depth, to change its panes as it should:
  `split` adds one, `remove` takes one away wherever it stands and whatever
  collapses, `resize`, `equalize` and `reorder` none, renaming maps them
  one to one, a rebalance and a preset lay out the panes they are given. From there
  on a layout is known by its panes only: each operation keeps `GoodLayout`. On the top
  floor there is a lemma per handler, for the panes and for the shells at once; the
  hardest is the tick that reaps, where cells, panes, tabs and their order change
  together.

`Recursion`. The models have recursive functions (sums, selections, the search
for a logical line, REP). The library's induction theorems take a predicate,
which the provers cannot instantiate; but a set can stand for it. `LeastNat`
comes from the minimality theorem of well-founded relations, and from it
`SetInduction` (induction for membership in a set), `GreatestNat`, `Iterate`
and `Iterates` (that a function defined along 0 .. *n* exists, starts and steps
as it says), `Descends` (the same for one that refers to the places above), and
`RankRecursion` (the same for one over any set, along a rank into the naturals).

Only model-checked:

* liveness under fairness, out of the prover's reach: `Settles`, `NobodyStuck`,
  `WorkerEnds`, `DeadShellsLeave`, and the fairness of `ShowsAll`;
* `ArrowsReachEveryPane`: that from every pane some chain of nearest neighbours
  leads to every other is a matter of rectangles that tile the window, after rounding,
  and holds for the windows and weights of the run, not for all (a window too
  small for its gutters has panes no arrow finds);
* `MovedPaneIsBeside`: where the moved pane lies takes the pixels of two
  cascades, beyond what `GoodLayout` says of a tree;
* `SavedIsSeen`: compares the rectangles of a tree with those of its renamed copy;
* `ReflowKeepsText`: that the text of all rows, joined, is the same before and
  after relates two cuts of a sequence at every cell, beyond the bounds
  `LayoutIs` gives.


## 5. Where code and documentation disagree

Shown by a run:

* `AltResizeGrid`: resizing while the alternate screen is shown leaves the
  primary grid at its old size; after `?1049l` the grid and the window differ,
  and `PaneTerm::resize` sees no change that would repair it.
* `ReflowTail`: three letters on 2x3, the cursor back at the first, and the
  window made 2x1: the line is cut into three rows, the grid starts at the row of
  the cursor, and the third row is dropped, though `reflow_resize` re-wraps
  "without losing characters" (`term.rs:917-918`). A shell that is at the end of
  its text is safe as long as only the width changes: the offset of its cursor is
  in the last row of the line.
* `StaleInstaller`: the installer route, whose gate sees neither what another
  instance installed nor what ran, may go below a version that has run.
* `LostImage`: with the keys of the protocol on the first piece only, a picture
  sent in pieces is put under id 0 and not shown, though "continuation chunks
  resend just `m` and the payload" is what the code says it handles.

Read in the model, stated in the property modules or here, and not given a run:

* Screen. A change of width leaves prompt marks on other lines, though they are
  absolute line numbers of prompts (`PromptScenes` in `MCScreen`). The tab stops are resized with the alternate screen while the stashed
  grid is not, so "Length is always `grid.cols()`" (`term.rs:346`) fails with
  `AltResizeGrid`. A cap lowered under a scrolled-back view leaves the view past
  the oldest line after the next scroll; `for_visible_rows` then pads
  (`term.rs:3509` says this normally never happens).
  `WrappedRowsFilled`: an erased row keeps its wrap flag, so a later reflow
  joins it to the next. `SpacerHasLead`: overwriting the first half of a wide
  glyph leaves its spacer. `SelHolds`: the selection is not rebased when the
  scrollback evicts. `ReflowKeepsCursor`: the cursor of a line that fills the
  width is put on its last letter.
* Session. Output that comes before the wake callback is set waits for the idle
  tick, though "Output and input always repaint immediately" (`mod.rs:4819`). A
  frame the UI draws for another reason shows a synchronized update half drawn,
  which `session.rs:119-121` says never happens. The timeout of a synchronized
  update acts only when another chunk arrives (`session.rs:61-63`).
* Panes. `split`, `new_terminal` and `close_pane` move the focus and keep the
  typed line, which is "per-pane" (`mod.rs:4382`). `capture_layout` forgets the
  restored directory of a pane that was not drawn, or whose shell does not
  report one (`mod.rs:3293-3295`). A paste of several lines and Enter in the
  same frame: Enter goes to the pane and confirms the overlay at once
  (`mod.rs:2723-2743`, `4171-4174`). Keys typed for a pane that has no terminal
  yet are lost, but reach the history (`mod.rs:2011-2014`). After a split under
  a zoom the keys of the same frame go to a hidden pane (`mod.rs:3592-3598`).
  The window's geometry is saved by the legacy shell only (`mod.rs:3286`).
  `FocusIsLive`: an arrow in the frame that closes a pane can move the focus to
  that pane (`mod.rs:2427`), though "focus is always re-anchored to a live
  pane" (`mod.rs:2278-2279`).
* Winit shell. A dropped pane never moves: `drag.release()` resets the gesture
  before `resolve_drop` reads it (`window.rs:3841`), though "a real drag (past
  threshold) resolves a drop". Restoring `default`, which closing the window has
  written as a file of all tabs, replaces the active tab and its shells by one
  pane (`window.rs:2242`). The close button of the title bar and Quit do not save
  (`window.rs:3773`, `1000`). A background shell that exits changes the shell that
  is seen (`window.rs:3011`). A window tab that could not be restored shifts the
  active one (`window.rs:2314`). A split that fails moves the focus to the first
  pane, and a split under a zoom makes a pane nobody sees. A restored cell has
  one shell, whatever it had.
* Layout. Between two siblings that share less than twice the minimum, a resize
  makes the other a pane without width (`ops.rs:294`), though "neither side falls
  below the minimum cell" (`window.rs:2029`). The scene `resize` of the run reaches
  such trees; its properties hold there too.
* Images. The key of a texture is the line and the size: a picture drawn again
  in place, or one that comes to the line number of another after an eviction,
  shows the old texture (`RedrawScenes`, `EvictScenes` in `MCImages`). "the
  oldest in-flight set is dropped on overflow" (`term.rs:2443-2444`): the new one
  is refused. A picture that breaks off leaves its pieces for ever, and they
  spoil the next with its id.
* Files. With two instances, which share `<name>.tmp`, a rename may install a
  temporary that another has just truncated; `atomic_write.rs:11-12` promises
  "the complete old file or the complete new file". The save at the exit of one
  overwrites the choice the other remembered. A config that cannot be read or
  parsed is replaced by the defaults at the exit.
* Reports. "an `Off` user has an empty spool" (`mod.rs:592-593`): the panic hook
  captures whatever the mode. `consent_and_send` "Advances to the next queued
  report regardless" (`reporting.rs:553-554`): it stops at one that has gone.
  Crash logs are overwritten "round-robin" (`panic_hook.rs:30`): once the last
  slot exists, the first is reused for ever. A crash between sending a report
  and removing it sends it twice.
* Updater. A version that did not start is rolled back, but stays in the record
  and can never be tried again (`RetryScenes` in `MCUpdater`), so "a fresh forward
  update always satisfies strict >" (`net.rs:480-481`) fails after a rollback. An
  honest release cannot be installed from its fifteenth day on, until the
  next. `RecordNeverLowered`: two instances that read the record before
  either writes may lower it. If the backup fails, "rolled back" is reported
  although an old backup, or none, was restored. When the installer cannot be
  started, its directory is removed and the message names the file in it to run
  by hand.
* Fonts (not modelled). The live change of a font is in the `else` of
  `if self.live_window` (`mod.rs:3638-3657`), so it never runs in a window that is
  shown (`mod.rs:3641-3643`). A system font that arrives after the wait
  is over is laid out once against the old atlas (`mod.rs:3668-3674`). The key of
  a galley lacks the pixels per point its comment asks for
  (`glyph_cache.rs:92-94`). A zoom after the warm check paints one frame in a size
  that was not warmed (`mod.rs:3541-3548`).

## 6. Not modelled, and why

Colours, combining marks, character sets, hyperlinks, clipboard, mouse
and key encoding: no property of this project tells them apart. Image decoders, columns and
scaling of pictures; fonts and the atlas. Hosts, headers and the syntax of manifests and versions:
represented by what a request may answer; signatures by the build they are
right for; the throttle of the launch check and prereleases are left out. Where the panes of the egui shell lie and how
they are dragged (`egui_tiles`); the trees of the winit shell are in `SplitTree`.
Sequential libraries (OSC parsing, search, themes, plugins, the
meaning and migration of settings): unit tests reach them, and their hazards are
conversions, not steps. Drawing on the GPU: no state that outlives a frame but
caches of pure functions. Of the winit shell: drawing, the
overlays for settings, palette and search, mouse reports, the geometry of the window.
Of its layout: the preset of two rows of three (six panes) and the rounding of
shares to `f32`. These are most of the lines of the
repository, which is why the mapped share of it is small.
