------------------------------- MODULE Images -------------------------------
(***************************************************************************)
(* Inline pictures: what the terminal keeps of them (term.rs: the pieces   *)
(* in flight, the store, the pictures placed on lines) and how a frame of  *)
(* the UI paints them (pane_term.rs, egui_app/mod.rs, glyph_cache.rs).     *)
(*                                                                         *)
(* A picture is the sequence of its pieces, one for each row of cells it   *)
(* covers; a row is also what it weighs and what a command of the graphics *)
(* protocol carries.  Columns are left out: pictures stand in one column.  *)
(***************************************************************************)
EXTENDS Naturals, Integers, Sequences, SequencesExt, FiniteSets, FiniteSetsExt, Functions

CONSTANTS
  Ids,                  \* the ids programs give to pictures, 0 for none
  ImagesMax, BytesMax,  \* IMAGES_MAX, IMAGES_MAX_BYTES = KITTY_STORE_MAX_BYTES
  StoreMax, ChunksMax,  \* KITTY_STORE_MAX_IMAGES, KITTY_CHUNKS_MAX
  PayloadMax,           \* the pieces one set may hold
  MaxGone,              \* bound: lines that leave the top of the scrollback
  Scenes                \* the terminal, the pictures, what the program does

ASSUME LimitAssumption ==
  /\ {ImagesMax, BytesMax, StoreMax, ChunksMax, PayloadMax} \subseteq Nat \ {0}
  /\ Ids \subseteq Nat /\ MaxGone \in Nat
ASSUME SceneAssumption == \A s \in Scenes :
  /\ s.rows \in Nat \ {0} /\ s.cap \in Nat \ {0} /\ s.keys \in {"repeat", "first"}
  /\ s.sizes \in Seq(Nat \ {0})

VARIABLES
  scene,   \* rows and cap of the terminal; sizes of the pictures, in the order
           \* they are begun; ops; keys, whether continuations repeat i= and a=
  term,    \* hist and view, counted in lines; row of the cursor; images, chunks, store
  pics,    \* the programs: how far each picture has been sent
  gone,    \* history: the lines that have left the top
  cache,   \* image_textures: key -> pixels
  frame    \* the frame being painted

vars == <<scene, term, pics, gone, cache, frame>>
view == <<cache, frame>>

Idle == [at |-> "Idle", metas |-> <<>>, seen |-> {}, shown |-> {}, raced |-> FALSE]
Empty == [x \in {} |-> x]

Init ==
  /\ scene \in Scenes
  /\ term = [hist |-> 0, row |-> 0, view |-> 0, images |-> <<>>, chunks |-> Empty, store |-> Empty]
  /\ pics = <<>> /\ gone = 0 /\ cache = Empty /\ frame = Idle

Can(op) == op \in scene.ops
Picture(n) == [k \in 1..scene.sizes[n] |-> <<n, k>>]
Here == term.hist + term.row

-----------------------------------------------------------------------------
(* What the terminal keeps.                                                *)

Weight(store) == MapThenSumSet(LAMBDA i : Len(store[i]), DOMAIN store)

\* the weight of placed pictures
Bytes(images) ==
  LET upTo[i \in 0..Len(images)] ==
        IF i = 0 THEN 0 ELSE upTo[i - 1] + Len(images[i].pixels)
  IN  upTo[Len(images)]

Newest(q, n) == SubSeq(q, Len(q) - n + 1, Len(q))

\* the elements of a sequence that are in a set, in their order
Among(q, S) ==
  LET upTo[i \in 0..Len(q)] ==
        IF i = 0 THEN <<>>
        ELSE IF q[i] \in S THEN Append(upTo[i - 1], q[i]) ELSE upTo[i - 1]
  IN  upTo[Len(q)]

PushCountOnly(images) ==                                          \* mutant
  Newest(images, IF Len(images) > ImagesMax THEN ImagesMax ELSE Len(images))

\* push_image: the oldest go until both limits hold; the last one stays
push_image(images) ==
  LET Fits(n) == n = 1 \/ (n <= ImagesMax /\ Bytes(Newest(images, n)) <= BytesMax)
  IN  Newest(images, Max({n \in 1..Len(images) : Fits(n)}))

\* place_kitty_image, and unhook for a sixel picture
place(t, pixels) ==
  [t EXCEPT !.images = push_image(Append(@, [pixels |-> pixels, line |-> Here, tag |-> gone + Here]))]

\* store_kitty_image: the lowest ids go until both limits hold
store_kitty_image(store, id, pixels) ==
  LET new == [i \in DOMAIN store \cup {id} |-> IF i = id THEN pixels ELSE store[i]]
      From(k) == Restrict(new, {i \in DOMAIN new : i >= k})
      Few(k) == Cardinality(DOMAIN From(k))
      Fits(k) == Few(k) = 1 \/ (Few(k) <= StoreMax /\ Weight(From(k)) <= BytesMax)
  IN  From(Min({k \in DOMAIN new : Fits(k)}))

\* decode_kitty: nothing but a payload of the declared size is a picture
decode_kitty(c) == IF c.size > 0 /\ Len(c.payload) = c.size THEN {c.payload} ELSE {}

Finish(t, cmd, c) ==
  LET left == [t EXCEPT !.chunks = Restrict(@, DOMAIN @ \ {cmd.id})]
      stored(p) == [left EXCEPT !.store = store_kitty_image(@, cmd.id, p)]
  IN  IF decode_kitty(c) = {} THEN left
      ELSE LET p == c.payload IN
           CASE cmd.action = "t" -> stored(p)
             [] cmd.action = "T" /\ cmd.id = 0 -> place(left, p)
             [] OTHER -> place(stored(p), p)

TransmitByLastKeys(t, cmd) ==                                     \* mutant
  LET c == [payload |-> (IF cmd.id \in DOMAIN t.chunks THEN t.chunks[cmd.id].payload ELSE <<>>)
                        \o <<cmd.piece>>, size |-> cmd.size]
  IN  IF cmd.id \notin DOMAIN t.chunks /\ Cardinality(DOMAIN t.chunks) >= ChunksMax THEN t
      ELSE IF cmd.more THEN [t EXCEPT !.chunks = [i \in DOMAIN @ \cup {cmd.id} |->
                                                    IF i = cmd.id THEN c ELSE @[i]]]
      ELSE Finish(t, cmd, c)

\* handle_kitty_apc, actions t and T: the first piece declares the size
transmit(t, cmd) ==
  LET known == cmd.id \in DOMAIN t.chunks
      old == IF known THEN t.chunks[cmd.id] ELSE [payload |-> <<>>, size |-> cmd.size]
      c == [old EXCEPT !.payload = Append(@, cmd.piece)]
  IN  IF ~known /\ Cardinality(DOMAIN t.chunks) >= ChunksMax THEN t
      ELSE IF Len(c.payload) > PayloadMax
        THEN [t EXCEPT !.chunks = Restrict(@, DOMAIN @ \ {cmd.id})]
      ELSE IF cmd.more THEN [t EXCEPT !.chunks = [i \in DOMAIN @ \cup {cmd.id} |->
                                                    IF i = cmd.id THEN c ELSE @[i]]]
      ELSE Finish(t, cmd, c)

\* reanchor_after_scrollback_clear: a picture whose line has gone goes too
reanchor(images, erased) ==
  LET kept == Among(images, {i \in Range(images) : i.line >= erased})
  IN  [i \in DOMAIN kept |-> [kept[i] EXCEPT !.line = @ - erased]]

-----------------------------------------------------------------------------
(* The reader thread, one command of the program at a time; each takes     *)
(* place while the UI is anywhere in its frame.                            *)

Reader(t) == /\ term' = t
             /\ frame' = [frame EXCEPT !.raced = frame.at # "Idle"]
             /\ UNCHANGED <<scene, cache>>

Going(n) == gone + n <= MaxGone /\ gone' = gone + n

\* where programs put pictures: never where one stands, unless they redraw
Free == Can("redraw") \/ \A i \in DOMAIN term.images : term.images[i].line # Here

InFlight == {n \in DOMAIN pics : pics[n].next \in 1..scene.sizes[n]}

\* a program begins a picture; it takes an id nobody is using
Begin ==
  /\ Can("kitty") /\ Len(pics) < Len(scene.sizes)
  /\ \E id \in Ids, action \in {"t", "T"} :
       /\ \A n \in InFlight : pics[n].id # id
       /\ id \in DOMAIN term.chunks => Can("reuse")
       /\ pics' = Append(pics, [id |-> id, action |-> action, next |-> 1, ok |-> TRUE])
  /\ UNCHANGED <<scene, term, gone, view>>

ParseNoId(n) ==                                                   \* mutant
  [id |-> 0, action |-> pics[n].action,
   size |-> IF pics[n].next = 1 THEN scene.sizes[n] ELSE 0,
   piece |-> <<n, pics[n].next>>, more |-> pics[n].next < scene.sizes[n]]

\* parse_kitty: keys that are absent are i=0, a=T and no size
parse_kitty(n) ==
  LET p == pics[n]
      keys == p.next = 1 \/ scene.keys = "repeat"
  IN  [id |-> IF keys THEN p.id ELSE 0, action |-> IF keys THEN p.action ELSE "T",
       size |-> IF p.next = 1 THEN scene.sizes[n] ELSE 0,
       piece |-> <<n, p.next>>, more |-> p.next < scene.sizes[n]]

\* the next piece; ok: so far there was room for the picture's set
Send ==
  \E n \in InFlight :
    LET room == pics[n].next > 1 \/ Cardinality(DOMAIN term.chunks \ {pics[n].id}) < ChunksMax IN
    /\ pics[n].next = scene.sizes[n] => Free
    /\ pics' = [pics EXCEPT ![n].next = @ + 1,
                            ![n].ok = @ /\ room /\ scene.sizes[n] <= PayloadMax]
    /\ Reader(transmit(term, parse_kitty(n)))
    /\ UNCHANGED gone

\* a program that is killed, or whose connection breaks, sends no more
Interrupt ==
  /\ Can("interrupt")
  /\ \E n \in InFlight : pics[n].next > 1 /\ pics' = [pics EXCEPT ![n].next = 0]
  /\ UNCHANGED <<scene, term, gone, view>>

\* a=p
Put ==
  /\ Can("kitty") /\ Free
  /\ \E id \in DOMAIN term.store : Reader(place(term, term.store[id]))
  /\ UNCHANGED <<pics, gone>>

\* a=d: what is placed stays
Delete ==
  /\ Can("kitty")
  /\ Reader([term EXCEPT !.store = Empty, !.chunks = Empty])
  /\ pics' = [n \in DOMAIN pics |-> IF n \in InFlight THEN [pics[n] EXCEPT !.ok = FALSE] ELSE pics[n]]
  /\ UNCHANGED gone

Sixel ==
  /\ Can("sixel") /\ Free /\ Len(pics) < Len(scene.sizes)
  /\ pics' = Append(pics, [id |-> 0, action |-> "sixel", next |-> 0, ok |-> TRUE])
  /\ Reader(place(term, Picture(Len(pics) + 1)))
  /\ UNCHANGED gone

\* newline: at the bottom the top row goes into the history, and the oldest
\* line out of it once it is full
LineFeed ==
  /\ Can("lines")
  /\ IF term.row + 1 < scene.rows THEN Reader([term EXCEPT !.row = @ + 1]) /\ UNCHANGED gone
     ELSE IF term.hist < scene.cap THEN Reader([term EXCEPT !.hist = @ + 1]) /\ UNCHANGED gone
     ELSE Reader([term EXCEPT !.images = reanchor(@, 1)]) /\ Going(1)
  /\ UNCHANGED pics

CursorUp ==
  /\ Can("lines") /\ term.row > 0
  /\ Reader([term EXCEPT !.row = @ - 1])
  /\ UNCHANGED <<pics, gone>>

\* clear_scrollback
ClearScrollback ==
  /\ Can("clear")
  /\ Reader([term EXCEPT !.hist = 0, !.view = 0, !.images = reanchor(@, term.hist)])
  /\ Going(term.hist) /\ UNCHANGED pics

\* reset_state(true): the store and the pieces in flight stay
HardReset ==
  /\ Can("clear")
  /\ Reader([term EXCEPT !.hist = 0, !.row = 0, !.view = 0, !.images = <<>>])
  /\ Going(term.hist) /\ UNCHANGED pics

-----------------------------------------------------------------------------
(* The UI thread.                                                          *)

\* scroll_view
Wheel ==
  /\ Can("wheel") /\ frame.at = "Idle"
  /\ \E v \in 0..term.hist : v # term.view /\ term' = [term EXCEPT !.view = v]
  /\ UNCHANGED <<scene, pics, gone, view>>

\* visible_image_metas, under one lock: what starts above the window's bottom
visible_image_metas ==
  LET start == term.hist - term.view
      above == Among(term.images, {i \in Range(term.images) : i.line - start < scene.rows})
  IN  [i \in DOMAIN above |-> [line |-> above[i].line, size |-> Len(above[i].pixels),
                               row |-> above[i].line - start]]

Sweep ==
  /\ Can("paint") /\ frame.at = "Idle"
  /\ frame' = [Idle EXCEPT !.at = "Paint", !.metas = visible_image_metas]
  /\ UNCHANGED <<scene, term, pics, gone, cache>>

KeyOfLine(m) == [line |-> m.line, size |-> 0]                     \* mutant
ImageKey(m) == [line |-> m.line, size |-> m.size]

\* image_rgba, under another: the first picture on that line
image_rgba(line) ==
  LET there == {i \in DOMAIN term.images : term.images[i].line = line}
  IN  {term.images[i].pixels : i \in {j \in there : \A k \in there : j <= k}}

\* the cached texture, or the pixels the terminal has now
get_or_upload(m) ==
  IF ImageKey(m) \in DOMAIN cache THEN {cache[ImageKey(m)]} ELSE image_rgba(m.line)

\* one picture; one that ends above the window is passed over
Paint ==
  /\ frame.at = "Paint" /\ frame.metas # <<>>
  /\ LET m == Head(frame.metas)
         key == ImageKey(m)
         rest == [frame EXCEPT !.metas = Tail(@)]
     IN  IF m.row + m.size <= 0
           THEN frame' = rest /\ UNCHANGED cache
           ELSE /\ frame' = [rest EXCEPT !.seen = @ \cup {key},
                               !.shown = @ \cup {[pixels |-> p, row |-> m.row] : p \in get_or_upload(m)}]
                /\ IF get_or_upload(m) = {} THEN UNCHANGED cache
                   ELSE cache' = [k \in DOMAIN cache \cup {key} |->
                                    IF k = key THEN CHOOSE p \in get_or_upload(m) : TRUE ELSE cache[k]]
  /\ UNCHANGED <<scene, term, pics, gone>>

\* prune_unseen
FrameEnd ==
  /\ frame.at = "Paint" /\ frame.metas = <<>>
  /\ cache' = Restrict(cache, DOMAIN cache \cap frame.seen)
  /\ frame' = Idle
  /\ UNCHANGED <<scene, term, pics, gone>>

Next ==
  \/ Begin \/ Send \/ Interrupt \/ Put \/ Delete \/ Sixel
  \/ LineFeed \/ CursorUp \/ ClearScrollback \/ HardReset
  \/ Wheel \/ Sweep \/ Paint \/ FrameEnd

Spec == Init /\ [][Next]_vars
=============================================================================
