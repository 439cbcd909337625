----------------------------- MODULE ImagesProps -----------------------------
(***************************************************************************)
(* What a user of inline pictures relies on, as properties of Images.      *)
(***************************************************************************)
EXTENDS Images

Pieces == {<<n, k>> : n \in 1..Len(scene.sizes), k \in Nat}

\* The state has the shape the code gives it, and what a program can make the
\* terminal keep stays within the limits of push_image, store_kitty_image and
\* handle_kitty_apc, where one picture alone may be above the limit of bytes.
TypeOK ==
  /\ term.row \in 0..scene.rows - 1 /\ term.hist \in 0..scene.cap /\ term.view \in 0..term.hist
  /\ \A i \in DOMAIN term.images : term.images[i].line \in 0..(term.hist + scene.rows - 1)
  /\ Len(term.images) <= ImagesMax /\ Cardinality(DOMAIN term.store) <= StoreMax
  /\ Bytes(term.images) <= BytesMax \/ Len(term.images) = 1
  /\ Weight(term.store) <= BytesMax \/ Cardinality(DOMAIN term.store) <= 1
  /\ Cardinality(DOMAIN term.chunks) <= ChunksMax
  /\ \A id \in DOMAIN term.chunks : Len(term.chunks[id].payload) \in 1..PayloadMax

\* However the pieces of several pictures interleave, and whatever is deleted
\* or interrupted on the way, every picture on a line and in the store is one
\* picture, whole, and no set of pieces is left by a program that has sent all
\* (handle_kitty_apc, decode_kitty).
ImagesWhole ==
  LET whole(pixels) == \E n \in DOMAIN pics : pixels = Picture(n) IN
  /\ \A i \in DOMAIN term.images : whole(term.images[i].pixels)
  /\ \A id \in DOMAIN term.store : whole(term.store[id])
  /\ \A id \in DOMAIN term.chunks :
       \E n \in DOMAIN pics : pics[n].id = id /\ pics[n].next <= scene.sizes[n]

\* A picture for which there was room, and which was sent to its last piece, is
\* on the line of the cursor at that moment (action T), or in the store when
\* its id is not among those that had to go (action t).
ImagesArrive ==
  [][\A n \in DOMAIN pics :
       pics[n].next = scene.sizes[n] /\ pics'[n].next > scene.sizes[n] /\ pics'[n].ok =>
         IF pics[n].action = "T"
         THEN LET last == Last(term'.images) IN
              term'.images # <<>> /\ last.pixels = Picture(n) /\ last.line = Here
         ELSE pics[n].id \in DOMAIN term'.store => term'.store[pics[n].id] = Picture(n)]_vars

\* A frame that the reader did not overtake shows every picture of which a row
\* is in the window, each with its own pixels and at the line of text it was
\* put on, wherever scrolling, eviction and clearing have taken that line
\* (visible_image_metas, image_rgba, ImageTextureCache).
PicturesTrue ==
  LET rowOf(i) == term.images[i].tag - gone - (term.hist - term.view) IN
  frame.at = "Paint" /\ frame.metas = <<>> /\ ~frame.raced =>
    frame.shown = {[pixels |-> term.images[i].pixels, row |-> rowOf(i)] :
                     i \in {j \in DOMAIN term.images :
                              /\ rowOf(j) < scene.rows
                              /\ rowOf(j) + Len(term.images[j].pixels) > 0}}
=============================================================================
