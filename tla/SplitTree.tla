------------------------------ MODULE SplitTree ------------------------------
(***************************************************************************)
(* The split tree of a window tab (core/src/layout): a node is a leaf      *)
(* [id] or a split [axis, children], a child is [node, flex].              *)
(*                                                                         *)
(* A flex is the share of a child among its siblings.  The code keeps      *)
(* fractions that sum to one; here they are natural numbers without a      *)
(* common divisor, which stand for the same fractions exactly.             *)
(***************************************************************************)
EXTENDS Integers, FiniteSets, SequencesExt
CONSTANTS None, MAX_PANES, MIN_CELL, GUTTER
ASSUME SplitTreeAssumption == MAX_PANES \in Nat \ {0} /\ MIN_CELL \in Nat /\ GUTTER \in Nat

Leaf(id) == [id |-> id]
IsLeaf(node) == "id" \in DOMAIN node
Axis == {"Horizontal", "Vertical"}

\* The trees of at most d splits inside each other; a split has two children or
\* more, so that MAX_PANES leaves are in no deeper tree than these.
Trees[d \in 0 .. MAX_PANES] ==
  [id : Nat] \cup
  IF d = 0 THEN {}
  ELSE [axis : Axis, children : {c \in Seq([node : Trees[d - 1], flex : Nat]) : Len(c) >= 2}]
Tree == Trees[MAX_PANES]

Child(node, flex) == [node |-> node, flex |-> flex]
Split(axis, nodes) ==
  [axis |-> axis, children |-> [i \in DOMAIN nodes |-> Child(nodes[i], 1)]]

collect_leaves[node \in Tree] ==
  IF IsLeaf(node) THEN <<node.id>>
  ELSE FlattenSeq([i \in DOMAIN node.children |-> collect_leaves[node.children[i].node]])

leaves(l) == collect_leaves[l.root]
contains(l, id) == id \in ToSet(leaves(l))

\* the sums of the first numbers of a sequence, by how many
Sums(numbers) ==
  LET sum[i \in 0 .. Len(numbers)] == IF i = 0 THEN 0 ELSE sum[i - 1] + numbers[i] IN sum
Total(numbers) == Sums(numbers)[Len(numbers)]
Flexes(children) == [i \in DOMAIN children |-> children[i].flex]

Gcd[pair \in Nat \X Nat] ==
  IF pair[2] = 0 THEN pair[1] ELSE Gcd[<<pair[2], pair[1] % pair[2]>>]
Divisor(numbers) ==
  LET common[i \in 0 .. Len(numbers)] == IF i = 0 THEN 0 ELSE Gcd[<<common[i - 1], numbers[i]>>]
  IN common[Len(numbers)]

\* a weight below zero counts as none; if there is none at all, all are equal
normalize_flex(children) ==
  LET weight == [i \in DOMAIN children |-> Max({0, children[i].flex})]
      divisor == Divisor(weight)
  IN [i \in DOMAIN children |->
        Child(children[i].node, IF divisor = 0 THEN 1 ELSE weight[i] \div divisor)]

-----------------------------------------------------------------------------
(* Edits at the split of which a leaf is a direct child, at place i.       *)

split_here(node, i, axis, new) ==
  LET child == node.children[i]
  IN IF node.axis = axis
     THEN LET doubled == [k \in DOMAIN node.children |->
                            IF k = i THEN child ELSE [node.children[k] EXCEPT !.flex = 2 * @]]
          IN [node EXCEPT !.children =
                normalize_flex(InsertAt(doubled, i + 1, Child(Leaf(new), child.flex)))]
     ELSE [node EXCEPT !.children[i].node = Split(axis, <<child.node, Leaf(new)>>)]

remove_here(node, i) ==
  LET rest == RemoveAt(node.children, i)
  IN IF Len(rest) = 1 THEN rest[1].node ELSE [node EXCEPT !.children = normalize_flex(rest)]

\* a step is a twentieth of the split; fractions are taken to the unit
\* 1 / (20 * extent) of the sum of the weights
resize_here(node, i, sign, extent) ==
  LET kids == node.children
      a == IF i < Len(kids) THEN i ELSE i - 1
      scale == 20 * extent
      sum == Total(Flexes(kids))
      least == Min({20 * MIN_CELL * sum, 9 * extent * sum})
      pair == (kids[a].flex + kids[a + 1].flex) * scale
      wanted == kids[a].flex * scale + sign * extent * sum
      new == Max({least, Min({wanted, Max({pair - least, least})})})
      flex(k) == IF k = a THEN new ELSE IF k = a + 1 THEN pair - new ELSE kids[k].flex * scale
  IN [node EXCEPT !.children = normalize_flex([k \in DOMAIN kids |-> Child(kids[k].node, flex(k))])]

ReorderNothing(node, i, anchor) == node                           \* mutant

\* the leaf changes places with the anchor if that stands before it
reorder_here(node, i, anchor) ==
  LET at == {k \in DOMAIN node.children : node.children[k].node = Leaf(anchor) /\ k < i}
  IN IF at = {} THEN node
     ELSE LET k == CHOOSE x \in at : TRUE
          IN [node EXCEPT !.children = [@ EXCEPT ![k] = node.children[i], ![i] = node.children[k]]]

\* the edit applied where leaf is a direct child
EditHere(node, i, edit) ==
  CASE edit.op = "split" -> split_here(node, i, edit.axis, edit.new)
    [] edit.op = "remove" -> remove_here(node, i)
    [] edit.op = "resize" -> resize_here(node, i, edit.sign, edit.extent)
    [] edit.op = "reorder" -> reorder_here(node, i, edit.anchor)
EditAt(root, leaf, edit) ==
  LET edited[node \in Tree] ==
        IF IsLeaf(node) THEN node
        ELSE LET at == {i \in DOMAIN node.children : node.children[i].node = Leaf(leaf)}
             IN IF at # {} THEN EditHere(node, CHOOSE i \in at : TRUE, edit)
                ELSE [node EXCEPT !.children =
                        [i \in DOMAIN @ |-> Child(edited[@[i].node], @[i].flex)]]
  IN edited[root]

\* every leaf id replaced by what the function says
Renamed(root, name) ==
  LET renamed[node \in Tree] ==
        IF IsLeaf(node) THEN Leaf(name[node.id])
        ELSE [node EXCEPT !.children =
                [i \in DOMAIN @ |-> Child(renamed[@[i].node], @[i].flex)]]
  IN renamed[root]

equalize_in[node \in Tree] ==
  IF IsLeaf(node) THEN node
  ELSE [node EXCEPT !.children = [i \in DOMAIN @ |-> Child(equalize_in[@[i].node], 1)]]

\* the largest sum of weights of a split, which bounds the instances
Heaviest[node \in Tree] ==
  IF IsLeaf(node) THEN 1
  ELSE Max({Total(Flexes(node.children))} \cup
           {Heaviest[node.children[i].node] : i \in DOMAIN node.children})

-----------------------------------------------------------------------------
(* Where the panes are (geometry.rs, nav.rs).                              *)

Rect(x, y, w, h) == [x |-> x, y |-> y, w |-> w, h |-> h]
Rects == [x : Int, y : Int, w : Int, h : Int]

\* total pixels by weight, or in equal parts if all weights are zero: the floors,
\* and one more to the largest remainders
distribute(total, flex) ==
  LET weight == IF Total(flex) > 0 THEN flex ELSE [i \in DOMAIN flex |-> 1]
      sum == Total(weight)
      rest == [i \in DOMAIN weight |-> (total * weight[i]) % sum]
      parts == [i \in DOMAIN weight |-> (total * weight[i]) \div sum]
      before(i) == {j \in DOMAIN weight : rest[j] > rest[i] \/ (rest[j] = rest[i] /\ j < i)}
  IN [i \in DOMAIN weight |->
        parts[i] + IF Cardinality(before(i)) < total - Total(parts) THEN 1 ELSE 0]

\* where the children of a split are in its rectangle
Placed(node, rect) ==
  LET kids == node.children
      across == node.axis = "Horizontal"
      room == Max({0, (IF across THEN rect.w ELSE rect.h) - GUTTER * (Len(kids) - 1)})
      extent == distribute(room, Flexes(kids))
      from(i) == Sums(extent)[i - 1] + GUTTER * (i - 1)
  IN [i \in DOMAIN kids |-> IF across THEN Rect(rect.x + from(i), rect.y, extent[i], rect.h)
                            ELSE Rect(rect.x, rect.y + from(i), rect.w, extent[i])]
cascade_node[node \in Tree] ==
  [rect \in Rects |->
     IF IsLeaf(node) THEN <<[id |-> node.id, rect |-> rect]>>
     ELSE FlattenSeq([i \in DOMAIN node.children |->
                        cascade_node[node.children[i].node][Placed(node, rect)[i]]])]

cascade(l, window) ==
  IF l.zoomed \in ToSet(leaves(l)) THEN <<[id |-> l.zoomed, rect |-> window]>>
  ELSE cascade_node[l.root][window]

Distance(m, n) == IF m < n THEN n - m ELSE m - n
Overlap(a, al, b, bl) == Max({0, Min({a + al, b + bl}) - Max({a, b})})

GapFromFarEdge(src, r, dir) ==                                    \* mutant
  CASE dir = "Left"  -> src.x - r.x - r.w - src.w
    [] dir = "Right" -> r.x - (src.x + src.w)
    [] dir = "Up"    -> src.y - r.y - r.h - src.h
    [] dir = "Down"  -> r.y - (src.y + src.h)

\* how far a pane is in a direction; below zero, it is not there
Gap(src, r, dir) ==
  CASE dir = "Left"  -> src.x - (r.x + r.w)
    [] dir = "Right" -> r.x - (src.x + src.w)
    [] dir = "Up"    -> src.y - (r.y + r.h)
    [] dir = "Down"  -> r.y - (src.y + src.h)

Sideways(dir) == dir \in {"Left", "Right"}
Beside(src, r, dir) ==
  /\ Gap(src, r, dir) >= 0
  /\ IF Sideways(dir) THEN Overlap(src.y, src.h, r.y, r.h) > 0
     ELSE Overlap(src.x, src.w, r.x, r.w) > 0
Cross(src, r, dir) ==
  IF Sideways(dir) THEN Distance(src.y + src.h \div 2, r.y + r.h \div 2)
  ELSE Distance(src.x + src.w \div 2, r.x + r.w \div 2)

RectOf(cells, id) == cells[CHOOSE i \in DOMAIN cells : cells[i].id = id].rect

\* of the panes beside one the nearest, then the one most opposite, then the first
Nearest(cells, from, dir) ==
  LET src == RectOf(cells, from)
      found == {i \in DOMAIN cells : cells[i].id # from /\ Beside(src, cells[i].rect, dir)}
      gap(i) == Gap(src, cells[i].rect, dir)
      cross(i) == Cross(src, cells[i].rect, dir)
      after(i) == {j \in found :
                     \/ gap(i) < gap(j)
                     \/ gap(i) = gap(j) /\ cross(i) < cross(j)
                     \/ gap(i) = gap(j) /\ cross(i) = cross(j) /\ i <= j}
  IN IF found = {} THEN None ELSE cells[CHOOSE i \in found : found = after(i)].id

NearestTo(cells, from, dir) ==
  IF \E i \in DOMAIN cells : cells[i].id = from THEN Nearest(cells, from, dir) ELSE None
neighbor(l, from, dir, window) == NearestTo(cascade(l, window), from, dir)

-----------------------------------------------------------------------------
(* The layout [root, focused, zoomed, next_id] and its operations.         *)

Layout(root, focused, next) ==
  [root |-> root, focused |-> focused, zoomed |-> None, next_id |-> next]
SinglePane == Layout(Leaf(0), 0, 1)

split(l, target, axis, id) ==
  [l EXCEPT !.root =
     IF @ = Leaf(target) THEN Split(axis, <<@, Leaf(id)>>)
     ELSE EditAt(@, target, [op |-> "split", axis |-> axis, new |-> id])]

remove(l, leaf) ==
  IF ~contains(l, leaf) \/ IsLeaf(l.root) THEN l
  ELSE LET root == EditAt(l.root, leaf, [op |-> "remove"])
       IN [l EXCEPT !.root = root,
                    !.zoomed = IF @ = leaf THEN None ELSE @,
                    !.focused = IF @ = leaf THEN collect_leaves[root][1] ELSE @]

at_capacity(l) == Len(leaves(l)) >= MAX_PANES

try_split(l, target, axis) ==
  IF ~contains(l, target) \/ at_capacity(l) THEN l
  ELSE [split(l, target, axis, l.next_id) EXCEPT !.next_id = @ + 1, !.focused = l.next_id]

\* the placeholder takes the id of the pane that moves
Attach(placed, placeholder, source, target, before) ==
  LET root == Renamed(placed.root, [id \in ToSet(leaves(placed)) |->
                                      IF id = placeholder THEN source ELSE id])
  IN [placed EXCEPT
        !.root = IF before THEN EditAt(root, source, [op |-> "reorder", anchor |-> target]) ELSE root,
        !.next_id = @ + 1, !.focused = source]
move_leaf(l, source, target, axis, before) ==
  IF source = target \/ ~{source, target} \subseteq ToSet(leaves(l)) THEN l
  ELSE Attach(split(remove(l, source), target, axis, l.next_id), l.next_id, source, target, before)

resize(l, leaf, sign, extent) ==
  [l EXCEPT !.root = EditAt(@, leaf, [op |-> "resize", sign |-> sign, extent |-> extent])]

equalize(l) == [l EXCEPT !.root = equalize_in[@]]

FocusOn(l, id) == IF id = None THEN l ELSE [l EXCEPT !.focused = id]
focus_dir(l, dir, window) == FocusOn(l, neighbor(l, l.focused, dir, window))

SwapWith(l, to) ==
  LET name == [id \in ToSet(leaves(l)) |->
                 IF id = to THEN l.focused ELSE IF id = l.focused THEN to ELSE id]
  IN IF to = None THEN l ELSE [l EXCEPT !.root = Renamed(@, name)]
swap_focused(l, dir, window) == SwapWith(l, neighbor(l, l.focused, dir, window))

toggle_zoom(l) == [l EXCEPT !.zoomed = IF @ = l.focused THEN None ELSE l.focused]

\* rows of as many panes as the side of the smallest square that holds them
Row(ids) == IF Len(ids) = 1 THEN Leaf(ids[1])
            ELSE Split("Horizontal", [i \in DOMAIN ids |-> Leaf(ids[i])])
rebalance_squarest(l) ==
  LET ids == leaves(l)
      n == Len(ids)
      cols == Min({c \in 1 .. n : c * c >= n})
      rows == [r \in 1 .. ((n + cols - 1) \div cols) |->
                 Row(SubSeq(ids, (r - 1) * cols + 1, Min({n, r * cols})))]
  IN IF n = 1 THEN l
     ELSE [l EXCEPT !.root = IF Len(rows) = 1 THEN rows[1] ELSE Split("Vertical", rows)]

\* the preset of which a shape lists how many panes each column or row has
from_preset(axis, counts) ==
  LET other == IF axis = "Horizontal" THEN "Vertical" ELSE "Horizontal"
      first(i) == Sums(counts)[i - 1]
      part(i) == IF counts[i] = 1 THEN Leaf(first(i))
                 ELSE Split(other, [k \in 1 .. counts[i] |-> Leaf(first(i) + k - 1)])
      parts == [i \in DOMAIN counts |-> part(i)]
  IN Layout(IF Len(parts) = 1 THEN parts[1] ELSE Split(axis, parts), 0, Total(counts))
=============================================================================
