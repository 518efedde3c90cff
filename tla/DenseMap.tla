------------------------------ MODULE DenseMap ------------------------------
(***************************************************************************)
(* The map in which an image keeps a value per subresource: one value for  *)
(* the whole image, or one for each aspect, layer and level, with a count  *)
(* of the neighbours that differ.  A shape [layers, levels, aspects] gives *)
(* the size of the image; a range [layer, layers, level, levels, aspect,   *)
(* aspects] is resolved and its aspects are ordinals.                      *)
(*                                                                         *)
(* src/src/driver/image.rs, DenseMap and DenseMapCursor                    *)
(***************************************************************************)
EXTENDS Integers, SequencesExt

CellCount(shape) == shape.layers * shape.levels * shape.aspects

Index(shape, aspect, layer, level) ==
    layer * shape.aspects * shape.levels + level * shape.aspects + aspect

IndicesOf(shape, range) ==
    {Index(shape, range.aspect + a, range.layer + y, range.level + m) :
        a \in 0..range.aspects - 1, y \in 0..range.layers - 1, m \in 0..range.levels - 1}

IsWholeImage(shape, range) ==
    /\ range.layer = 0 /\ range.layers = shape.layers
    /\ range.level = 0 /\ range.levels = shape.levels
    /\ range.aspects = shape.aspects

DenseOf(value) == [values |-> <<value>>, transitions |-> 0]

(* values is a sequence; the subresource with index i is values[i + 1].    *)
ValueAt(map, i) == IF Len(map.values) = 1 THEN map.values[1] ELSE map.values[i + 1]

IsUniform(map) == map.transitions = 0

Expand(map, shape) ==
    IF Len(map.values) = 1
    THEN [map EXCEPT !.values = [i \in 1..CellCount(shape) |-> map.values[1]]]
    ELSE map

Truncate(map) == IF IsUniform(map) THEN DenseOf(map.values[1]) ELSE map

(* Assigning a value adjusts the count for the neighbours of what changed. *)
SetValues(map, indices, value) ==
    LET old == map.values
        new == [j \in DOMAIN old |-> IF j - 1 \in indices THEN value ELSE old[j]]
        near == {j \in 2..Len(old) : j - 1 \in indices \/ j - 2 \in indices}
        Differ(values) == Cardinality({j \in near : values[j - 1] # values[j]})
    IN  [values |-> new, transitions |-> map.transitions + Differ(new) - Differ(old)]

SetDenseRange(map, shape, value, range) ==
    CASE IsUniform(map) /\ map.values[1] = value -> Truncate(map)
      [] ~(IsUniform(map) /\ map.values[1] = value) /\ IsWholeImage(shape, range) -> DenseOf(value)
      [] OTHER -> Truncate(SetValues(Expand(map, shape), IndicesOf(shape, range), value))

-----------------------------------------------------------------------------
(* A cursor assigns the subresources of a range rectangle by rectangle,    *)
(* and hands out each with the value that all of it had.                   *)

DenseCursor == [aspect |-> 0, layer |-> 0, level |-> 0]

DenseCursorDone(cur, range) == cur.aspect = range.aspects

(* The largest n for which the values from position "from" on, n of them,  *)
(* are all the same as the one at the cursor.                              *)
Longest(limit, from, Same(_)) ==
    Max({n \in 1..limit - from : \A k \in from + 1..from + n - 1 : Same(k)})

(* Mutant: a rectangle that does not start at the first level grows over   *)
(* layers too.                                                             *)
RectangleOfRest(map, shape, range, cur) ==
    LET At(a, y, m) == ValueAt(map, Index(shape, range.aspect + a, range.layer + y, range.level + m))
        old == At(cur.aspect, cur.layer, cur.level)
        Row(y) == \A m \in cur.level..range.levels - 1 : At(cur.aspect, y, m) = old
        levels == Longest(range.levels, cur.level, LAMBDA m : At(cur.aspect, cur.layer, m) = old)
    IN  [aspect |-> range.aspect + cur.aspect, aspects |-> 1,
         layer |-> range.layer + cur.layer,
         layers |-> IF cur.level + levels = range.levels
                    THEN Longest(range.layers, cur.layer, Row) ELSE 1,
         level |-> range.level + cur.level, levels |-> levels]

(* How far the rectangle at the cursor grows: over levels, over layers if  *)
(* it has all levels, over aspects if it has all layers.                   *)
Rectangle(map, shape, range, cur) ==
    LET At(a, y, m) == ValueAt(map, Index(shape, range.aspect + a, range.layer + y, range.level + m))
        old == At(cur.aspect, cur.layer, cur.level)
        Row(a, y) == \A m \in 0..range.levels - 1 : At(a, y, m) = old
        Plane(a) == \A y \in 0..range.layers - 1 : Row(a, y)
        levels == Longest(range.levels, cur.level, LAMBDA m : At(cur.aspect, cur.layer, m) = old)
        layers == IF cur.level = 0 /\ levels = range.levels
                  THEN Longest(range.layers, cur.layer, LAMBDA y : Row(cur.aspect, y)) ELSE 1
        aspects == IF cur.level = 0 /\ levels = range.levels
                        /\ cur.layer = 0 /\ layers = range.layers
                   THEN Longest(range.aspects, cur.aspect, Plane) ELSE 1
    IN  [aspect |-> range.aspect + cur.aspect, aspects |-> aspects,
         layer |-> range.layer + cur.layer, layers |-> layers,
         level |-> range.level + cur.level, levels |-> levels]

Advance(range, cur, piece) ==
    LET level == cur.level + piece.levels
        layer == cur.layer + piece.layers
    IN  CASE level < range.levels -> [cur EXCEPT !.level = level]
          [] level = range.levels /\ layer < range.layers ->
                [cur EXCEPT !.level = 0, !.layer = layer]
          [] OTHER -> [aspect |-> cur.aspect + piece.aspects, layer |-> 0, level |-> 0]

(* All of the range at once while the image is uniform                     *)
AtOnce(map, cur) == cur = DenseCursor /\ IsUniform(map)

DensePiece(map, shape, range, cur) ==
    IF AtOnce(map, cur) THEN range ELSE Rectangle(map, shape, range, cur)

(* The piece's map, cursor and old value                                   *)
PieceMap(map, shape, cur, piece, value) ==
    IF AtOnce(map, cur) THEN SetDenseRange(map, shape, value, piece)
    ELSE SetValues(map, IndicesOf(shape, piece), value)

PieceCursor(map, range, cur, piece) ==
    IF AtOnce(map, cur) THEN [cur EXCEPT !.aspect = range.aspects] ELSE Advance(range, cur, piece)

PieceValue(map, shape, piece) ==
    ValueAt(map, Index(shape, piece.aspect, piece.layer, piece.level))
=============================================================================
