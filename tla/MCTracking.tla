---------------------------- MODULE MCTracking -----------------------------
(* Trackers of small resources.  With one thread every range and value is  *)
(* tried on a map large enough for each case of its algorithms; with two   *)
(* and three, threads that assign parts, assign everything, and read race. *)
EXTENDS Tracking

CONSTANTS t1, t2, t3

MCThreads == {t1, t2, t3}

Set(ranges, values) == [do : {"set"}, ranges : ranges, value : values]
Swap(ranges, values, keep) ==
    [do : {"swap"}, ranges : {<<r>> : r \in ranges}, value : values, keep : keep]
Mark(ranges) == [do : {"mark"}, ranges : {<<r>> : r \in ranges}, value : {"resolve"}]
Get(range) == [do : {"read"}, ranges : {<<range>>}, value : {None}]

Bytes(size) == {<<a, b>> \in (0..size - 1) \X (1..size) : a < b}

Shape(layers, levels, aspects) == [layers |-> layers, levels |-> levels, aspects |-> aspects]

Box(layer, layers, level, levels, aspect, aspects) ==
    [layer |-> layer, layers |-> layers, level |-> level, levels |-> levels,
     aspect |-> aspect, aspects |-> aspects]

Boxes(shape) ==
    {r \in [layer : 0..1, layers : 1..2, level : 0..1, levels : 1..2,
            aspect : 0..1, aspects : 1..2] :
        /\ r.layer + r.layers <= shape.layers
        /\ r.level + r.levels <= shape.levels
        /\ r.aspect + r.aspects <= shape.aspects}

Each(ranges) == {<<r>> : r \in ranges}

Column == Shape(2, 1, 1)
Layered == Shape(2, 2, 1)
Aspects == Shape(2, 1, 2)
Single == Shape(1, 1, 1)
First == Box(0, 1, 0, 1, 0, 1)
Second == Box(1, 1, 0, 1, 0, 1)
All == Box(0, 2, 0, 1, 0, 1)

Buffer(kind, size, values, ops) ==
    [kind |-> kind, of |-> "buffer", size |-> size, values |-> values, ops |-> ops]

Image(kind, shape, values, ops) ==
    [kind |-> kind, of |-> "image", shape |-> shape, values |-> values, ops |-> ops]

Queues == {"q1", "q2"}

Use(ranges) == [do : {"use"}, ranges : {<<r>> : r \in ranges}, value : {None}]

Claimed(of, owners, ops) ==
    [kind |-> "claims", values |-> {"f1", "f2"},
     owners |-> [c \in 0..Len(owners) - 1 |-> owners[c + 1]], ops |-> ops] @@ of

Long == [of |-> "buffer", size |-> 7]
Short == [of |-> "buffer", size |-> 4]
Dual == [of |-> "image", shape |-> Shape(1, 1, 2)]

(* A thread that assigns parts, one that assigns everything, and a reader  *)
SharingRoles(part, all) ==
    t1 :> Set({<<part>>}, {"q1"}) @@ t2 :> Set({<<all>>}, Queues) @@ t3 :> Get(all)

(* Two threads that do all of it                                           *)
SharingPair(first, second, all) ==
    t1 :> Set({<<first>>, <<first, second>>}, Queues) @@
    t2 :> Set({<<second>>, <<all>>}, Queues) \cup Get(first)

ClaimTrackers ==
    {Claimed(Long, <<"f1", "f1", "own", "f2", "f2", "unknown", "f1">>, t1 :> Use(Bytes(7))),
     Claimed(Short, <<"f1", "f2", "f2", "own">>,
             t1 :> Use(Bytes(4)) @@ t2 :> Use({<<1, 3>>}) @@ t3 :> Use({<<0, 4>>})),
     Claimed([of |-> "image", shape |-> Layered], <<"f1", "f1", "f2", "own">>,
             t1 :> Use(Boxes(Layered)) @@ t2 :> Use({Box(0, 2, 1, 1, 0, 1), Box(1, 1, 0, 2, 0, 1)})),
     Claimed([of |-> "image", shape |-> Aspects], <<"f1", "f2", "f1", "f1">>,
             t1 :> Use(Boxes(Aspects)) @@ t2 :> Use({Box(0, 2, 0, 1, 1, 1), Box(1, 1, 0, 1, 0, 2)})),
     Claimed(Dual, <<"f1", "f2">>, t1 :> Use(Boxes(Shape(1, 1, 2))) @@ t2 :> Use(Boxes(Shape(1, 1, 2)))),
     Claimed([of |-> "image", shape |-> Single], <<"f1">>, t1 :> Use(Boxes(Single)))}

MCTrackers == ClaimTrackers \cup
    {Buffer("sharing", 4, Queues, t1 :> Set(Each(Bytes(4)), Queues)),
     Buffer("sharing", 2, Queues, SharingRoles(<<0, 1>>, <<0, 2>>)),
     Buffer("sharing", 2, Queues, SharingPair(<<0, 1>>, <<1, 2>>, <<0, 2>>)),
     Buffer("access", 4, {"read", "write"}, t1 :> Swap(Bytes(4), {"read", "write"}, {FALSE})),
     Image("sharing", Column, Queues, SharingRoles(First, All)),
     Image("sharing", Column, Queues, SharingPair(First, Second, All)),
     Image("access", Layered, {"write"}, t1 :> Swap(Boxes(Layered), {"write", "nothing"}, {FALSE})),
     Image("access", Aspects, {"write"}, t1 :> Swap(Boxes(Aspects), {"write", "nothing"}, {FALSE})),
     Image("access", Column, {"write", "fragment", "vertex"},
           t1 :> Swap({First}, {"write", "fragment"}, {TRUE}) @@
           t2 :> Swap({All}, {"vertex"}, {TRUE}) @@
           t3 :> Get(All)),
     Image("access", Column, {"write", "fragment"},
           t1 :> Swap({First, All}, {"write"}, {TRUE}) \cup Mark({First}) @@
           t2 :> Swap({Second, All}, {"fragment"}, {TRUE}) \cup Get(All)),
     Image("access", Single, {"write", "fragment", "vertex", "anyStage"},
           t1 :> Swap(Boxes(Single), {"write", "fragment"}, {TRUE, FALSE}) @@
           t2 :> Swap(Boxes(Single), {"vertex", "anyStage"}, {TRUE}) \cup Get(First))}
=============================================================================
