-------------------------------- MODULE Pool --------------------------------
(***************************************************************************)
(* Pools lend resources and take them back.                                *)
(*                                                                         *)
(* A pool keeps idle items in buckets, bounded vectors behind a mutex.  A   *)
(* request takes a compatible item out of a bucket or creates one, and      *)
(* wraps it in a Lease, which holds a Weak to the bucket it goes back to.   *)
(* Leases are dropped by any thread, while the owner of the pool requests,  *)
(* clears, collects or drops it.  GarbageCollector notes the requests made  *)
(* between two collections; Cache hands a live lease out again, per tag,    *)
(* through a Weak of its own.                                               *)
(*                                                                         *)
(* src/src/pool/                                                            *)
(***************************************************************************)
EXTENDS Integers, Sequences, FiniteSets, Functions

CONSTANTS
    Strategies,     \* subset of {"fifo", "hash", "lazy"}: the pools to explore
    Infos,          \* what is requested, see Info
    Items,          \* resources alive at the same time
    Leases,
    Buckets,        \* bucket vectors, one Arc each
    Tags,
    Capacity,       \* PoolConfig capacity of every kind
    DefaultCapacity,\* PoolConfig::DEFAULT_RESOURCE_CAPACITY
    MaxClones,      \* bound: strong references to one lease
    MayPanic,       \* a thread may drop a lease while it is panicking
    Nil

\* Request and resource information, as far as the pools tell it apart: the
\* attributes that have to match, those that may be larger (sizes, usage, counts),
\* host access, and the sampler count of a descriptor pool.
Managed == {"buffer", "image"}          \* cleared and collected
Kinds == Managed \cup {"descriptors", "command"}
Access == SUBSET {"read", "write"}

ASSUME CapacityAssumption == Capacity \in Nat /\ DefaultCapacity \in Nat \ {0}
ASSUME StrategyAssumption == Strategies \subseteq {"fifo", "hash", "lazy"}
ASSUME InfosAssumption ==
    \A wish \in Infos :
        /\ wish = [kind |-> wish.kind, exact |-> wish.exact, size |-> wish.size,
                   access |-> wish.access, samplers |-> wish.samplers]
        /\ wish.kind \in Kinds /\ wish.access \in Access
        /\ wish.size \in Nat /\ wish.samplers \in Nat
        \* only descriptor pools count samplers, only buffers and images are mapped,
        \* and a command buffer has no attribute but its queue family
        /\ wish.kind # "descriptors" => wish.samplers = 0
        /\ wish.kind \notin Managed => wish.access = {}
        /\ wish.kind = "command" => wish.size = 0
ASSUME ClonesAssumption == MaxClones \in Nat \ {0}
ASSUME NilAssumption == Nil \notin Infos \cup Items \cup Buckets \cup Leases

VARIABLES
    strategy,       \* which pool this is
    open,           \* the pool has not been dropped
    buckets,        \* HashMap<key, Cache>: the bucket of every key in use
    contents, room, \* per bucket: the items, Vec::capacity
    info,           \* per item: what it was created with, Nil if it does not exist
    leased, home,   \* per lease: its item (Nil: not in use) and its bucket
    wanted,         \* per lease: the requests it was handed out for
    clones,         \* per lease: strong references
    returning,      \* per lease: Lease::drop holds the upgraded bucket
    aliases,        \* Cache: per tag, what was leased for it, live or not
    lookup,         \* Cache: the request being looked up
    requests,       \* GarbageCollector: ResourceRequests
    \* history: items lent since the last collection, items leaked by a panic
    served, leaked

poolVars  == <<strategy, open>>
leaseVars == <<leased, home, wanted, clones>>
vars == <<poolVars, buckets, contents, room, info, leaseVars, returning, aliases,
          lookup, requests, served, leaked>>

TypeOK ==
    /\ strategy \in Strategies
    /\ open \in BOOLEAN
    /\ Range(buckets) \subseteq Buckets
    /\ contents \in [Buckets -> Seq(Items)]
    /\ room \in [Buckets -> Nat]
    /\ info \in [Items -> Infos \cup {Nil}]
    /\ leased \in [Leases -> Items \cup {Nil}]
    /\ home \in [Leases -> Buckets \cup {Nil}]
    /\ wanted \in [Leases -> SUBSET Infos]
    /\ clones \in [Leases -> 0..MaxClones]
    /\ returning \in [Leases -> BOOLEAN]
    /\ aliases \in [Tags -> Seq([info : Infos, lease : Leases])]
    /\ lookup \in [tag : Tags, info : Infos] \cup {Nil}
    /\ requests \in SUBSET Infos
    /\ served \in SUBSET Items
    /\ leaked \in SUBSET Items

Init ==
    /\ strategy \in Strategies
    /\ open = TRUE
    /\ buckets = [k \in {} |-> Nil]
    /\ contents = [b \in Buckets |-> <<>>]
    /\ room = [b \in Buckets |-> 0]
    /\ info = [i \in Items |-> Nil]
    /\ leased = [l \in Leases |-> Nil]
    /\ home = [l \in Leases |-> Nil]
    /\ wanted = [l \in Leases |-> {}]
    /\ clones = [l \in Leases |-> 0]
    /\ returning = [l \in Leases |-> FALSE]
    /\ aliases = [t \in Tags |-> <<>>]
    /\ lookup = Nil
    /\ requests = {}
    /\ served = {}
    /\ leaked = {}

-----------------------------------------------------------------------------
(* Buckets and compatibility                                               *)

\* What a request has to meet to get the item, whatever the pool.
Satisfies(item, wish) ==
    /\ item.kind = wish.kind /\ item.exact = wish.exact
    /\ item.size >= wish.size
    /\ wish.access \subseteq item.access
    /\ item.samplers >= wish.samplers

\* The key of the bucket for a request, an info with the rest blanked out.
Key(wish) ==
    LET family == [wish EXCEPT !.size = 0, !.access = {}, !.samplers = 0]
        hosted == [family EXCEPT !.access = IF wish.access = {} THEN {} ELSE {"read"}]
        single == [family EXCEPT !.exact = Nil]
    IN CASE wish.kind = "command" -> family
         [] wish.kind # "command" /\ strategy = "hash" -> wish
         [] wish.kind # "command" /\ strategy = "fifo" -> single
         [] wish.kind = "descriptors" /\ strategy = "lazy" -> single
         [] wish.kind = "image" /\ strategy = "lazy" -> family
         [] wish.kind = "buffer" /\ strategy = "lazy" -> hosted

\* Mutant: sizes are not compared.
SameFormat(item, wish) == item.exact = wish.exact

AtLeast(item, wish) == item.exact = wish.exact /\ item.size >= wish.size

\* compatible_buffer_info, with exact or superset host mapping
BufferCompatible(item, wish, superset) ==
    /\ AtLeast(item, wish)
    /\ IF superset THEN wish.access \subseteq item.access ELSE wish.access = item.access

\* compatible_lazy_image_info and compatible_fifo_image_info.  One attribute, exact,
\* stands for those that both compare; they differ over alloc_dedicated, which the
\* first does not compare and no request here varies.
ImageCompatible(item, wish) == AtLeast(item, wish)

\* The loops of LazyPool::resource and FifoPool::resource for descriptor pools.
DescriptorsCompatible(item, wish) ==
    /\ AtLeast(item, wish)
    /\ item.samplers >= IF strategy = "lazy" THEN wish.size ELSE wish.samplers

\* Would this pool lend the item, which is in the bucket of the request, for it?
Compatible(item, wish) ==
    CASE wish.kind = "command" \/ strategy = "hash" -> TRUE
      [] wish.kind = "buffer" /\ strategy # "hash" ->
            BufferCompatible(item, wish, strategy = "lazy")
      [] wish.kind = "image" /\ strategy # "hash" -> ImageCompatible(item, wish)
      [] wish.kind = "descriptors" /\ strategy # "hash" ->
            DescriptorsCompatible(item, wish)

\* The item a request takes: the first compatible one, or the last (Vec::pop).
Takes(s, wish) ==
    LET fits == {n \in DOMAIN s : Compatible(info[s[n]], wish)}
    IN IF wish.kind = "command" \/ strategy = "hash"
         THEN {n \in fits : n = Len(s)}
         ELSE {n \in fits : \A m \in fits : n <= m}

\* Mutant: the item is shared instead of taken out.
KeepsItem(s, n) == s

\* Vec::swap_remove
SwapRemove(s, n) ==
    [m \in 1..(Len(s) - 1) |-> IF m = n THEN s[Len(s)] ELSE s[m]]

\* Vec::retain: the items at the positions P, in their order.
Nth(P, k) == CHOOSE n \in P : Cardinality({m \in P : m <= n}) = k
Kept(s, P) == [k \in 1..Cardinality(P) |-> s[Nth(P, k)]]

BucketCapacity(kind) == IF kind = "command" THEN DefaultCapacity ELSE Capacity

\* The Arc of a bucket is held by the pool or by a lease that is going back.
Alive(b) == b \in Range(buckets) \/ \E l \in Leases : returning[l] /\ home[l] = b

\* entry(key).or_insert_with(...): the request's bucket, made if there is none.
WithBucket(wish, b) ==
    IF Key(wish) \in DOMAIN buckets
      THEN /\ b = buckets[Key(wish)]
           /\ UNCHANGED <<buckets, room>>
      ELSE /\ ~Alive(b) /\ \A l \in Leases : home[l] # b
           /\ buckets' = [k \in DOMAIN buckets \cup {Key(wish)} |->
                            IF k = Key(wish) THEN b ELSE buckets[k]]
           /\ room' = [room EXCEPT ![b] = BucketCapacity(wish.kind)]

Free(l) == leased[l] = Nil /\ \A t \in Tags : \A n \in DOMAIN aliases[t] :
                                aliases[t][n].lease # l

-----------------------------------------------------------------------------
(* Pool::resource, behind GarbageCollector: needs the pool for itself.      *)

\* Mutant: requests that come through a tagged cache are not noted.
LendUntracked(wish, b, i, l) ==
    /\ Free(l)
    /\ leased' = [leased EXCEPT ![l] = i]
    /\ home' = [home EXCEPT ![l] = b]
    /\ wanted' = [wanted EXCEPT ![l] = {wish}]
    /\ clones' = [clones EXCEPT ![l] = 1]
    /\ requests' = IF wish.kind \in Managed /\ lookup = Nil THEN requests \cup {wish}
                   ELSE requests
    /\ served' = served \cup {i}
    /\ aliases' = IF lookup = Nil THEN aliases
                  ELSE [aliases EXCEPT ![lookup.tag] =
                          Append(@, [info |-> wish, lease |-> l])]
    /\ lookup' = Nil
    /\ UNCHANGED <<poolVars, returning, leaked>>

\* Lease::new around item i; a successful request is noted and, when it comes
\* through the cache, the lease is remembered under its tag.
Lend(wish, b, i, l) ==
    /\ Free(l)
    /\ leased' = [leased EXCEPT ![l] = i]
    /\ home' = [home EXCEPT ![l] = b]
    /\ wanted' = [wanted EXCEPT ![l] = {wish}]
    /\ clones' = [clones EXCEPT ![l] = 1]
    /\ requests' = IF wish.kind \in Managed THEN requests \cup {wish} ELSE requests
    /\ served' = served \cup {i}
    /\ aliases' = IF lookup = Nil THEN aliases
                  ELSE [aliases EXCEPT ![lookup.tag] =
                          Append(@, [info |-> wish, lease |-> l])]
    /\ lookup' = Nil
    /\ UNCHANGED <<poolVars, returning, leaked>>

ResourceHit(wish, b, l) ==
    /\ WithBucket(wish, b)
    /\ \E n \in Takes(contents[b], wish) :
          /\ Lend(wish, b, contents[b][n], l)
          /\ contents' = [contents EXCEPT ![b] = SwapRemove(@, n)]
    /\ UNCHANGED info

ResourceMiss(wish, b, l) ==
    /\ WithBucket(wish, b)
    /\ Takes(contents[b], wish) = {}
    /\ \E i \in Items :
          /\ info[i] = Nil
          /\ Lend(wish, b, i, l)
          /\ info' = [info EXCEPT ![i] = wish]
    /\ UNCHANGED contents

\* The driver cannot create the resource: the error leaves with `?`.
ResourceFails(wish, b) ==
    /\ WithBucket(wish, b)
    /\ Takes(contents[b], wish) = {}
    /\ lookup' = Nil
    /\ UNCHANGED <<poolVars, contents, info, leaseVars, returning, aliases, requests,
                   served, leaked>>

Resource(wish) ==
    /\ open
    /\ \E b \in Buckets :
          \/ \E l \in Leases : ResourceHit(wish, b, l) \/ ResourceMiss(wish, b, l)
          \/ ResourceFails(wish, b)

-----------------------------------------------------------------------------
(* Cache: TaggedCache::resource                                            *)

Live(alias) == clones[alias.lease] > 0

\* First, the aliases nobody holds any more are forgotten ...
CacheRequest(tag, wish) ==
    /\ open /\ lookup = Nil
    /\ wish.kind \in Managed
    /\ aliases' = [aliases EXCEPT ![tag] = Kept(@, {n \in DOMAIN @ : Live(@[n])})]
    /\ lookup' = [tag |-> tag, info |-> wish]
    /\ UNCHANGED <<poolVars, buckets, contents, room, info, leaseVars, returning,
                   requests, served, leaked>>

\* compatible_buffer_info (exact) and compatible_image_info, on the information
\* the alias was requested with.
CacheCompatible(item, wish) ==
    item.kind = wish.kind /\ AtLeast(item, wish) /\ item.access = wish.access

Hits(tag, wish) ==
    {n \in DOMAIN aliases[tag] : /\ CacheCompatible(aliases[tag][n].info, wish)
                                 /\ Live(aliases[tag][n])}

\* ... then the first compatible one that is still held is shared ...
CacheHit ==
    /\ lookup # Nil
    /\ \E n \in Hits(lookup.tag, lookup.info) :
          LET l == aliases[lookup.tag][n].lease
          IN /\ \A m \in Hits(lookup.tag, lookup.info) : n <= m
             /\ clones[l] < MaxClones
             /\ clones' = [clones EXCEPT ![l] = @ + 1]
             /\ wanted' = [wanted EXCEPT ![l] = @ \cup {lookup.info}]
    /\ lookup' = Nil
    /\ UNCHANGED <<poolVars, buckets, contents, room, info, leased, home, returning,
                   aliases, requests, served, leaked>>

\* ... or the pool is asked.
CacheMiss ==
    /\ lookup # Nil
    /\ Hits(lookup.tag, lookup.info) = {}
    /\ Resource(lookup.info)

-----------------------------------------------------------------------------
(* Giving back, on any thread                                              *)

ForgetLease(l) ==
    /\ leased' = [leased EXCEPT ![l] = Nil]
    /\ home' = [home EXCEPT ![l] = Nil]
    /\ wanted' = [wanted EXCEPT ![l] = {}]

\* Mutant: a reference that is gone is given up again.
DropCloneTwice(l) ==
    /\ clones' = [clones EXCEPT ![l] = @ - 1]
    /\ UNCHANGED <<poolVars, buckets, contents, room, info, leased, home, wanted,
                   returning, aliases, lookup, requests, served, leaked>>

\* One of several references goes.
DropClone(l) ==
    /\ clones[l] > 1
    /\ clones' = [clones EXCEPT ![l] = @ - 1]
    /\ UNCHANGED <<poolVars, buckets, contents, room, info, leased, home, wanted,
                   returning, aliases, lookup, requests, served, leaked>>

\* Lease::drop.  A panicking thread forgets the item.
DropPanicking(l) ==
    /\ MayPanic
    /\ clones[l] = 1
    /\ clones' = [clones EXCEPT ![l] = 0]
    /\ leaked' = leaked \cup {leased[l]}
    /\ ForgetLease(l)
    /\ UNCHANGED <<poolVars, buckets, contents, room, info, returning, aliases, lookup,
                   requests, served>>

\* Weak::upgrade fails: the bucket is gone and the item goes too.
DropOrphan(l) ==
    /\ clones[l] = 1 /\ ~Alive(home[l])
    /\ clones' = [clones EXCEPT ![l] = 0]
    /\ info' = [info EXCEPT ![leased[l]] = Nil]
    /\ served' = served \ {leased[l]}
    /\ ForgetLease(l)
    /\ UNCHANGED <<poolVars, buckets, contents, room, returning, aliases, lookup,
                   requests, leaked>>

\* Weak::upgrade succeeds: from here on this thread keeps the bucket alive.
Upgrade(l) ==
    /\ clones[l] = 1 /\ Alive(home[l])
    /\ clones' = [clones EXCEPT ![l] = 0]
    /\ returning' = [returning EXCEPT ![l] = TRUE]
    /\ UNCHANGED <<poolVars, buckets, contents, room, info, leased, home, wanted,
                   aliases, lookup, requests, served, leaked>>

\* Mutant: a full bucket is pushed to all the same.
PushedAnyway(s, capacity, i) == Append(s, i)

\* What a full vector makes of an item pushed to it: its last item is popped first.
\* An empty vector without room has nothing to pop.
Pushed(s, capacity, i) ==
    Append(IF Len(s) >= capacity /\ s # <<>> THEN SubSeq(s, 1, Len(s) - 1) ELSE s, i)

\* Vec::push grows a vector that has no room at all to MIN_NON_ZERO_CAP.
Grown(s, capacity) == IF Len(s) > capacity THEN 4 ELSE capacity

\* The locked part of Lease::drop, and the end of the upgraded Arc, which takes
\* the items with it when the pool has let go of the bucket.
Return(l) ==
    LET b == home[l]
        s == Pushed(contents[b], room[b], leased[l])
        kept == \/ b \in Range(buckets)
                \/ \E m \in Leases \ {l} : returning[m] /\ home[m] = b
        gone == Range(contents[b]) \cup {leased[l]}
        lost == IF kept THEN gone \ Range(s) ELSE gone
    IN /\ returning[l]
       /\ returning' = [returning EXCEPT ![l] = FALSE]
       /\ contents' = [contents EXCEPT ![b] = IF kept THEN s ELSE <<>>]
       /\ room' = [room EXCEPT ![b] = Grown(s, room[b])]
       /\ info' = [i \in Items |-> IF i \in lost THEN Nil ELSE info[i]]
       /\ served' = served \ lost
       /\ ForgetLease(l)
       /\ UNCHANGED <<poolVars, buckets, clones, aliases, lookup, requests, leaked>>

-----------------------------------------------------------------------------
(* Managing the pool                                                       *)

\* Keep, of the buckets with a key in keys, the items in keep; drop the others'
\* Arc.  Items go unless a returning lease still holds their bucket.
Retain(keys, keep) ==
    LET kept == {buckets[k] : k \in keys}
        held(b) == \E l \in Leases : returning[l] /\ home[l] = b
        left(b) == IF b \in kept
                     THEN Kept(contents[b],
                               {n \in DOMAIN contents[b] : contents[b][n] \in keep})
                   ELSE IF b \in Range(buckets) /\ ~held(b) THEN <<>>
                   ELSE contents[b]
        lost == UNION {Range(contents[b]) \ Range(left(b)) : b \in Buckets}
    IN /\ buckets' = [k \in keys |-> buckets[k]]
       /\ contents' = [b \in Buckets |-> left(b)]
       /\ info' = [i \in Items |-> IF i \in lost THEN Nil ELSE info[i]]

\* clear, clear_* and clear_*_by_info.  FifoPool replaces its buckets: the new one
\* is here made by the next request.
Clear(keys) ==
    /\ open /\ lookup = Nil
    /\ \A k \in keys : k.kind \in Managed
    /\ Retain(DOMAIN buckets \ keys, Items)
    /\ served' = served \cap {i \in Items : info'[i] # Nil}
    /\ UNCHANGED <<poolVars, room, leaseVars, returning, aliases, lookup, requests,
                   leaked>>

\* GarbageCollector::collect_resources: a bucket nobody asked for goes; in the
\* others (HashPool apart) only items that some request could be served with stay.
Collect ==
    LET managed == {k \in DOMAIN buckets : k.kind \in Managed}
        keys == {k \in managed : \E wish \in requests : Key(wish) = k}
        of(i) == {wish \in requests : Key(wish) = Key(info[i])}
        keep == {i \in Items : /\ info[i] # Nil
                               /\ \/ info[i].kind \notin Managed
                                  \/ \E wish \in of(i) : Compatible(info[i], wish)}
    IN /\ open /\ lookup = Nil
       /\ Retain((DOMAIN buckets \ managed) \cup keys, keep)
       /\ requests' = {}
       /\ served' = {}
       /\ UNCHANGED <<poolVars, room, leaseVars, returning, aliases, lookup, leaked>>

DropPool ==
    /\ open /\ lookup = Nil
    /\ open' = FALSE
    /\ Retain({}, Items)
    /\ served' = served \cap {i \in Items : info'[i] # Nil}
    /\ aliases' = [t \in Tags |-> <<>>]
    /\ UNCHANGED <<strategy, room, leaseVars, returning, lookup, requests, leaked>>

-----------------------------------------------------------------------------

Owner ==
    \/ lookup = Nil /\ \E wish \in Infos : Resource(wish)
    \/ \E tag \in Tags, wish \in Infos : CacheRequest(tag, wish)
    \/ CacheHit \/ CacheMiss
    \/ \E keys \in SUBSET DOMAIN buckets : Clear(keys)
    \/ Collect
    \/ DropPool

Drop(l) ==
    DropClone(l) \/ DropPanicking(l) \/ DropOrphan(l) \/ Upgrade(l) \/ Return(l)

Next == Owner \/ \E l \in Leases : Drop(l)

Spec == Init /\ [][Next]_vars

-----------------------------------------------------------------------------
(* Properties                                                              *)

InUse == {l \in Leases : leased[l] # Nil}

\* A lease is good for every request it was handed out for, directly or shared
\* through the cache, whatever bucket its item has been in since it was created.
LeaseFitsRequest ==
    \A l \in InUse : \A wish \in wanted[l] : Satisfies(info[leased[l]], wish)

\* "A freshly obtained resource is guaranteed to have no other owners": an item is
\* lent once, or it is idle in one place of one bucket; and an item nobody can
\* reach has been destroyed, unless a panic leaked it.
OneOwner ==
    /\ \A l, m \in InUse : l # m => leased[l] # leased[m]
    /\ \A l \in InUse, b \in Buckets : leased[l] \notin Range(contents[b])
    /\ \A b, c \in Buckets : \A n \in DOMAIN contents[b], m \in DOMAIN contents[c] :
         contents[b][n] = contents[c][m] => b = c /\ n = m
    /\ \A b \in Buckets : contents[b] # <<>> => Alive(b)
    /\ \A i \in Items : info[i] # Nil =>
         \/ i \in leaked
         \/ \E l \in InUse : leased[l] = i
         \/ \E b \in Buckets : i \in Range(contents[b])

\* "The maximum size of a single bucket of resource instances"
BucketBounded ==
    \A k \in DOMAIN buckets : Len(contents[buckets[k]]) <= BucketCapacity(k.kind)

\* A collection keeps every idle item that was lent since the one before, and of
\* the idle items it manages only those that could be lent again for a request
\* made since then.
CollectKeepsWorkingSet ==
    [][Collect =>
         \A k \in DOMAIN buckets : \A i \in Range(contents[buckets[k]]) :
            k.kind \in Managed =>
               /\ i \in served => info'[i] # Nil /\ k \in DOMAIN buckets'
               /\ (i \notin served /\ info'[i] # Nil) =>
                     \/ \E wish \in requests : Satisfies(info[i], wish)
                     \/ \E l \in Leases : returning[l] /\ home[l] = buckets[k]]_vars
=============================================================================
