------------------------------- MODULE MCPool -------------------------------
(* Instances of Pool for TLC. *)
EXTENDS Pool, TLC

LOCAL Request(kind, size, access, samplers) ==
    [kind |-> kind, exact |-> "e", size |-> size, access |-> access,
     samplers |-> samplers]

\* A small and a large buffer, and command buffers of one family.
BuffersAndCommands ==
    {Request("buffer", 1, {}, 0), Request("buffer", 2, {}, 0),
     Request("command", 0, {}, 0)}

\* One sampled image each, one or two samplers.
SamplerPools ==
    {Request("descriptors", 1, {}, 1), Request("descriptors", 1, {}, 2)}

Symmetry == Permutations(Items) \cup Permutations(Leases) \cup Permutations(Buckets)
              \cup Permutations(Tags)
=============================================================================
