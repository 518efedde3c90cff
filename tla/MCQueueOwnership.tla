-------------------------- MODULE MCQueueOwnership --------------------------
(* Instances of QueueOwnership for TLC. *)
EXTENDS QueueOwnership, TLC

\* Two queues of a graphics family, 1, and one of a transfer family, 2.
MCQueues == {<<1, 0>>, <<1, 1>>, <<2, 0>>}
TwoQueues == {<<1, 0>>, <<2, 0>>}

\* One range with each family, so that releases can cross; or no owners at all.  The
\* first range was last used on a queue that no submission is made to.
CrossOwners ==
    LET first == CHOOSE r \in Ranges : TRUE
    IN {[r \in Ranges |-> IF r = first THEN <<1, 1>> ELSE <<2, 0>>]}
NoOwners == {[r \in Ranges |-> Nil]}
AnyOwners == CrossOwners \cup NoOwners

Symmetry == Permutations(Submissions) \cup Permutations(CmdBufs)
=============================================================================
