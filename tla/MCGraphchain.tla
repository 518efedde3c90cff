---------------------------- MODULE MCGraphchain ----------------------------
(* Two images, one frame slot that becomes two, one queue.                 *)
EXTENDS Graphchain

MCImageCounts == {2}
MCFrames == 0..1
MCSemaphores == {<<"acquired", f>> : f \in MCFrames}
    \cup {<<"rendered", e, i>> : e \in 0..MaxResets, i \in 0..1}
MCModes == BOOLEAN
=============================================================================
