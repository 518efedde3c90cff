---------------------------- MODULE MCRecording -----------------------------
(* Instances of Recording for TLC. *)
EXTENDS Recording

\* Every other command has two executions.
MCExecs == [c \in Commands |-> 1 + (c % 2)]
=============================================================================
