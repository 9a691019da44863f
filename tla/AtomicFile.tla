----------------------------- MODULE AtomicFile -----------------------------
(***************************************************************************)
(* What a checkpoint file promises its readers: it holds no checkpoint or  *)
(* one whole checkpoint, and a write replaces it in one step or not at     *)
(* all.  Checkpoints are numbered in the order they are written.           *)
(***************************************************************************)
EXTENDS Naturals

CONSTANT MaxVersion

VARIABLE version   \* 0: no file

Init == version = 0

Replace == \E v \in 1 .. MaxVersion : v > version /\ version' = v

Spec == Init /\ [][Replace]_version
=============================================================================
