----------------------------- MODULE MCBroadcast -----------------------------
(***************************************************************************)
(* HitlBroadcast on small sets for TLC.                                    *)
(***************************************************************************)
EXTENDS HitlBroadcast, TLC

Symmetry == Permutations(Sockets) \cup Permutations(Broadcasts)
=============================================================================
