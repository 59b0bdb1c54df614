------------------------------ MODULE MCAgent ------------------------------
(***************************************************************************)
(* AgentGraph for TLC.                                                     *)
(***************************************************************************)
EXTENDS AgentGraph, TLC

ShortInputs == {m \in AllInputs : ~m.long}
=============================================================================
