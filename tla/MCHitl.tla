------------------------------- MODULE MCHitl -------------------------------
(***************************************************************************)
(* The admin service on small sets for TLC, its parts side by side: the    *)
(* HITL sessions are rows of the database, the sockets live in a process,  *)
(* the documents are the knowledge pipeline's, and they share no state.    *)
(* The rigid variable part says which of them a behaviour is made of.      *)
(* Sessions, admins, pollers and workers are interchangeable, so safety    *)
(* runs use their permutations as symmetry; with the sockets' the group    *)
(* would be too large to pay off.                                          *)
(***************************************************************************)
EXTENDS HitlSessions, HitlBroadcast, KnowledgePipeline, TLC

VARIABLE part

deskVars == <<part, vars, busVars, pipelineVars>>

Parts == {"sessions", "sockets", "documents"}

DeskInit == part \in Parts /\ Init /\ BusInit /\ PipelineInit

DeskNext ==
    /\ UNCHANGED part
    /\ \/ part = "sessions" /\ Next /\ UNCHANGED <<busVars, pipelineVars>>
       \/ part = "sockets" /\ BusNext /\ UNCHANGED <<vars, pipelineVars>>
       \/ part = "documents" /\ PipelineNext /\ UNCHANGED <<vars, busVars>>

DeskSpec == DeskInit /\ [][DeskNext]_deskVars

Symmetry ==
    Permutations(Sessions) \cup Permutations(Admins) \cup Permutations(Pollers)
        \cup Permutations(Workers)
=============================================================================
