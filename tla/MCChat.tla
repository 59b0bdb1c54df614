------------------------------- MODULE MCChat -------------------------------
(***************************************************************************)
(* ChatStream on small sets for TLC.                                       *)
(***************************************************************************)
EXTENDS ChatStream, TLC

\* Updates without an answer yet, and updates that show the answer.
PlainDiffs ==
    {[resp |-> FALSE, corr |-> FALSE, usage |-> FALSE],
     [resp |-> TRUE,  corr |-> FALSE, usage |-> TRUE]}

\* The same in a conversation that has had a correction, which every update
\* with an answer repeats.
CorrectedDiffs ==
    {[resp |-> FALSE, corr |-> FALSE, usage |-> FALSE],
     [resp |-> TRUE,  corr |-> TRUE,  usage |-> TRUE]}

Symmetry ==
    Permutations(Requests \ WsRequests) \cup Permutations(WsRequests)
        \cup Permutations(Threads) \cup Permutations(Procs)
=============================================================================
