------------------------------ MODULE MCEngine ------------------------------
(* Model-checking instances of Engine: listeners that restart a failed player *)
(* with well-behaved sources, listeners that also pause with sources that     *)
(* refuse at once; and such a source on its own.                             *)
EXTENDS Engine

MCFrameIds == 1..8

MCModes ==
    {[branch |-> b, calls |-> {"play"}, syncError |-> FALSE] : b \in BranchSet}
        \cup {[branch |-> b, calls |-> {"play", "pause"}, syncError |-> TRUE] : b \in BranchSet}

MCRefusing == {[branch |-> "source", calls |-> {}, syncError |-> TRUE]}
=============================================================================
