-------------------------------- MODULE MCTabs --------------------------------
(***************************************************************************)
(* Two tabs of one browser, which are alike, in both modes in one run:      *)
(* engine and gateway are one process and the room moves, or they are two   *)
(* and it stays in the lobby.                                               *)
(***************************************************************************)
EXTENDS Tabs, TLC

VARIABLE mode  \* never changes

TwoProcesses == INSTANCE Tabs WITH Split <- TRUE, MaxFrames <- 0

MCInit == Init /\ mode \in {"unified", "split"}
MCNext ==
    /\ \/ mode = "unified" /\ Next
       \/ mode = "split" /\ TwoProcesses!Next
    /\ UNCHANGED mode
MCSpec == MCInit /\ [][MCNext]_<<vars, mode>>

Symmetry == Permutations(Tabs)
=============================================================================
