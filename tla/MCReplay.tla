------------------------------ MODULE MCReplay ------------------------------
(* TLC instance of Replay.                                                 *)
EXTENDS Replay, TLC

MCConfigs == {[enabled |-> TRUE, secret |-> None, require |-> FALSE,
               keep |-> 0, days |-> 0]}
NoPatches == {}

=============================================================================
