------------------------------ MODULE MCStore ------------------------------
(* TLC instance of Store and MemStore: every call, to both drivers, over   *)
(* two inboxes.                                                            *)
EXTENDS MemStore, TLC

(* No bounds, the events of one moment, those up to a moment.              *)
MCWindow == {<<None, None>>, <<1, 1>>, <<None, 0>>}

MCConfigs == {[enabled |-> TRUE, secret |-> None, require |-> FALSE,
               keep |-> 0, days |-> 0]}

(* Switch the inbox off.                                                     *)
MCPatches ==
    {[cols |-> {"enabled"}, val |-> [c EXCEPT !.enabled = FALSE]] : c \in MCConfigs}

Symmetry == Permutations(Token)
============================================================================
