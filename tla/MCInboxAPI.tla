---------------------------- MODULE MCInboxAPI ----------------------------
(* TLC instance of InboxAPI: two tenants, patches of different columns.    *)
EXTENDS InboxAPI, TLC

Default == [enabled |-> TRUE, secret |-> None, require |-> FALSE,
            keep |-> 0, days |-> 0]

MCConfigs == {Default}
MCPatches == {[cols |-> {"enabled"}, val |-> [Default EXCEPT !.enabled = FALSE]],
              [cols |-> {"require"}, val |-> [Default EXCEPT !.require = TRUE]]}
NoPatches == {}

Symmetry == Permutations(Call) \cup Permutations(InboxId)
              \cup Permutations(Token) \cup Permutations(Owner)
============================================================================
