--------------------------- MODULE MCRetention ---------------------------
(* TLC instance of Retention.                                              *)
EXTENDS Retention, TLC

Default == [enabled |-> TRUE, secret |-> None, require |-> FALSE,
            keep |-> 0, days |-> 0]

(* Inboxes are created with both limits; a patch lifts them while a sweep  *)
(* runs.                                                                   *)
MCConfigs == {[Default EXCEPT !.keep = 1, !.days = 1]}
MCPatches == {[cols |-> {"keep", "days"}, val |-> Default]}

(* Inboxes with a readable and with an unreadable secret.                  *)
SecretConfigs == {[Default EXCEPT !.secret = s] : s \in Secret}
NoPatches == {}
============================================================================
