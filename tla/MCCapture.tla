---------------------------- MODULE MCCapture ----------------------------
(* TLC instance of Capture.                                                *)
EXTENDS Capture

Default == [enabled |-> TRUE, secret |-> None, require |-> FALSE,
            keep |-> 0, days |-> 0]
MCConfigs == {Default}

Set(col, val) == [cols |-> {col}, val |-> val]

(* Switch the inbox off, configure a secret, require a signature.          *)
MCPatches ==
    {Set("enabled", [Default EXCEPT !.enabled = FALSE]), Set("require", [Default EXCEPT !.require = TRUE])}
      \cup {Set("secret", [Default EXCEPT !.secret = s]) : s \in Secret}
============================================================================
