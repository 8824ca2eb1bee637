------------------------------- MODULE MCBoot -------------------------------
(* TLC instance of Boot: two servers, which may be given a database, too   *)
(* many retries or too large a port by flag, and a configuration that      *)
(* changes.                                                                *)
EXTENDS Boot

(* One that fits into 16 bits; one that Set, Load and --port refuse.       *)
MCPortArg == {8081, 65536 + 8081}

(* Taken by Set, but not applied.                                          *)
MCRetriesArg == {-1}

Nothing == [k \in ConfigKey |-> Not]
Given(k, v) == [Nothing EXCEPT ![k] = v]
MCProvided == {Nothing, Given("database_url", 2), Given("replay_max_retries", 9),
               Given("port", 65536 + 8081)}

(* A new database beside a current one, a half migrated one beside a new.  *)
MCSchemaBefore == {<<{}, {1, 2}>>, <<{1}, {}>>}
=============================================================================
