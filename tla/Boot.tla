-------------------------------- MODULE Boot --------------------------------
(***************************************************************************)
(* `webhook-zq start` (internal/cli/start/command.go): several servers     *)
(* that read the configuration file while it may be being saved, bring the *)
(* schema of their database up to date (internal/migrate/migrate.go), and  *)
(* listen.  No lock keeps two of them apart: only the primary key of       *)
(* schema_migrations and the port do.                                      *)
(*                                                                         *)
(* A migration's SQL runs in one transaction with the row that records it. *)
(* What PostgreSQL does with two transactions inserting the same version   *)
(* is modelled by its unique index: the second waits for the first, then   *)
(* fails if that committed.  A server may be killed at every step; its     *)
(* transaction is then rolled back.                                        *)
(*                                                                         *)
(* Stopping ends the process at once: Run returns when the context is      *)
(* done, whether or not requests are still being answered.                 *)
(***************************************************************************)
EXTENDS ConfigFile

CONSTANTS
    Server,       \* processes running `start`
    Provided,     \* what flags and environment may give: [ConfigKey -> Int or Not]
    Not,          \* a key neither a flag nor the environment gives
    DefaultPort,
    LastVersion,  \* the embedded migrations are 1 .. LastVersion, in order
    SchemaBefore, \* what earlier servers left: [Url -> versions applied]
    MaxLaunches   \* bound of the model: servers launched

ASSUME BootAssumption ==
    /\ Not \notin Int
    /\ Provided \subseteq [ConfigKey -> Int \cup {Not}]
    /\ \A given \in Provided : given["database_url"] \in Url \cup {Not}
    /\ DefaultPort \in 1 .. PortRange - 1
    /\ LastVersion \in Nat \ {0} /\ MaxLaunches \in Nat
    /\ SchemaBefore \subseteq [Url -> {1 .. n : n \in 0 .. LastVersion}]

VARIABLES
    server,    \* server[s]: where it is and what it works with
    schema,    \* schema[d]: the versions committed to schema_migrations of d
    committed, \* history: committed[d][v], how often v's SQL took effect
    launches   \* servers launched so far, bounded

bootVars == <<server, schema, committed, launches>>
allVars == <<configVars, bootVars>>

-----------------------------------------------------------------------------
Version == 1 .. LastVersion

Down == [pc |-> "down"]
Database(s) == server[s].run["database_url"]

(* Its transaction has inserted the version it applies.                    *)
Inserted(s) == server[s].pc = "commit"

(* Apply and ApplyListen use what the file holds of a key; the zero value, *)
(* and a negative number, leave the default.                               *)
Applies(k, v) == v > 0

Default(k) == CASE k = "database_url" -> 0
                [] k = "port" -> DefaultPort
                [] k = "replay_max_retries" -> 0

(* Flag and environment before file before default.                        *)
Effective(cfg, given) ==
    [k \in ConfigKey |-> IF given[k] # Not THEN given[k]
                   ELSE IF Applies(k, cfg[k]) THEN cfg[k] ELSE Default(k)]

(* buildSettings and Validate, and the database url Run insists on.        *)
Valid(run) == run["replay_max_retries"] \in 0 .. 5 /\ run["database_url"] # 0

-----------------------------------------------------------------------------
GoTo(s, pc) == server' = [server EXCEPT ![s].pc = pc]
Fails(s) == server' = [server EXCEPT ![s] = Down]

Launch(s, given) ==
    /\ server[s] = Down
    /\ launches < MaxLaunches /\ launches' = launches + 1
    /\ server' = [server EXCEPT ![s] =
                     [pc |-> "load", given |-> given, run |-> AllZero, done |-> {}, at |-> 0]]
    /\ UNCHANGED <<schema, committed>>

(* The range of --port and of PORT.                                        *)
PortInRange(given) == given["port"] = Not \/ given["port"] \in 0 .. PortRange - 1

(* That check, loadConfigFile, resolveDatabaseURL, ApplyListen and         *)
(* buildSettings.                                                          *)
Load(s) ==
    /\ server[s].pc = "load"
    /\ LET run == Effective(Loaded(main), server[s].given) IN
       IF PortInRange(server[s].given) /\ Loads(main) /\ Valid(run)
       THEN server' = [server EXCEPT ![s].pc = "connect", ![s].run = run]
       ELSE Fails(s)
    /\ UNCHANGED <<schema, committed, launches>>

(* The pool, the ping and CREATE TABLE IF NOT EXISTS schema_migrations:    *)
(* any of them may fail.                                                   *)
Connect(s) ==
    /\ server[s].pc = "connect"
    /\ GoTo(s, "read") \/ Fails(s)
    /\ UNCHANGED <<schema, committed, launches>>

(* The loop of Up goes on with the next version that was missing when the  *)
(* applied ones were read.                                                 *)
Resume(s, after, done) ==
    LET missing == {v \in Version : v > after /\ v \notin done} IN
    \/ /\ missing = {}
       /\ server' = [server EXCEPT ![s].pc = "listen", ![s].at = 0, ![s].done = done]
    \/ \E v \in missing :
         /\ \A n \in missing : v <= n
         /\ server' = [server EXCEPT ![s].pc = "sql", ![s].at = v, ![s].done = done]

(* appliedVersions: read once, before the first migration.                 *)
ReadApplied(s) ==
    /\ server[s].pc = "read"
    /\ Resume(s, 0, schema[Database(s)])
    /\ UNCHANGED <<schema, committed, launches>>

(* The migration's statements.  They are written to run again, but fail    *)
(* when they meet what another server is doing at the same time.           *)
RunSQL(s) ==
    /\ server[s].pc = "sql"
    /\ GoTo(s, "insert") \/ Fails(s)
    /\ UNCHANGED <<schema, committed, launches>>

(* Mutant: INSERT ... ON CONFLICT DO NOTHING.                              *)
InsertOrIgnore(s) ==
    /\ server[s].pc = "insert"
    /\ GoTo(s, "commit")
    /\ UNCHANGED <<schema, committed, launches>>

(* Mutant: the insert is tried again until it succeeds.                    *)
InsertAgain(s) ==
    /\ server[s].pc = "insert"
    /\ \A t \in Server \ {s} :
          ~(Inserted(t) /\ Database(t) = Database(s) /\ server[t].at = server[s].at)
    /\ server[s].at \notin schema[Database(s)] /\ GoTo(s, "commit")
    /\ UNCHANGED <<schema, committed, launches>>

(* INSERT INTO schema_migrations waits for another transaction that has    *)
(* inserted the same version, and fails once that has committed.           *)
InsertVersion(s) ==
    /\ server[s].pc = "insert"
    /\ \A t \in Server \ {s} :
          ~(Inserted(t) /\ Database(t) = Database(s) /\ server[t].at = server[s].at)
    /\ IF server[s].at \in schema[Database(s)] THEN Fails(s) ELSE GoTo(s, "commit")
    /\ UNCHANGED <<schema, committed, launches>>

(* An error is the end of Up: what was committed before is kept.           *)
Commit(s) ==
    /\ server[s].pc = "commit"
    /\ LET d == Database(s)
           v == server[s].at IN
       /\ schema' = [schema EXCEPT ![d] = @ \cup {v}]
       /\ committed' = [committed EXCEPT ![d][v] = @ + 1]
    /\ Resume(s, server[s].at, server[s].done)
    /\ UNCHANGED launches

(* The store is built and retention started; then the port must be free.   *)
Listen(s) ==
    /\ server[s].pc = "listen"
    /\ LET taken == \E t \in Server : /\ server[t].pc = "serving"
                                      /\ server[t].run["port"] = server[s].run["port"] IN
       IF taken THEN Fails(s) ELSE GoTo(s, "serving")
    /\ UNCHANGED <<schema, committed, launches>>

(* It is stopped or killed, at any moment.                                 *)
Stop(s) ==
    /\ server[s] # Down
    /\ Fails(s)
    /\ UNCHANGED <<schema, committed, launches>>

Proceed(s) ==
    \/ Load(s) \/ Connect(s) \/ ReadApplied(s)
    \/ RunSQL(s) \/ InsertVersion(s) \/ Commit(s) \/ Listen(s)

BootInit ==
    /\ ConfigInit
    /\ server = [s \in Server |-> Down]
    /\ schema \in SchemaBefore
    /\ committed = [d \in Url |-> [v \in Version |-> IF v \in schema[d] THEN 1 ELSE 0]]
    /\ launches = 0

BootNext ==
    \/ \E s \in Server :
         /\ (\E given \in Provided : Launch(s, given)) \/ Proceed(s) \/ Stop(s)
         /\ UNCHANGED configVars
    \/ \E w \in Writer : ConfigStep(w) /\ UNCHANGED bootVars

(* A process that is not stopped runs on; nobody has to launch one or to   *)
(* change the file.                                                        *)
BootFairness ==
    \A s \in Server : WF_allVars(Proceed(s) /\ UNCHANGED configVars)

BootSpec == BootInit /\ [][BootNext]_allVars /\ BootFairness

-----------------------------------------------------------------------------
(* However many servers boot on one database, and wherever they are        *)
(* killed: each migration takes effect at most once and after all earlier  *)
(* ones, and a server that has come as far as its store has the whole      *)
(* schema.                                                                 *)
SchemaInOrder ==
    /\ \A d \in Url :
         /\ \A v \in Version : committed[d][v] = IF v \in schema[d] THEN 1 ELSE 0
         /\ \A v \in schema[d] : 1 .. v \subseteq schema[d]
    /\ \A s \in Server :
         server[s].pc \in {"listen", "serving"} => schema[Database(s)] = Version

(* What a server runs with is what its flags and environment give, else    *)
(* what one complete configuration held, else the default: a boot while    *)
(* the file is being saved never falls back to defaults silently, and      *)
(* never mixes two configurations.                                         *)
RunsOnSaved ==
    \A s \in Server :
       server[s].pc \notin {"down", "load"} =>
          \E cfg \in saved : server[s].run = Effective(cfg, server[s].given)

(* Every server that is started serves or has ended, also when two of them *)
(* wait for each other's migrations.                                       *)
EveryBootEnds ==
    \A s \in Server : server[s] # Down ~> server[s].pc \in {"down", "serving"}
=============================================================================
