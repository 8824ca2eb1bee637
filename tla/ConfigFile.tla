----------------------------- MODULE ConfigFile -----------------------------
(***************************************************************************)
(* The configuration file (internal/config/file.go) and the commands that  *)
(* change it (internal/cli/config/command.go): `config set` and `config    *)
(* load --write` read the file, change a copy and save it, in steps that a *)
(* crash, or a `start` reading the file, may fall between.                 *)
(*                                                                         *)
(* os.WriteFile truncates before it writes: until it is done, and after a  *)
(* crash, the file holds something json.Unmarshal refuses ("broken").      *)
(*                                                                         *)
(* Of the eighteen keys three stand for the ways keys are treated:         *)
(* database_url (a string, any value), port (16 bits, outside AppSettings) *)
(* and replay_max_retries (a number Set takes whatever its sign, applied   *)
(* only when positive, and validated).  Every value is an integer, 0 is    *)
(* the zero value omitempty leaves out of the file.                        *)
(*                                                                         *)
(* A file of the pre-1.0 shape is decoded as a File first, then translated.*)
(* encoding/json also finds its Port in the 16 bit field "port", whatever  *)
(* the case, so that a larger number is refused there and is never cut.    *)
(***************************************************************************)
EXTENDS Integers, FiniteSets

CONSTANTS
    Writer,      \* processes running `config set` or `config load --write`
    Url,         \* database urls, positive
    PortArg,     \* port numbers a user or a legacy file may give
    RetriesArg,  \* retry numbers a user may give
    MaxSaves     \* bound of the model: saves begun

ASSUME ConfigAssumption ==
    /\ Url \subseteq Nat \ {0} /\ IsFiniteSet(Url)
    /\ PortArg \subseteq Nat /\ RetriesArg \subseteq Int
    /\ MaxSaves \in Nat

VARIABLES
    main,          \* the configuration file
    bak,           \* its .bak sibling
    writer,        \* writer[w]: where process w is in its save, and its copy
    saves,         \* saves begun so far, bounded
    saved,         \* history: the configurations the file held in full
    backupFailed   \* history: a .bak could not be written

configVars == <<main, bak, writer, saves, saved, backupFailed>>

-----------------------------------------------------------------------------
ConfigKey == {"database_url", "port", "replay_max_retries"}
PortRange == 65536

Config == [ConfigKey -> Int]
AllZero == [k \in ConfigKey |-> 0]

Missing == [st |-> "missing"]
Broken  == [st |-> "broken"]
Whole(cfg, legacy) == [st |-> "whole", cfg |-> cfg, legacy |-> legacy]
Content == {Missing, Broken} \cup {Whole(c, l) : c \in Config, l \in BOOLEAN}

(* What Field.Set takes for a key.                                         *)
Settable(k, v) ==
    \/ k = "database_url" /\ v \in Url \cup {0}
    \/ k = "port" /\ v \in 0 .. PortRange - 1
    \/ k = "replay_max_retries"

Argument == {<<"database_url", u>> : u \in Url} \cup {<<"port", p>> : p \in PortArg}
              \cup {<<"replay_max_retries", n>> : n \in RetriesArg}

(* Mutant: a file that does not parse counts as empty.                     *)
LoadsAnything(c) == TRUE

(* Load fails on a file it cannot parse, or whose port is not of 16 bits,  *)
(* which only a hand written one of the pre-1.0 shape can be.  A missing   *)
(* file is no error: it means "everything default".                        *)
Loads(c) ==
    /\ c.st # "broken"
    /\ c.st = "whole" => c.cfg["port"] < PortRange

(* What Load returns of a file it takes; the translation of the pre-1.0    *)
(* shape gives each of the three keys the value it had.                    *)
Loaded(c) == IF c.st = "whole" THEN c.cfg ELSE AllZero

-----------------------------------------------------------------------------
Idle == [pc |-> "idle", copy |-> AllZero, old |-> Missing]

Begin(w, cfg) ==
    /\ writer[w].pc = "idle"
    /\ saves < MaxSaves /\ saves' = saves + 1
    /\ writer' = [writer EXCEPT ![w] = [pc |-> "backup", copy |-> cfg, old |-> Missing]]
    /\ UNCHANGED <<main, bak, saved, backupFailed>>

(* config set KEY=VALUE.  Nothing is saved when the file does not load or  *)
(* the value is refused.                                                   *)
ConfigSet(w, k, v) ==
    /\ Loads(main) /\ Settable(k, v)
    /\ Begin(w, [Loaded(main) EXCEPT ![k] = v])

(* config load --write                                                     *)
ConfigConvert(w) ==
    /\ Loads(main) /\ main.st = "whole" /\ main.legacy
    /\ Begin(w, Loaded(main))

To(w, pc) == writer' = [writer EXCEPT ![w].pc = pc]

(* Mutant: the backup is skipped.                                          *)
BackupNothing(w) ==
    /\ writer[w].pc = "backup" /\ To(w, "truncate")
    /\ UNCHANGED <<main, bak, saves, saved, backupFailed>>

(* Save reads whatever the file holds now and truncates the .bak; without  *)
(* a file there is nothing to back up.                                     *)
Backup(w) ==
    /\ writer[w].pc = "backup"
    /\ IF main.st = "missing"
       THEN To(w, "truncate") /\ UNCHANGED bak
       ELSE /\ writer' = [writer EXCEPT ![w].pc = "backing", ![w].old = main]
            /\ bak' = Broken
    /\ UNCHANGED <<main, saves, saved, backupFailed>>

(* The error of writing the .bak is ignored.                               *)
BackupWritten(w) ==
    /\ writer[w].pc = "backing" /\ To(w, "truncate")
    /\ \/ bak' = writer[w].old /\ UNCHANGED backupFailed
       \/ backupFailed' = TRUE /\ UNCHANGED bak
    /\ UNCHANGED <<main, saves, saved>>

Truncate(w) ==
    /\ writer[w].pc = "truncate" /\ To(w, "write")
    /\ main' = Broken
    /\ UNCHANGED <<bak, saves, saved, backupFailed>>

Write(w) ==
    /\ writer[w].pc = "write"
    /\ main' = Whole(writer[w].copy, FALSE)
    /\ saved' = saved \cup {writer[w].copy}
    /\ writer' = [writer EXCEPT ![w] = Idle]
    /\ UNCHANGED <<bak, saves, backupFailed>>

(* The process is killed, or a write fails and it returns the error.       *)
WriterStops(w) ==
    /\ writer[w].pc # "idle"
    /\ writer' = [writer EXCEPT ![w] = Idle]
    /\ UNCHANGED <<main, bak, saves, saved, backupFailed>>

ConfigStep(w) ==
    \/ \E a \in Argument : ConfigSet(w, a[1], a[2])
    \/ ConfigConvert(w)
    \/ Backup(w) \/ BackupWritten(w) \/ Truncate(w) \/ Write(w)
    \/ WriterStops(w)

LegacyFile(u, p) == Whole([AllZero EXCEPT !["database_url"] = u, !["port"] = p], TRUE)

(* No file yet, or one of the pre-1.0 shape, which may be refused.         *)
ConfigInit ==
    /\ main \in {Missing} \cup {LegacyFile(u, p) : u \in Url, p \in PortArg}
    /\ bak = Missing
    /\ writer = [w \in Writer |-> Idle]
    /\ saves = 0
    /\ saved = IF Loads(main) THEN {Loaded(main)} ELSE {}
    /\ backupFailed = FALSE

-----------------------------------------------------------------------------
(* file.go:268: "a bad config set should never be unrecoverable".  With    *)
(* one `config set` at a time, whatever step it is killed at leaves the    *)
(* file or its backup whole, as long as backups can be written.            *)
Recoverable ==
    \/ main.st = "whole" \/ bak.st = "whole"
    \/ backupFailed
    \/ saved = {AllZero}
=============================================================================
