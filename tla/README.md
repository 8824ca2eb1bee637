# A TLA+ verification of webhook-zq

webhook-zq gives out receive URLs (`/hooks/<token>`), captures every request
sent to them into PostgreSQL, shows them in a web UI, and replays them to
targets of the user's choice. It runs as a server, started from a command line,
as a service, or by a tray application on a Windows desktop. This directory
models the server's concurrent core and the processes around it, checks the
models with TLC on small instances and proves the safety results with TLAPS for
all instances.

    tlc -workers 2 -config MCCapture.cfg MCCapture      # any run
    tlapm StoreProofs.tla                               # any proof module

A run's module has the name of its `.cfg`, but for `MCInboxAPICreate.cfg`
(module `MCInboxAPI`), `MCRetentionBroken.cfg` (`MCRetention`) and
`MCDesktopUninstall.cfg` (`MCDesktop`).

## The system

| Part | State | Operations | Interacts through | What is hard |
|---|---|---|---|---|
| Storage driver `internal/storage/postgres` | tables inbox, event, replay_attempt | one SQL statement each: create, patch, rotate, delete, prune, list | called by everything else | cascades and SET NULL over three tables, unique tokens, statements of different callers interleaving |
| In-memory driver `internal/storage/mem` | maps under a mutex | the same interface | the handlers' unit tests | agreeing with SQL on order, ties, pages, counters |
| REST handlers `internal/httpapi` | none between requests | create, patch, delete, rotate an inbox; clear and delete events | storage | the owner check and the change are two statements; lost answers; five token tries |
| Capture `internal/http/middleware/webhook` | none between requests | look up, read, verify, insert, announce, answer | storage, pub/sub | the inbox row is copied at the start and may be out of date by the end; the announcing goroutine outlives the request |
| Pub/sub and websocket `internal/pubsub`, `internal/httpapi/subscribe.go` | subscribers per topic | publish, subscribe, unsubscribe | channels | closing a channel while senders select on it |
| Retention `internal/retention` | none between ticks | a paged walk with two deletions per inbox | storage | pages shift, limits go stale, errors in the middle |
| Replay `internal/replay`, `internal/httpapi/replay.go` | none between requests | validate, send, record, retry | storage, the target | a request sent cannot be taken back: recording it may still fail |
| Rate limiter `internal/ratelimit` | a window per caller | `Allow`, eviction | a mutex | window boundaries, eviction, rounding of Retry-After |
| Configuration file `internal/config`, `internal/cli/config` | a file and its backup | load, set, convert, save | the file system | a crash, or a start, between two writes |
| Start `internal/cli/start` | settings, listener | read the configuration, connect, migrate, listen, stop | file, database, port | a file that is being written; another server doing the same |
| Migrations `internal/migrate` | schema_migrations | `Up` | the database | two servers booting at once without a lock, a kill half way |
| Tray `internal/tray`, `internal/cli/tray` | `spawned`, `stopping`, `uninstalling` | spawn, adopt, stop, watch, exit | processes, a mutex, an event, a job object | flags shared by five goroutines, processes that come and go |
| Uninstall `internal/cli/uninstall` | the list of its scan | scan, ask, remove item by item | the tray, processes | some items failing; the world changing while it asks |
| Web UI `web/src` | the state of each screen | load, filter, replay, subscribe | REST, websocket | answers of overlapping requests |

What makes each part correct, in short: storage never holds a dangling
reference, a token leads to one inbox, and both drivers give the same answers;
the API lets only an inbox's owner change it and loses no patch; a capture is
answered by the settings of one moment, and what is answered, stored and
announced agree; retention deletes only what is over a limit, and in the end
everything that is; the history of replays tells what was sent; the limiter
keeps its limit and its promises; a server serves with a whole schema and a
configuration somebody saved; only one tray runs, it can start its service again
and can be sent away; an uninstall that reports success has removed what it found.
`PROJECT.json` lists the hazards of the code line by line, with the property
that covers each or the reason why none does.

## The modules

Every module that works on the tables EXTENDS `Store`, so a statement is
written once. A Go handler is a record with a program counter; each of its
statements is one action, because a statement is what PostgreSQL makes atomic;
everything between two statements belongs to the action of the first. Whatever
other components may do to the tables in between is in the same next-state
relation (`Elsewhere`, `Captured` and the like).

**Store** (`postgres.go`, `types.go`, `0001_init.sql`). Variables `inbox`,
`event`, `replay` map ids to rows, a row being live, fresh (not yet inserted)
or gone: ids are random UUIDs, so none is used twice. `clock` is the
database's `now()`. `CreateInbox`, `UpdateInbox`, `RotateToken`,
`DeleteInbox`, `CreateEvent`, `DeleteEvent`, `DeleteInboxEvents`,
`PruneByAge`, `PruneByCount` and `CreateReplay` are the driver's writing
statements, with the unique index on `token` (`TokenFree`) and the foreign keys
(`RemoveEvents`, `RemoveReplays`) as part of them. Inboxes may exist when the
program starts; `Configs` and `Patches` are the settings and patches an
instance uses. `created_at` comes from the caller, so `StoreNext` lets events
arrive with any time up to now. Store is also the abstract specification of what
the handlers may do to the tables: Capture, Replay, InboxAPI and Retention are
proved to implement it.

**MemStore** (`mem.go`) makes every call to both drivers at once. `mem` holds the
memory driver's maps, `bornAt` and `madeAt` the `created_at` of inboxes and
attempts, `answer` what either returned to the last call. The listings
(`PgListInboxes`, `MemListEvents`, ... with order, counters and pages) are
operators on the present state. ListInboxes and ListEvents order all rows, ties
by id, so a listing is the sequence in that order, whatever algorithm made it. The
exchange sort of the memory driver's `ListReplays` looks at the time only; where
it leaves attempts of one moment depends on its swaps, so its loops are modelled
(`Exchange`, `Pass`, `ExchangeSort`). A rotation draws a token nobody has, because
the memory driver does not look.

**InboxAPI** (`inbox.go`, `event.go`, `api.go`). `call[c]` is one request:
`Begin` (validated), `Insert` for a creation, `FindEvent` and `CheckOwner` for
`ownedEvent` and `ownedInbox`, then the statement of its handler
(`PatchInbox` followed by `Reread`, `RemoveInbox`, `Rotate`, `ClearEvents`,
`RemoveEvent`). `Fail` is a statement that fails without an effect,
`LostAnswer` one that took effect although the driver reports an error. The
quirk that an event whose inbox cannot be read is "not found" is kept.

**Capture** (`middleware.go`). `req[r]` goes through `Lookup`, `ReadBody`,
`StoreIncoming` (or `StoreFailed`, `StoreLostAnswer`) and `Respond`;
`announcing` holds the messages of goroutines that have not called `Publish`
yet, in no order. The history variable `seen` collects what the request's
token led to in every state since it arrived. `MaxChanges` bounds what happens
elsewhere. A signature is represented by the secret it was made with.

**Retention** (`retention.go`, `ListInboxes`). The listing is ordered by
creation; `Rank` is the row number of an inbox in it, and a page is the set of
inboxes whose ranks follow the offset, as the listing is when the page is read.
`sweep` holds what is left of the page, with the limits it showed, and where the
next one begins; the newest inbox on the page is next (`Current`). `PruneAge`
and `PruneCount` are the two statements of `PruneEvents`; `SweepError` fails any
of them. A page fails as a whole when one of its secrets is unreadable. `due` and
`hist` are history: inboxes that exist since the sweep began, those visited, and
the limits each inbox has had since its page was read.

**Replay** (`service.go`, `replay.go`). `run[r]` is one replay: `Begin` and
`FindInbox` for the two owner checks, `Validate` for the policy (its verdict is
arbitrary), then `Execute` and `Record` in turns. `tried` lists the outcomes,
`rows` the attempts inserted, `sent` how many requests may have reached the
target. `Disconnect` cancels the request's context at any time.

**RateLimiter** (`limiter.go`, `limited` in `api.go`). `Allow` is one step, as
it runs under a mutex: `Open`, `Spend` or `Deny`, with the lazy eviction in
`Open`. `log` and `retryAt` are history.

**PubSub** (`inmemory.go`, `subscribe.go`). `table` and `topics` are the map
`subs`; `sending[s]` holds the messages of goroutines in their select;
`stream[s]` is where the handler is: its select (`open`), `writing`, or a step of
`unsubscribe` (`stop`, `remove`, `wait`, `close`). `Publish` and `Subscribe` run
under the mutex and never block: one action each. `unsubscribe` takes the mutex
only for its second step, so each of its steps is an action (`CloseStop`,
`Remove`, `Wait`, `CloseChannel`). `Deliver` is the rendezvous on the unbuffered
channel, `GiveUp` the other two cases of the goroutine's select. **Broadcast** is
the specification it refines: a message is owed to every subscription of its
topic when it is published, given once, dropped only when the subscription or
the application ends. A subscription is `in` until its handler returns; what
its goroutines hold and what its handler is writing is what it is owed.

**ConfigFile** (`config/file.go`, `cli/config/command.go`). `main` and `bak` are
the file and its backup: missing, broken (truncated, not written in full) or
whole. A writer reads, changes a copy and saves it in `Backup`, `BackupWritten`,
`Truncate` and `Write`, and may be killed before each (`WriterStops`). Three of
the eighteen keys stand for the ways keys are treated: a string, a number of 16
bits, a number that is taken unchecked and validated at the start. A file of the
pre-1.0 shape is translated on load, unless its port is above 65535: the file is
decoded into the present shape first, `encoding/json` matches `Port` with the 16
bit field `port` whatever the case, and the load fails (`Loads`).

**Boot** (`cli/start/command.go`, `migrate.go`, `config.go`) EXTENDS ConfigFile.
`server[s]` goes through `Load` (the range of `--port`, the file, flags and
environment over file over defaults, then validation), `Connect`, `ReadApplied`, per migration `RunSQL`,
`InsertVersion` and `Commit`, then `Listen`. `InsertVersion` waits for another
transaction with the same version and fails once that has committed: the
primary key is the only thing that keeps two boots apart. `Stop` is a signal or
a kill at any step; what is not committed is rolled back.

**Tray** (`tray.go`, `control.go`, `control_windows.go`, `ipc_windows.go`,
`cli/tray/command.go`). `tray[t]` holds the flags and, in `at`, the place of each
goroutine: `boot` (the first `ensureService`), `toggle`, `exit` (`watchExit`),
`uninstall`, beside the main one (`pc`) and a watcher per spawned service
(`watch`). `server[s]` and `caller[c]` are the other processes of the binary.
`StopService` terminates every other process of the executable, failing for
some; the job object ends a tray's services with it (`EndOfTray`).

**Uninstall** (`cli/uninstall`) EXTENDS Tray: `Coordinate` and `AskTray` send the
tray away, `Scan` makes the list, `Confirm` asks, `KillProcesses`, `RemoveItems`
and `RemoveAppDir` go through it; `BeginUninstall`, `LaunchUninstaller` and
`QuitForUninstaller` are the tray's menu item.

**MC modules** give the constants that cannot be written in a `.cfg`, and the
symmetry sets. No run with a temporal property uses symmetry, and neither ids that
are compared nor values a CHOOSE ranges over are in a symmetry set.

Operators whose comment begins "Mutant" are deliberate bugs, used by no action:
`PROJECT.json` pairs each with the definition it replaces and the property
that then fails, which shows that the property can fail.

## The runs

| Run | Instance | Shows |
|---|---|---|
| `MCStore` | both drivers; 2 inboxes, 2 events, 2 attempts, 2 tokens, clock and attempt numbers to 2; pages of 1 and 2 at offsets 0, 1, 3, three windows | `ReferencesHold`, `TokensUnique`, `DriversAgree` under every sequence of calls |
| `MCInboxAPI` | 3 calls of 2 tenants, 2 inboxes, 1 event, 2 token tries | `OnlyOwnerChanges`, `NoLostUpdate`, `AnsweredTokenResolves` |
| `MCInboxAPICreate` | 2 calls, one token, 5 tries | finding: `CreatedIsStored` is violated |
| `MCCapture` | 1 request, 2 inboxes, 2 tokens, 1 secret, any 4 changes elsewhere, a shutdown at any moment | `AnswerExplained`, `StoredIffAccepted`, `AnnouncedIsStored`; liveness `EveryRequestAnswered`, `EveryAcceptedAnnounced` |
| `MCRetention` | 2 inboxes of 2 tenants, 2 events, pages of 1, 1 failing statement, clock to 2 | `OnlyOverLimitPruned`, `WalksEveryInbox`; liveness `EventuallyWithinLimits` |
| `MCRetentionBroken` | 2 inboxes, 2 secrets, one unreadable, pages of 2 | finding: `BrokenInboxDoesNotStopRest` is violated |
| `MCReplay` | 2 replays of one event, 2 retries, 4 rows, failing inserts | `NeverAheadOfHistory`, `HistoryIsChain`, `RetriesJustified`, `AnswerMatchesHistory`; liveness `EveryReplayAnswered` |
| `MCRateLimiter` | 2 callers, limit 2, window 2, seconds of 2 ticks, table of 1 | `LimitPerWindow`, `TwiceLimitPerStretch`, `RetryAfterIsEnough` |
| `MCPubSub` | 2 connections and 2 messages of one topic | `ImplementsBroadcast`, `NoSendOnClosed`; liveness `NoSenderStuck`, `GonePeerForgotten`, `EveryMessageDelivered` |
| `MCBoot` | 2 servers, 2 databases, 2 migrations, 1 writer with 2 saves, 2 launches; ports 8081 and 65536 + 8081, which the file, `config set` or `--port` may give | `SchemaInOrder`, `RunsOnSaved`, `Recoverable`; liveness `EveryBootEnds` |
| `MCDesktop` | 2 trays, 2 servers, 1 command, 1 click | `OneTray`, `MenuStartWorks`, `SuccessMeansGone`; liveness `ExitEndsTray` |
| `MCDesktopUninstall` | 1 tray, 1 server, 1 command, no clicks | finding: `UninstallerSurvives` is violated |

**Bounds.** Ids, tokens, calls and processes are finite sets because slots are
not reused; two of each suffice for the races of interest, which are between a
request and the one thing it read, plus one competitor (`MCInboxAPI` has three
calls, for two competitors). `MaxClock` bounds the clocks, `MaxErrors` the
failures of a sweep, `MaxGrants` the granted calls of one key, `MaxNo` the
attempt numbers `StoreNext` tries, `Reported` the outcomes attempts have.
`MaxChanges` 4 in `MCCapture` allows a patch or rotation between any two of the
three statements and a deletion at the end; two requests share nothing but
the tables, which the changes stand for, so one request is enough. `PageSize` 1
makes every inbox a page of its own, so each page boundary is also an
opportunity for an insertion to shift the next offset. `MaxTries` is 2 in
`MCInboxAPI` (an exhausted loop needs only its last round to differ) and the
code's 5 where the exhausted loop is the point. `Limit` 2 and `Window` 2 with
seconds of two ticks let windows end within a second and on its boundary.
`MaxRetries` is between 0 and 5 in the code (its configuration is validated); 2
has a first, a middle and a last attempt, and `MaxNo` is above it so that the
statement never runs out of numbers. `MCPubSub` has one topic, which two
messages and two subscriptions share: that one message waits while another is
written, and that one subscription ends while another stays, need two of each.
`MCStore` breaks ties by id, so its ids are numbers and only its tokens are
symmetric; two attempts are enough for a first and a retry, made at the same
moment or not, in either order of their ids. `MaxSaves` 2 lets a save follow one that was killed half way; `MaxLaunches` 2 two
boots race, or one follow another that was killed. `MaxClicks` 1 in `MCDesktop`:
every other step of the tray, the exit event, the ticker-free watchers and the
command need no click; `MenuStartWorks` and `SuccessMeansGone` were also checked
once with 2 clicks (3,827,261 states).

**Deadlock** checking is off where the system may stop: when slots, clock or
calls are used up nothing is left to do. `Retention` never stops and is checked.

**Fairness.** `CaptureSpec`: weak fairness of every step of a request that has
arrived (net/http runs the handler; every read ends, by data, limit or
timeout) and of every announcing goroutine, as long as the server is not shut
down; none for clients, for other callers or for shutdown. From the shutdown on
nothing is promised: `start/command.go:436-442` returns, and ends the process,
without waiting for the drain. `EveryRequestAnswered` and
`EveryAcceptedAnnounced` say so. `ReplaySpec`: weak fairness of the handler's steps, as the
HTTP client and the database driver have timeouts. `RetentionSpec`: weak
fairness of the sweep (the ticker keeps firing), not of its errors, nor of
anything else. `PubSubSpec`: weak fairness of whatever a goroutine can do by
itself, as reads and writes have deadlines; strong fairness of `Deliver` and
`Return`, because a handler's select chooses at random among the cases that are
ready and the runtime queues blocked senders in order, so none is passed over
forever. `BootSpec`: weak fairness of the steps of a started server; nobody has
to launch or stop one, or to finish a save. Uninstall's `Spec`: weak fairness of
the tray's main goroutine and of `watchExit`, which Windows schedules; nobody has
to click, and no server has to come up. Nothing makes a browser leave, a message
appear or the application stop. The bounds let the environment run dry, so
"eventually" in `EventuallyWithinLimits` means: once captures and patches pause
for one full sweep.

## What the code promises and does not keep

Three runs end in a violation, each of a sentence of the source.
- `createInbox` answers 201 for an inbox that was never stored, when all five
  tokens collide (`MCInboxAPICreate`; `inbox.go:186` clears the error, the
  branch at 195 is dead).
- One inbox whose secret cannot be decrypted stops every sweep
  (`MCRetentionBroken`; `retention.go:39`).
- `webhook-zq uninstall` is terminated by the tray it asks to leave
  (`MCDesktopUninstall`; `tray.go:454`, `uninstall/command.go:108`).

Also seen while modelling, without a run of its own:
- *Storage and API.* Deleting an inbox between two pages shifts OFFSET, so an
  inbox may be skipped until the next sweep; `WalksEveryInbox` exempts sweeps with
  a deletion and `EventuallyWithinLimits` shows that the next sweep makes up for
  it. Nobody is told of a deletion (`notify.go:18`). An attempt that was executed
  may be in no history (`service.go:72`); `NeverAheadOfHistory` is what holds: at
  most the last one is missing.
- *The two drivers* differ in two ways `DriversAgree` excepts by name. An attempt
  of an event that is gone is refused by the foreign keys and kept by the memory
  driver. `ListReplays` orders attempts of one moment by id in PostgreSQL
  (`postgres.go:657`); the memory driver compares the time only (`mem.go:553`), so
  with a limit the two may return different ones of them. They also differ outside
  what the property compares: the memory driver does not look for a taken token
  when it rotates, folds case in the method filter, knows no ILIKE wildcards, takes
  a limit of 0 for 20 where SQL returns nothing, and does not cap the limit of
  `ListReplays`.
- *Start.* `Run` returns without awaiting the graceful shutdown, so requests in
  flight may end unanswered; errors of the
  serving goroutine are only logged. When two servers boot on one empty database
  one of them fails with an error, although `migrate.go:62` calls `Up` "safe to
  call on every boot"; nothing is lost, and the next boot succeeds.
- *Configuration.* The cut of a legacy port to 16 bits (`file.go:231`) is only
  reached by ports it leaves alone. The backup's write error is ignored, so a kill during the save
  that follows may leave no whole file (`backupFailed` in `Recoverable`). Two
  `config set` at once lose one of the changes.
- *Tray.* After a spawn that fails early, or when another server has taken over
  the port as a service dies, `spawned` stays set and the menu's start does
  nothing until the tray is restarted (`excused` in `MenuStartWorks`). A stop and
  a start within half a second may spawn two services; one whose spawn is under
  way while the tray quits stays behind. `tray --exit` ends at the hand of the
  tray it signals, like the uninstaller, after its work is done. Probing the
  mutex to see whether the tray has left can turn away a tray that is starting.
- *Uninstall.* A tray that is just starting is not seen. `uninstall` reads the
  database url from the file before the environment, `start` the other way
  round: with both set it may drop another database than the one in use.
  Processes started after the scan survive a successful uninstall
  (`SuccessMeansGone` is about those it found).
- *Web UI.* After a replay with retries the event screen shows the first attempt
  as the last: `screen.tsx:253` stores the answer's attempts, which are in
  ascending order, while `:317` takes the first, as in a listing. The websocket
  is never reopened (`v1.ts:309`), though the screen says "reconnecting".

## What is proved

Each proof module EXTENDS the modules it is about; `ServerProofs` holds three
that have nothing in common but the process they run in. Assumptions are the
ASSUMEs of those modules only, what kinds of values their constants are, except
where a theorem states one more. For every theorem an inductive invariant was
found; one lemma per operation shows that it is kept. The properties themselves
are invariants of the runs, but for the types of the limiter, which only its
proofs need (`TypeCorrect`).

`StoreProofs`: `StoreTypesCorrect`, `StoreReferencesHold` and
`StoreTokensUnique`, for any sets of ids, tokens, settings and patches. The
inductive invariant is their conjunction: types are needed to know that a live
row has a given column, and the three are kept together statement by statement.
Inserting needs only the checks of the foreign keys; the work is in deletions.
`EventsLeft` and `ReplaysLeft` say which rows are left after the cascades, and
`DeletionKeepsInv` that a deletion of events and inboxes is safe when all events
of the inboxes and all attempts of either are among what goes. `StoreStepsEndure`
and `StoreStepsEndureReplays` say what no statement ever does to a row, which is
what the proofs about handlers use of the steps of others.

`CaptureProofs`, `ReplayProofs`, `InboxAPIProofs` and `RetentionProofs` first
show that every step is a statement of Store or leaves the tables alone
(`CaptureImplementsStore`, `ReplayImplementsStore`, `APIImplementsStore`,
`RetentionImplementsStore`: each specification implies StoreSpec, so the three
theorems above hold of it). Each then adds what its handler knows.
- Capture: `CaptureTypesCorrect`, `AnswersExplained`, `AcceptedIsStored`,
  `StoredBeforeAnnounced`. `Phase` says what is established at each program
  point: from `Lookup` on the copied row is among what the token has led to
  (`Copied`), after `ReadBody` the signature was checked against that copy.
- Replay: `ReplayTypesCorrect`, `HistoryKeepsUp`, `ChainsStayWhole`,
  `RetriesAreJustified`, `AnswersMatchHistory`. `Progress` counts what was tried
  and recorded at each program point. `Chained` is why the chain goes whole: a
  replay's rows live exactly as long as its event, because the foreign keys
  refuse an attempt of an event that is gone and cascade when it goes.
- InboxAPI: `APITypesCorrect`, `OwnersOnly`, `UpdatesLast`, `TokensResolve`.
  `Authorized` is why the stale check does no harm: ids are not reused and no
  statement changes an owner, so what was checked is still so, or the row is
  gone. `Resolving` says who holds the token of an inbox: a rotation that
  succeeds passes it from one answered call to another, and only a deletion or a
  rotation whose answer is an error (`Revoked`) leaves it without a holder. A step
  is described by what it may write (`Writes`), which is all the other calls have
  to know of it.
- Retention: `PrunesOnlyOverLimit`; `SweepsWalkEveryInbox` under the assumption
  that no secret is unreadable. `Limited` ties a page's stale limits to limits the
  inbox has had; `Ahead` says where an inbox not visited yet will be met.
  Both need to count rows: `TopRanks` shows that in a finite linear order exactly
  k members have fewer than k before them, hence that a page with rows after it
  is full (`FullPage`) and that as many newer events survive as the limit keeps
  (`NewestAreKept`).

`ServerProofs`, on RateLimiter: `TypeCorrect`, `LimitHolds`, `TwiceLimitHolds`,
`RetryAfterHolds`, for any limit, window, tick and table size, any number of
callers and calls. `LimitPerWindow` alone is not inductive: the table may forget
a window that is over. The invariant adds, for every caller, that a tracked
window has counted exactly its calls at the end of the log, that an untracked
caller's last window is over, that a call was made in its window, and that a
promise lies beyond the window it was made in. `TwiceLimitHolds` follows from
the invariant: of 2 * Limit + 1 calls the first and the last are two windows
apart.

`ServerProofs`, on PubSub: `PubSubTypeSafe`, `NoSendOnClosedAlways` and the refinement
`PubSubImplementsBroadcast`, for any connections, messages and topics.
`NoSendOnClosed` is not inductive: that no goroutine is added after the wait
needs that a subscription past `Remove` is in no topic (`TableFollowsStreams`).
The refinement needs in addition that Publish overlooks no subscription
(`TopicsFollowTable`) and that a message is not held twice (`HeldOnce`): a copy in
flight besides the one being written would be owed although it was given.
There is one lemma per kind of step, saying which step of Broadcast it is.

`ServerProofs`, on Boot: `BootKeepsSchemaInOrder`, `BootRunsOnSaved`, and
`OneWriterRecoverable` under the assumption that at most one process saves, for
any number of servers, databases, migrations and writers. The invariant ties
what a server has read of the applied versions to the ledger: it may be behind,
never ahead, and whoever holds an inserted version is alone in it. `LoadsSaved`
is why a start never runs on a part of a file: a file that can be read was saved
in full. `BackedUp` is the recovery argument: the file is truncated only when it
was missing or its backup is whole.

`MemStoreProofs`: `DriversGiveTheSameAnswers`, for any sets of ids, tokens,
settings, patches, limits and offsets. It relates the two states after every
call (`MemInv` and `StampsHold`, which TLC checked on the instance of `MCStore`).
`MapsFollow`: the maps of the memory driver are the live rows, without the
columns it does not have. `AttemptsFollow`: the list under a live event has each
of its attempts once, with its number; under an event that is gone there may be a
list, because the driver appends what the foreign keys refuse, and no listing of
events reads it. `StampsHold`: what is stored has a time.
With these kept by every call, the answers agree: the check that finds a
row or a taken token looks at the same rows (`SameAnswer`, part of the
invariant), a pruning keeps the same events (`SamePruned`), and for the listings
`ListingIsSequence` and `Ranking` show that an order without ties has one row for
every position, `SamePage` that an offset and a limit cut the same piece from a
slice as from a query, and `SmallestIndex` that there is a first among the newest
attempts of a list, the one the driver takes for the last. For `ListReplays`,
`ExchangeSortSorts` is the usual argument about the two loops: a swap only
rearranges the list (`ExchangeRearranges`), the inner loop brings the newest of
the rest to its place (`PassSelects`) and undoes nothing before it
(`PassKeepsOrder`). `SameMoments` concludes that two lists of the same attempts,
both newest first, show the same times at the same places, hence the same attempt
wherever it is the only one of its moment. `TablesStayWhole` says of these calls what the theorems of
`StoreProofs` say of single statements; a pruning here is two of them in one step.

`UninstallProofs`, on Tray and Uninstall together: `StartWorks`,
`SuccessIsComplete` and `SingleInstance`, for any number of trays, servers and
commands and any number of clicks. `DesktopInv`, which TLC checked on the
instance of `MCDesktop`, has four parts.
- `Typed`: which step each goroutine of each process may be at.
- `InHand`, the first part of `TrayPart`: a tray whose `spawned` is set watches a
  service, is about to spawn one, was excused or is stopping. Whichever watcher
  ends last clears the flag, or leaves a reason for keeping it; other goroutines
  that write it at the same time only add to what is in hand.
- The rest of `TrayPart`: whoever is between acquiring and releasing holds the
  mutex, and the goroutines of at most one tray run. The mutex alone does not give
  the latter (`OneTray`), since it is released early; it takes the events, on
  finding which the next tray gives up.
- `Settled`: what an uninstaller has dealt with so far is gone. It holds to the
  end because a process that has ended never comes back (`NothingReturns`): an
  identifier is used once, and no step of any of the other processes revives one.

## What is only model-checked

All liveness: fairness and ENABLED are beyond the prover. Of the refinement of
Broadcast the safety part is proved; that every message arrives is checked. The
three runs that end in a violation are TLC's as well.

## What is not modelled

`PROJECT.json` gives the reason for each component. Pure functions over bytes
(encryption, signatures, header masking, tokens, the target policy), read-only
handlers, DTOs, logging, the frontend handler, `install` and the commands that
only report, and the operator scripts are left out for good. The drain of
`http.Server.Shutdown` has nobody waiting for it: a shutdown ends what the
models promise of requests. The web UI's screens are read and their races listed, but React's state
updates are not in a form that a module could follow line by line.

## Plan

Done, in this order: Store, RateLimiter, InboxAPI, Capture, Retention, Replay,
PubSub with Broadcast; ConfigFile and Boot; MemStore; Tray and Uninstall; the
proofs of all of these. Every safety property of the runs that pass is proved.

What could follow:
1. **TargetPolicy** - `ValidateTarget` against the check made when dialling, with
   a resolver that answers differently the second time.
2. **InboxScreen**, **EventScreen** - overlapping requests of the UI.
3. PubSub meets Capture at `Publish`; composing the two gives "an accepted
   request is shown by every open screen".
