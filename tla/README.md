# aiusage: specification, model checking and proofs

aiusage collects the token usage of coding agents from the files those agents
keep, stores it in an append-only SQLite ledger, and answers questions about it
from the command line, a terminal interface and a local web page.  This
directory holds TLA+ modules that describe how the program does that, TLC
configurations that check them on small instances, and proofs that TLAPS checks
for every instance.  Paths below are relative to `src/`.

- [The system](#the-system): the parts, their state, how they meet, what is hard
- [The modules](#the-modules): which module models what, and how it maps to code
- [The runs](#the-runs): what TLC checks, with which bounds
- [Fairness](#fairness)
- [The proofs](#the-proofs)
- [Where code and comments disagree](#where-code-and-comments-disagree)
- [What is assumed or left out](#what-is-assumed-or-left-out)
- [The plan](#the-plan)

## The system

| Part | State it keeps | Operations | What makes it correct |
| --- | --- | --- | --- |
| Ledger store (`store/sqlite.go`, `activity.go`, `turncontext.go`, `code_changes.go`) | SQLite tables: usage events, activity, turn contexts, code changes, checkpoints, counter baselines | `ApplyBatch`, `ApplySnapshot` | history is never rewritten; rows and the checkpoint that stands for them, or the baseline they move, commit together; one key, one row |
| Rollup (`store/rollup.go`) | summed cells, a watermark | delta with each insert, `EnsureRollup`, `RebuildRollup`, `RollupStale` | a rollup that claims to be current equals the sum of the ledger |
| Price sync (`store/price_sync.go`) | a cursor for one price revision | `SyncUnpriced` | a row gets at most one price, once; no row that could be priced is passed over |
| Collector (`collect/`) | none of its own between passes | `RunOnce`, `Run` | every token an agent counted is recorded once, whatever fails in between |
| Append-only adapters (`adapter/codex`, `pi`, `qwencode`, `kimicode`, `reasonix`) | none: offset and carried state live in the checkpoint | `Discover`, `CollectIncremental` | however a log was cut into passes, the ledger holds what one read of it yields |
| Other adapters (`adapter/hermes`, `goose`, `opencode`, `crush`, `claudecode`, `copilot`, `dsh`, `clinecli`, `agy`) | none: marks live in the checkpoint | `Discover`, `Collect`, `CollectIncremental` | no call or session is recorded with more than it used, and all of it is recorded in the end |
| Pricing (`pricing/`) | tables, cache files, a revision | `Refresh`, `Price`, `Cost` | what a table or an override names is what is billed; the revision changes when a quote may |
| Daemon (`internal/daemon/`) | lock, pid and version files | `Run`, `AcquireCollectionLock`, `Status`, `Stop`, the watch on its own executable | one collector per ledger; stamps name it |
| Ownership and commands (`internal/cmd/ownership.go`, `daemon.go`, `root.go`, `run.go`, `once.go`) | none: files and processes | `ensureDaemon`, `acquireCollectorStartupLock`, start of each command | a collector of the installed build comes back after anything |
| Maintenance (`internal/cmd/db.go`, `store/restore.go`, `recovery.go`) | staged copies, safety backups, quarantine | backup, verify, restore, reset | a failed restore leaves a ledger that is the old or the new one |
| Migration (`store/migrate.go`) | schema version | `Open` | a crash or a second process never leaves a half-migrated ledger |
| Queries (`store/sqlite.go`, `rollup.go`, `activity.go`, `turncontext.go`) | none | `Summarize`, `SummarizeRollup`, `UnpricedGroups`, `ListEvents`, `SummarizeActivity`, `TopActivity`, `SummarizeTurnContext` | an answer from the rollup is the ledger's answer; no share exceeds what it is a share of |
| Reports and export (`internal/report/`, `internal/cmd`) | none; several statements without a transaction | `summary`, `today`, `last`, `export` | an export holds each row that was there once; the parts of a report hold together |
| Web interface (`internal/web/`) | the last watermark, one slot per subscriber; in the page, a base and its fetches | `poll`, `subscribe`, the event stream, the now and history pages, `refresh` | a page that was told of rows comes to show them |
| Terminal interface (`internal/tui/`) | what is asked, what is on screen, generation, caches, flights, timers, places to go back to | keys, ticks, messages, flights | a picture shown as live is the one asked for; an older load never replaces a newer one |
| Service management (`internal/service/`, `internal/cmd/service.go`, `setup.go`) | the unit file, the manager's state | install with rollback, remove, restart, pause and resume, adoption | a failed install is undone; a unit and a detached daemon do not fight for a ledger; something collects |
| System monitor (`internal/sysmon`), performance drivers | | | not modelled |

They meet in seven places.

1. **Collector and store.**  A pass calls the adapters one after the other and
   hands each observation to the store in one or more transactions.  It can stop
   between any two of them.
2. **Collector and agents.**  The agents write while a pass reads.  A log grows
   at its end; a database's counters grow in place, and start again from zero.
3. **Processes and lock files.**  The daemon, a single cycle, maintenance and
   every other command are processes of one user.  They know of each other only
   through an advisory lock, the pid and version files beside it, and the
   process table.
4. **Writers and readers of the ledger.**  Readers see committed transactions
   and decide by the watermark whether the rollup may answer.
5. **Maintenance and everybody who opens the ledger.**  Restore and reset hold
   the collection lock, and so do the first opener of a ledger and whoever
   migrates it; a command that read the current version opens without it.
6. **Readers and the collector.**  A report, a page and a screen are each put
   together from several statements, and the collector commits between any two.
   The terminal interface and the page learn of a commit by polling a
   modification time and a watermark.
7. **Commands and the native service manager.**  Two commands ask systemd or
   launchd about one unit, call by call; a call is answered, refused, or carried
   out and not answered.

The hard parts are the ones where these meet at a bad moment: a crash between
two transactions of one source, a clock that stands still between two
increases of one counter, a checkpoint written with the first half of what it
stands for, price tables that change while a sweep is half way, a rollup that is
empty after a migration while rows arrive, pids and versions that outlive their
process, a probe that looks like an owner, a database whose main file has been
moved and whose log has not, a last line that is not whole yet, a row that is
rewritten after it was read, two loads that come back in the wrong order, a
modification time taken before or after the read it stands for, a budget that is
over half way through a rollback.  `PROJECT.json` lists each as a hazard
at its line, with the properties that watch it.

## The modules

| Module | Models | State |
| --- | --- | --- |
| `UsageLedger` | what the ledger promises: rows are appended, and a row without a price may get one | `history` |
| `Store` | the write operations of `store/`, each one transaction, as action operators | the tables |
| `Ledger` | `Store` alone, with any caller: every write in any order | the tables |
| `Collector` | `collect/` on top of `Store`, with agents, two processes, failures and crashes | the tables, the agents' files, each process's pass |
| `Ownership` | `internal/daemon` and the start and end of every command | locks, stamps, processes |
| `Recovery` | opening, migrating, restoring and resetting one ledger file | files by inode, the path, quarantines, backups, the lock, processes |
| `Transcript` | passes over a log that its agent appends to, parameterised by the format | the log, the checkpoint, the read under way, the rows |
| `Codex`, `Pi`, `Records` | one line of each append-only format (`Records`: Qwen Code, Reasonix and Kimi Code) | |
| `Polled` | passes over a source that is rewritten in place, parameterised by the format | the agent's course, checkpoints, the read under way, the rows |
| `Goose`, `OpenCode`, `Crush`, `ClaudeCode`, `Copilot`, `DSH`, `Cline`, `Agy` | one read of each such format, and what it resumes from | |
| `Tokens` | the token arithmetic the adapters share | |
| `Queries` | what one statement of a reader finds in a ledger | |
| `Readers` | `summary`, `export`, the web pages and the screens of the terminal interface, statement by statement beside the collector | the ledger, the reader |
| `Web` | the watermark's poller, the event stream and a page that reads again | on top of `Readers`: server, stream, page |
| `Interface` | the event loop of `internal/tui`, its flights, timers, cache and refresh | the model, the flights, the number of writes |
| `Managers`, `Supervision` | what a native manager does; install, rollback, remove, restart, pause for each of the two; the commands that use them | the host, the commands |
| `Rates`, `Pricing` | what a charge costs; feeds, caches, engines and the ladder of tables | feeds, cache files, engines |
| `DataProofs` | lemmas about data: sums over finite sets, ranks, rows appended under new ids | |
| `LedgerProofs`, `CollectorProofs`, `OwnershipProofs`, `RecoveryProofs`, `TranscriptProofs`, `InterfaceProofs`, `ReadersProofs` | theorems | |
| `MCLedger`, `MCCollector`, `MCOwnership`, `MCRecovery`, `MCTranscript`, `MCPolled`, `MCQueries`, `MCInterface`, `MCSupervision`, `MCPricing` | small instances | |

`Collector` composes the collection cycle with the store: its steps are
conjunctions of a step of the pass and the store's own operator, so a property
of a transaction and one of a whole pass speak of the same code.  `Ledger`
implements `UsageLedger` under the mapping of each row to its unpriced part and
its price (`HistoryKept`).

### Store and Ledger

One variable per table.  `usage_events` maps ids to rows and grows by
consecutive ids; the derived tables are functions of cells and keys.

| TLA+ | Code |
| --- | --- |
| `InsertEvents` | `insertEventsTx`: first row of a key wins, a row a constraint refuses is skipped, the rollup's cells and watermark move with it |
| `InsertActivity`, `InsertTurnContexts`, `UpsertCodeChanges` | the inserts of the other tables; an invalid code change rolls the transaction back |
| `ApplyBatch` | all of them and the checkpoint in one transaction |
| `ApplySnapshot` | the increase of a counter, its baseline and the checkpoint; the baseline moves only if the event was new |
| `EnsureUsageRollup`, `EnsureActivityCounts`, `RebuildRollup`, `RollupStale` | the two halves of `EnsureRollup`, each a transaction: the check of watermark and counted events with the rebuild, and the activity counts |
| `SyncUnpriced` | one page of the unpriced rows behind the cursor of the given revision, the move of each row between rollup cells, the refusal if the rollup does not hold the rows |

Prices are abstracted to an amount, a class and whether a zero is meant
(`PriceEvent`, a constant function of revision and group).  A row carries a
group where the code has tool, model, project and a time bucket: the rollup
tells rows apart by nothing else.

### Collector

A pass is a record per process: the stage, the instant it stamps, the source and
cell it has come to, what it read.  `CheckRollup`, `CheckCounts`, `SyncPrices`,
`ReadSource`, `StoreObservation`, `LoadState` and `StoreSnapshot` are the calls of
`RunOnce` in order.  Each may fail (`Fault`), and the process may die before the next.  A
database source is read in two steps, its stamp first, because the agent may
write in between.  What it saw is numbered as its query lists the cells (`snaps`,
with the cells that were left out missing), so that a snapshot is stored after
those of the cells before it.  `Partial` is a read that broke off or skipped rows, any of
them: it comes without a checkpoint.  `ObservedAt` lets a pass see the clock reading of the one before.

### Ownership

A process is a record of its program, ledger, build and stage.  The stages are
the system calls that others can observe: taking a lock, releasing it, writing
or removing a pid or version file, reading one, looking a pid up, signalling,
opening the ledger, exec.  `for` says on whose behalf a stage shared by several
callers runs.  A process id is used again after its process died, so a pid that
was read may name somebody else when it is signalled.  `old` is a collector
built before each ledger had a lock of its own; it takes the shared lock only.

### Recovery

A file is an inode, because a process goes on writing to a file that is renamed
under it.  It holds a main database (`base`) and a write-ahead log (`wal`: what
the database is with its log); `target` says which inodes lie at the ledger's
path and beside it, `quarantine[p]` the same for the directory `p` moves a bundle
to.  A database is its rows, its version and a count of the schema steps it has
had, which no code keeps and `StepsRunOnce` compares with the version.

| TLA+ | Code |
| --- | --- |
| `Start`, `Take`, `TakeHeld` | `openStore`: the version is read without the lock and decides whether the lock is asked for |
| `Gate` | `openCollectionStoreLocked` |
| `Prepare`, `Ensure`, `Stamp`, `Migrate`, `Check`, `Fail` | `store.Open`: `prepareMigration`, the writable handle and `ensureSchema`, a new schema (which `verifyEventColumns` may refuse to stamp), `applyMigration`, `verifyCompletedMigration`, the close after an error |
| `Verify`, `SafetyBackup`, `Transfer`, `Confirm` | `applyRestore` in order |
| `Undoing`, `CopyBack`, `Remove`, `Discard` | `failAppliedRestore` and what it calls |
| `MoveMain`, `MoveLog`, `MoveLogBack`, `MoveMainBack` | `quarantine` and `rollbackQuarantineMoves`, one rename each; the shared-memory file holds no rows and is left out |
| `Close`, `LogsBeside`, `Write` | SQLite: the last connection folds the log into the main file; a log beside a new or another main file is lost; a commit goes to the log |

Every call may fail and every process may be killed between two steps.  Restore
and reset start when their collector has been stopped, which `Ownership` models.

### Transcript and its formats

One log and its collector.  The agent appends whole or partial lines, begins the
file anew, or moves it (`Agent`); a pass looks at size and modification time,
decides whether it may resume, reads line by line, and stores rows and
checkpoint together (`Pass`); a pass may end anywhere (`Interrupt`).  The
instance gives it five formats through operator constants: `StartOf` is the
state a read begins with (`ckptState`), `ReadOf` what one line changes and
yields, `WaitsOf` whether a last line without its newline is left alone,
`ResumableOf` which checkpoints are resumed.  A line is a record of the fields
the format decides by; `None` is an absent field and `Bad` one of another type.
A row has the key the code derives, so that two reads of one line, or a fork that
copies its parent's lines, meet under one key.

### Polled and its formats

An agent goes through the states of a script: what its files hold, what each call
or session has used by then, and when each call ran.  A pass looks at a path
(`Open`), reads it in one or two steps (`Continue`), each step finding the source
as it is then, and records what it found with the marks it resumes from.  `LookOf`
is the format's read: the row ids behind a watermark (`Goose`, `OpenCode`), the
growth of a cost past its mark (`Crush`), the last record of a response spread
over several (`ClaudeCode`), the ranking of the descriptions of one call
(`Copilot`), the key of a step and of its message (`DSH`), a session file read
with its index (`Cline`), a growing transcript with its steps (`Agy`).  `of`
says what a row stands for; the code does not know it, and the properties count
by it.  `AllRecorded` asks for every token of usage, under whatever key, and for every
other row as the source tells it.  Two formats tell of a call while it goes on, under the
key it keeps (`Retold`: Claude Code streams an answer over records of one message id,
Cline saves a message's call before its metrics), and the ledger ignores a key it has: what
is told of again after it was recorded is excepted by name (`ToldBefore`).  The other six
have it without an exception, and for each of the two TLC finds it broken when the format is
not listed.  `MCPolled`'s `Unlucky` turns on, one at a time, the courses of an agent
under which a finding shows (`copilot`, `dsh`, `goose`).

### Queries, Readers and Web

A ledger here is the rows in the order of their ids, the ids the rollup has
counted, its watermark, the calls and the turn contexts.  Each operator of
`Queries` is one SQL statement of the code with its `WHERE`, its grouping and its
choice of a source: `summarizeCurrentRollup` with `exactEndingRollupSource`, and
the fallback to `summarizeLedger`.  One column, `model`, stands for every column a query groups or
filters by.  `Readers` runs the statements of one command, page or screen one a
step, with a write of the collector between any two; `Web` adds the broadcaster's
poll, the slot and the wire of one stream, and the page's fetches.  `Unlucky` of
`MCQueries` turns on the courses of three findings (`halfhour`, `samesecond`,
`slow`).

### Interface

| TLA+ | Code |
| --- | --- |
| `Stat`, `Query`, `Answer` | a `tea.Cmd` goroutine: the look at the file, one query after the other through the cache, the message |
| `handleRefreshTick`, `StartRefresh`, `startLoad` | the tick that compares modification times; `Invalidate` and the load it sends |
| `handleDataLoaded`, `handleDetailLoaded`, `handleWorkspaceCode` | the messages, with the generation or the sequence number they compare |
| `schedule`, `handleDetailDebounce` | the debounce of a moved selection |
| `setView`, `cycleRange`, `stepWindow`, `chooseGroup`, `drill`, `setSelection`, `workspaceDetails`, `workspaceBack` ... | the keys that change what is asked |

A range is one of today's, one that is past (what `stepWindow` steps back to) and all of
them.  A modification time is the number of writes, and an answer the number of writes
it saw, so staleness is a comparison of numbers.  `bound` limits a behaviour.

### Managers and Supervision

The host is the unit's file, what the manager has loaded, enablement, the state
and process of the unit, the collection lock and a detached collector.  A command
is a record that remembers what it has read; each `systemctl` or `launchctl` call
is a step.  `Managers` has what a manager does when it is called, and the two
halves of `internal/service`, for systemd and for launchd; `Supervision` has the commands (`ensure`, one of another build, `setup` with its
flags, maintenance), the unit's own process, its restarts and its giving up.
The manager itself is external and modelled from how the code uses it.

### Rates and Pricing

`Rates` has the cards of a model, the merge of an override with a table, the
long-context and batch rates, and the decoders of the two feeds, down to the cost
of a bucket in micro-USD.  `Pricing` has the engine: tables from override,
snapshot, feeds and embedded document, the look-up of a name, the revision, and
`Refresh` of each feed behind a cache file whose age decides.  A `sheet` is a
price list that is worked through without processes: cards, overrides and costs
that a behaviour of the engine would not get to.

## The runs

| Run | Instance | States | What it shows |
| --- | --- | --- | --- |
| `ledger` | four event keys, two groups, two revisions, four kinds of batch, three kinds of snapshot, on an empty ledger and on two with a history the rollup lacks | 13,000 | in every order of transactions: rollup, counts, cursor, checkpoints and history stay right |
| `collector_cells` | two processes, one database, two counters, three counted tokens, one reset, one failing call or crash, one repeated clock reading | 478,000 | nothing is counted twice; with no crash at work for good, everything is recorded |
| `collector_logs` | a log with a rejected record and a row no table prices, a database, two revisions, one failure | 34,000 | checkpoints never skip; late rates reach old rows |
| `ownership` | three pids, all five programs, an upgrade, one crash or failing call, the default ledger | 1,200,000 | one writer; stamps name the collector |
| `ownership_live` | a ledger with one lock and one with two, commands only, two crashes, an upgrade | 539,000 | collection heals |
| `recovery` | three processes among commands, collectors, restore and reset; eight ledgers (none, unstamped, current and old with and without rows in the log, damaged), a ladder of three versions, two crashes or failing calls | 844,000 | no row of a main file is lost; steps run once; reports are true; a collector keeps its file; an owner migrates only what a backup can undo |
| `transcripts` | short logs of five formats in groups, each line that decides something, written whole or in part; one log begun anew as another of its group or moved, or one pass cut off | 631,000 | the ledger holds what one read of each log yields; no line is skipped; in the end every line is recorded |
| `polled` | eight formats with courses of a few states each, two paths, two reads that do not end | 5,000 | nothing is overstated; calls keep one identity and join their own usage; in the end all is recorded in full, but for what two formats tell of again under a key already recorded |
| `queries` | ledgers of up to three rows, every kind of reader, one write between statements; a page with two lost connections, restarts or failed reads | 537,000 | summaries and exports are exact; the parts of a report hold together; shares never exceed their whole; a page catches up |
| `interface` | two rows, spans and groupings; three loads that may overtake each other, or two, a write between any of their steps and two inspectors | 262,000 | what is shown as live is what was asked; refreshes are final; nothing rolls back; loading ends |
| `service` | both managers, seven machines to begin with, each with the commands that matter there, two commands at a time, one fault | 401,000 | ends are as reported; adoption is bounded; something collects |
| `pricing` | two feeds of two editions, one collector that is killed and restarted; 128 cards, 32 overrides, thousands of published costs | 23,000 | the revision tells rates apart; what was stated is billed; a feed is followed |

The bounds are named constants in the modules (`MaxCounts`, `MaxResets`,
`MaxFaults`, `MaxStalls`, `Instant`, `BatchSize`, `MaxBuild`, `MaxFiles`,
`Latest`).  They are chosen
by what each property needs in order to break:

- Counting twice needs two reads of one increase: three tokens over two cells
  leave room for an increase before, between and after.  A reset needs one more.
- A lost increase needs a second one at the same instant: four instants and one
  repeated reading give a collision and passes after it that can repair it.
- A page of one row (`BatchSize = 1`) makes every sweep of two rows stop half way,
  where the tables may change.
- One fault reaches every single failure; `ownership_live` allows two, since
  what heals the first may fail itself.
- A ladder of three versions and a ledger at the first leave a step to be
  interrupted and one to be raced.  Two faults in `recovery` make an operation
  fail and then its rollback.  Four inodes are the ledger and one new file for
  each process, and no process needs a second.
- Three processes give an owner, its successor and an observer with an old
  reading.  With one pid fewer no pid is used again while another process still
  remembers it.

- `Transcript` allows one mishap and `Polled` two: an interruption, a file begun
  anew or moved each reach every state a resumed read starts from, and a read of
  two steps needs a second to be cut in both.
- Readers: an hour is four units and a day two hours, so that a range can start
  and end inside a bucket, an hour and a day; a week is two days.  A page of one
  row (`PageSize = 1`) puts a write between any two rows of an export;
  `RankLimit = 1` and `FoldPercent = 65` make ranking and folding happen with two
  models.  `MaxRows` rows bound the ledger, `MaxDrops` what is lost between server
  and page.
- `Interface` (`MCBounds`): three loads are one that is shown, one that is sent and
  one that overtakes it; two loads and a write put the write before, between and
  after their steps; two inspectors are one whose counts come for the other.  Keys are bounded by one move of the selection and one place of the
  history; changes of view, range and grouping by the loads they cost.
- `Supervision`: two commands at a time is what it takes to interleave their
  calls; `Burst = 2` restarts make a unit give up after one that failed.  A fault
  is a call refused or not answered, a budget that is over, a crash, or the start
  of a command while another is under way (`MaxFaults = 1`).  One command of a
  behaviour is none of `ensure`.  A failure grows old only while no command runs.
- `Pricing`: a cache is fresh for two ticks (`Day = 2`), so a refresh may find it
  fresh, aging and stale; `Unit = 6` and `MaxMicro = 40` make rounding and the
  refusal of an amount too large happen.

Every property is checked to be able to fail: `PROJECT.json` pairs each with a
mutated definition under which TLC finds it violated.

## Fairness

`Collector!FairSpec` assumes weak fairness of each process's steps: the daemon's
ticker starts a pass again and again, and the calls of a pass return.  Faults and
stalls are bounded, so they cannot go on for ever; that matches the claim, which
is that progress resumes once they stop.  The agents have no fairness.
`EverythingRecorded` therefore speaks of what has been counted, not of what may
be.

`Ownership!FairSpec` assumes that a process takes its next step.  `EnsureHeals`
assumes further that commands keep being run on the ledger (its antecedent), and
its run sets `Patient`: a command starts when no other is under way.  Without it
two commands can defeat each other's daemons in the probe race for ever (see the
disagreement about `daemon.Status` below).

`Transcript!FairSpec` and `Polled!FairSpec` assume that passes go on, as the
daemon's ticker makes them; `Polled` adds strong fairness of `Open` for each path,
since a pass goes over every discovered source and a path may be absent at times.
The agents have none.

`Web` assumes it of the poller, of the handlers and of the browser, which
reconnects an event source and delivers what it was sent; not of a user, nor of
the collector.

`Interface` assumes that the runtime runs every flight, delivers every message,
and fires every timer and tick.  No key is assumed to be pressed.

`Supervision` assumes that a started command and the unit's process go on, that the
manager restarts what it has scheduled, and that the user goes on running
commands; nothing of calls being answered, which the bound on faults limits.

`Pricing` assumes that time passes and that a collector is started again and goes
on with its refreshes; nothing of what the feeds do.

## The proofs

TLAPS checks every leaf; nothing is taken on trust.

| Theorem | Says |
| --- | --- |
| `LedgerProofs!TypesAreOK` | the ledger is well typed |
| `LedgerProofs!HistoryIsKept` | `Ledger` implements `UsageLedger` |
| `LedgerProofs!CheckpointsAreCovered` | a checkpoint commits only with the rows it stands for |
| `LedgerProofs!CursorIsSound` | what the cursor has passed has no acceptable quote |
| `LedgerProofs!ActivityCountsAreExact` | a turn's divisor is the number of its recorded calls |
| `LedgerProofs!RollupIsExact` | a rollup that passes for current has the sum of its rows in every cell |
| `LedgerProofs!CodeChangesOnlyAdvance`, `SideLedgersOnlyGrow` | no write takes a side table back |
| `CollectorProofs!PassesExclude` | one pass at a time |
| `CollectorProofs!CollectorInvariant`, `CheckpointNeverSkipsHolds` | a committed checkpoint skips no record and no counted token, whatever failed or died on the way |
| `CollectorProofs!NeverOvercountedHolds` | no more of a counter is recorded than was used |
| `OwnershipProofs!OwnershipTypes`, `OneWriter` | one writer per ledger |
| `OwnershipProofs!StampsAreTrue` | a settled collector is the one its pid and version files name |
| `RecoveryProofs!RecoveryTypes`, `StepsRunOnceOnly` | each step of the version ladder runs once on every ledger and backup |
| `RecoveryProofs!CollectorKeepsItsFile` | the file a collector has open stays at the ledger's path, and is sound |
| `RecoveryProofs!MainFilesAreKept` | no step loses a row of a main file or a backup |
| `RecoveryProofs!OwnersMigrateUndoably` | the lock's holder migrates only what a backup can undo |
| `RecoveryProofs!ReportsAreTrue` | a ledger said to be restored, kept or fresh is that, sound and of the current version |
| `TranscriptProofs!TranscriptInvariant`, `AsReadAtOnceHolds` | the rows recorded of a log, and the state its checkpoint carries, are those of one uninterrupted read |
| `TranscriptProofs!NoLineSkippedHolds` | a log whose checkpoint is current has every row recorded |
| `InterfaceProofs!FlightsInOrder` | of every generation there is one load, and the newest saw the ledger no earlier than the one that is shown |
| `InterfaceProofs!NeverRollsBackHolds` | the data shown and the refresh watermark only go forward |
| `InterfaceProofs!WatermarkHolds` | the watermark is never past what the load that set it read |
| `InterfaceProofs!ShowsWhatIsAskedHolds` | what is shown as live was read for the range, place and grouping asked for; an inspector shows its own session |
| `InterfaceProofs!RefreshIsFinalHolds` | what a refresh threw away does not come back into the cache, the clock or a live picture |
| `ReadersProofs!SummariesExact` | a summary says what the rows of its window said when it was asked, whatever it is answered from |
| `ReadersProofs!ExportsExact` | an export has each row of its window once, in order, whatever comes in between two pages |
| `ReadersProofs!SharesAreWithin` | two queries between which calls are divided give them no more than their turns used; no query of turns counts one twice |

*Ledger.*  `IsHistory` says that the ids are `1 .. n` and the keys distinct; every
write preserves it, since an insert takes the next ids and only keys that are not
there.  `HistoryIsKept` follows action by action: an insert appends, price sync
fills prices of rows that had none, the rest stutters.  `CursorInv` adds to
`CursorSound` the type of the cursor and that it never exceeds the largest id: a
new row lands beyond the cursor, a change of revision sets it to zero, and a page
moves it over rows that were priced or had no acceptable quote.  `TypeInv`
strengthens `TypeOK` with `IsHistory` and the finiteness of the activity rows,
without which a count is not known to be a number.  `ActivityCountsAreExact` needs
only that finiteness: a batch adds to a turn's divisor as many as it has
acceptable rows under fresh keys, the first of each, and those are the keys that
join the table.  What it does to the ids and keys (`AppendedRows`) is in `DataProofs`,
for the collector's proofs too.

`RollupIsExact` rests on `RollupInv`: the cells hold integers, and when they count as
many events as there are rows they are the rows' sums.  The watermark is left out,
because `InsertEvents` moves it from wherever it was: a rollup that lags behind becomes
current with the next insert, so the counts alone have to vouch for the cells.  An
insert adds the same rows to the count and to the cells; price sync refuses unless the
cell it takes a row from has it, and moves one event from one cell to the other, as the
row moves; a rebuild sums anew.  Only a rollup that counts what it should is claimed
exact: after a migration it counts too few, and no write makes up for that but a
rebuild.  The cells are finite in number because `Group` is assumed to be.

The provers cannot use induction over a set, so what is said of a sum (that it splits
over a partition, renames, grows with its terms) is shown by a smallest set for which
it fails: a family of finite sets has one of least cardinality (`SmallestSet`), and
taking one element out of it gives a smaller one that must not fail.

*Collector.*  `LockInv`: a process that is not idle holds the lock.  `CoverInv`
ties what a pass carries to the ledger.  Of a log: the records before the offset
in hand are recorded, or are among the events in hand (`LogRead`), until
`ApplyBatch` writes both at once.  Of a database: of each cell that was never
reset, the baseline is at most the snapshot still to be applied, and that at most
the counter (`SnapOf`); and what the checkpoint in hand says of a cell is applied
or is about to be (`CellInHand`), as long as every snapshot so far went through
(`clean`).  A snapshot that fails or collides makes the pass unclean, and an
unclean pass commits no checkpoint.  `LockInv` is what makes this inductive: a
baseline that a pass has read moves only in its own steps, so the state
`LoadState` found is still there when `StoreSnapshot` writes.  A crash leaves what
is in the tables, which `MarkPart` covers by itself.  Cells that were reset are
excepted, as in the property: after a reset a baseline is rightly ahead.

`NeverOvercountedHolds` adds up: of every cell, what is recorded and what the next
delta over the baseline would add is at most what was used (`UsedPart`); and of every
snapshot in the hands of a pass, so is what is recorded, the delta that snapshot would
write, and the delta from it to the counter as it is now (`Affordable`).  The last
term is what makes it inductive.  A counter that grows adds as much to both sides; one
that was reset starts a delta from zero, which what is used then covers; a baseline
moves only with its row, or, when the instant's key is taken, not at all.
That the rows of one cell are no other's needs the keys of deltas to be apart from those of
an adapter's own records, as the prefix `agg|` keeps them (`collect/collector.go:606`).

*Ownership.*  `OwnershipInv` ties a process's stage to the locks it holds.
`KeptLock` names the lock under which a process keeps the ledger open: its own,
or, for a collector built before isolation, the shared one.  `Holding` says that
a process with an open ledger, or at a stage inside the acquisition, holds that
lock; two processes with one ledger open would hold one lock.  That argument
needs the kept locks of one ledger to be the same lock, which is the theorem's
assumption: no collector of the time before isolation, or no ledger with two
locks.  The assumption cannot be dropped: with both, such a collector can enter
between the recheck of the shared lock and the acquisition (see below).

`StampsInv` adds the files beside the lock: a process at a stage that writes or
removes one holds the lock there (`Stamped`), so nobody else's changes (`Spares`),
and from the second stamp on both name the holder and its build.  That needs no
assumption, since it speaks of one lock and its holder: `StampsAreTrue` holds with
collectors of the time before isolation too.

*Recovery.*  `RecoveryInv` has two halves.  `FilesInv` types the files and says of
every database, in a main file, a log or a backup, that its version counts its
steps (`Once`); it survives `Migrate` because the version is read again under
the write lock, and it needs to be said of the safety copy a process remembers
too.  `Safe` ties a process's stage to what it relies on: collectors and
maintenance hold the lock while they work (`Owns`), and while they do, the
ledger that is about to be copied is there and the file a collector has open is
the one at the path (`Placed`).  A step of the lock's holder disturbs no other
owner; a step without the lock can at most create a file where none was, and
then no collector has one open.  `OneProcessStep` is that argument; each action
only has to show its own process safe.

The other three properties need what the lock is for, although commands open the
ledger without it.  `KeptInv` says of the lock's holder, stage by stage, what it
relies on: the backup it is about to migrate from (`Migrating`), the safety copy
and what may be lost without one, a ledger nobody has written to (`Unwritten`) or
only the restore has (`Spare`), and the outcome it is going to report
(`Maintained`, `Told`).  `Bystands` bounds what anybody else does meanwhile: create
a ledger that is empty, stamp or migrate one, fold its log; never a row more or
less, never a version back, never an unsound file.  `KeptStays` shows that all the
holder relies on survives that, `KeptStep` that a step keeps `KeptInv` if its
process holds the lock or bystands, and each action has one lemma on top.
`LogsAdd` (a log adds to its main file, an unused inode is empty) and `Traces` (a
process knows only inodes in use, and has moved nothing before it says so) carry
the rows: what is replaced is in a backup or in the input, what is discarded or
removed is in the input, and what is moved aside or back is still listed.  The
migration finds its backup because a bystander that migrates the same ledger
leaves its rows and raises its version (`Covered`).  TLC checked `KeptInv` before
it was proved, with four processes, three faults and five inodes: 22.5 million
states.

*Transcript.*  `found` is the one read the properties compare with: what it carries
and has yielded after each line.  A reader, and a checkpoint of the log that is
there, stand before a line and carry what the one read carries there; or, when
that line was read before its newline was written, what it carries one line later,
and then the rows of the line are recorded already (`Stands`, `Carries`).  What a
log gains only extends `found`, and a log begun anew has another modification
time, so that no checkpoint passes for one of it.  The formats enter by one
assumption, `TranscriptAssumption`: `StateAfter` is what `ReadOf` carries along a
log, and a line that was read without its newline and is read again leaves the
state as it is and yields rows under the same keys (`Steady`).  That is what the
adapters rely on when they leave the collapsing of a line read twice to the
store's keys; TLC evaluates it for every line of every log of the five formats.
Where the file is as its checkpoint says, the checkpoint is at the end
(`CheckpointInv`), whence `NoLineSkippedHolds`.

*Interface.*  `FlightInv` says of the flights what the loop relies on and never
checks: a generation has one load, no flight is of a generation or of a write
that is still to come, and the newest load, as long as it is under way, looked at
the ledger no earlier than `lastMTime`.  A load that is applied is the newest, so
neither the data nor the watermark goes back, in whatever order the others
return.  `CacheInv` carries it on to what was read: an answer of a load is not
older than its look at the ledger, whether it was queried or found in the cache
by a load that invalidated nothing, because an entry of the cache is of a load
before it.  `InstanceInv` is about the instance of the cache a flight was sent
under: a flight of an earlier instance is older than every flight of the present
one and than the instant windows end at, so it sets neither, and an answer lands
only where its query was started; whatever is in the cache was therefore read
after the last refresh.  `PictureInv` adds that a live picture is put together
from the cache, or from what the loop read itself, and `RefreshIsFinalHolds`
follows.  Between the two calls of a refresh every flight is of an earlier
instance and one may be of the newest generation; the load that ends the refresh
takes the next.

`ShowsWhatIsAskedHolds` is of two parts.  `AskedInv`: a picture that is live answers
what the loop asks for now.  Each key that changes the question drops the picture
or its claim to be live and sends a load that supersedes the ones before, and a
load that is applied was sent for the present question, which is what its
generation says; `NavInv` types what is gone back to.  `CodeInv`: a flight for an
inspector with the present sequence number was sent for the session the inspector
is open on.  `InterfaceAssumption` keeps "nothing" apart from a count of writes and
from a picture.

*Readers.*  `SummariesExact` has a part about one state and a part about steps.
`RollupAnswers`: if every row is in the rollup, a window that begins at a quarter is
answered by cells, and by the rows of its last quarter where it ends inside one, as it
is by its rows.  The cells partition the rows of whole quarters, a group of the query
is a union of such parts, because quarters divide hours, days and the offset of the
zone, and sums, sessions and classes of such unions agree.  `SummaryInv` then follows
an answer from statement to statement: what has been found is exact of the ledger it was found in,
of which the present one is a later state (`Grown`: rows keep their place and all but a price,
and gain at the end), and the rollup it was taken from was current then.  Sessions
counted by a second statement are counted of a later ledger and so never too few.

`ExportsExact` rests on `ExportInv`: the pages so far are sorted without repetition,
all their rows are of the window, and every row of the ledger the export began with is
on a page or comes after the last row of the last one.  A later write disturbs none of
it, since a row's time and id stay.  A page is found by rank (`ListEvents`: the rows
with fewer than a page of rows before them), and ranks without gaps
(`RanksFill`) make a page either full or complete.

`SharesAreWithin` is of a state: `n` calls of a turn are given `T \div k` each, `k` at
least `n`, so together at most `T`; summed by turn, and over two queries of which
each call is in one.  A query of turns counts a context once because a turn has one
in each dimension.

`ReaderAssumption` types the ledgers a behaviour begins with and what is written, and
asks what the store promises of them: `RollupIsExact` and `ActivityCountsAreExact` in the
form this module has them (a watermark at the last row means that every row is counted,
which is not so on the course of the first disagreement below), and one context per dimension and
turn (the primary key of `usage_turn_context`).  The theorems are of `ReaderSpec`, where any row may come in between
any two statements; `MCQueries` checks the same readers with fewer rows.

What stays with TLC, and why:

- `ReportsHoldTogether` of the readers: seven claims about reports, pages and screens of several
  statements each, whose invariants are not written yet.
- What is under fairness: `EverythingRecorded`, `LateRatesArrive`, `EnsureHeals`,
  `EveryLineRecorded`, `AllRecorded`, `PageCatchesUp`, `LoadingEnds`, `Collects`,
  `FollowsFeed`.
- The polled formats (`NeverOverstated`, `CallsAreTheirOwn`) and the prices
  (`StatedIsBilled`, `RevisionNamesRates`), whose properties compare a course with a
  reference computed over the same data by eight formats and a merge of tables.
- The native service (`EndsAsReported`, `AdoptionBounded`), whose invariants are not
  written yet.

## Where code and comments disagree

Each was met while a property was being stated and the model showed it wrong; the
property now excepts the case by name, or its run leaves the course out
(`Unlucky`).  `PROJECT.json` quotes the line each contradicts.

| Where | What happens |
| --- | --- |
| `store/rollup.go:453` | after a migration emptied the rollup and `EnsureRollup` failed once, new rows make the watermark current; `Summarize` leaves the old rows out until a later `EnsureRollup` |
| `store/restore.go:483` | a command that opens the ledger between the rename of the main file and that of the log creates a fresh file, and the old log is deleted |
| `internal/cmd/root.go:299` | a command looks while a reset has its fresh ledger in place; the reset fails and puts the old one back; the command migrates it without the lock and without a backup |
| `internal/daemon/status.go:38` | a daemon loses to a probe, and nobody collects until the next command |
| `internal/cmd/daemon.go:201` | a collector of the same build is stopped in the window between its pid and its version |
| `internal/cmd/ownership.go:193` | a collector built before isolation enters between the recheck of the shared lock and the acquisition |
| `internal/cmd/daemon.go:328` | an adoption whose call times out is tried again by the next command, without the backoff |
| `internal/service/service.go:527` | a rollback takes an unanswered question for a no and leaves the unit running or enabled |
| `internal/service/service.go:537` | a rollback does not stop a unit that waits for its automatic restart |
| `internal/service/service.go:709` | `setup --remove` unlinks the file of a unit another command started meanwhile |
| `internal/tui/live.go:379` | a load answered from the cache credits a write it did not read; the next tick skips it |
| `internal/tui/app.go:524` | Esc in the activity view switches to the workspace and loads nothing for it |
| `internal/tui/workspace_update.go:632` | a refresh cancels the counts an open inspector waits for, and nothing asks again |
| `internal/web/static/app.js:296` | a page opened on an empty ledger takes the first watermark as its base and does not fetch |
| `internal/web/static/app.js:257` | of two fetches under way the older may be rendered last |
| `store/sqlite.go:923` | two passes within a second have one watermark |
| `internal/web/now.go:117` | in a zone off by half an hour the current local hour may have no slot |
| `store/activity.go:462` | a call stamped later than its usage falls into a window the usage is outside of |
| `pricing/pricing.go:289` | an overridden one-hour cache write is billed at the five-minute rate above the threshold |
| `pricing/engine.go:93` | an override of a cache or a batch rate alone is dropped |
| `pricing/modelsdev.go:60` | a cache read stated as free is charged the tier's input rate above the threshold |
| `pricing/engine.go:170` | a collector that finds the shared cache fresh goes on with the table it started with |
| `adapter/goose/goose.go:260` | a database made anew at a known path is skipped up to the old watermark |
| `adapter/copilot/copilot.go:717` | a log record read before the span of its call is counted beside it |
| `adapter/dsh/dsh.go:938` | a call read before its message is recorded under two keys |
| `adapter/claudecode/claudecode.go:1041` | an answer read while it is streamed keeps the tokens it had then: the higher total of a later read has a key that is taken |
| `adapter/clinecli/clinecli.go:677` | a call read before its message's metrics stays without its usage row: its key is taken when they come |

## What is assumed or left out

- Every write of an agent to its database changes the size or modification time
  the adapter's gate looks at, and every counter belongs to one source: a counter is
  known by its session id alone, so that a copied database would share its baseline
  (`adapter/hermes/hermes.go:245`).
- A build from before isolation refuses a ledger that a later build has migrated
  (`Open` checks the schema version), so it collects only from one that was not.
- The native service manager declines in `Ownership`, as it does for a path
  override; daemons are detached processes.  Builds are releases: a development
  build gets a notice instead of a restart.  A failing exec is left out.
- `Stop` waits three seconds; in the model it gives up at any time.
- `Ownership` has a current ledger, which commands open without the lock; a
  missing or old one, for which they ask for it, is in `Recovery`.
- In `Recovery` a replaced or copied database takes one step, as one SQLite
  transaction does; what `Verify` finds is a flag of the file and its version;
  the backup that is restored has been staged and verified.  A log that has been
  separated from its main file, by a reset whose rollback failed as well, is lost
  once that file is opened without it, and is folded into it by no close: who has it
  open goes on writing to it where it is.  SQLite may fold it, when the handle is
  closed with the main file back at its path.  With such a close TLC finds a course on
  which those rows enter the main file after a restore has taken its safety copy and
  leave it with the replacement, so `MainFilesKept` says nothing of them.
- A log of `Recovery` holds at least the rows of its main file (`RecoveryAssumption`):
  nothing in the code deletes a usage row.
- A second stamping of pid and version by `run` over its own first one changes
  nothing and is left out.
- Adapters: the parsing of JSON and of numbers, the discovery of files, session
  metadata and Copilot's cost store.  A format's line or record has the fields its
  adapter decides by.
- Store: `UpsertState` and `InsertEvents` on their own, which only tests call; the
  statistics of `doctor`; `db backup` and `db verify` on their own, which only read.
- `Readers`: one reader a behaviour.  Turn contexts are always joined to a row, and
  the crumbs of a drill are by model only.
- Web: host checks and static files.  Terminal interface: layout, the mouse, themes,
  and the day's end.
- Service: rendering of the unit, lingering, log paths and rotation, the status
  output, collectors of the time before isolation and path overrides.
- Pricing: parsing of the feeds, the dates they carry, the rounding of dollars per
  million tokens, and the switch that turns the refresh off.
- The system monitor samples the process's own use of resources for display, and
  nothing reads it; the performance drivers and checkers are no part of the shipped
  program.  Neither is modelled.
- Logging, formatting, flags and layout are not modelled.

## The plan

Done: `UsageLedger`, `Store`, `Ledger`, `Collector`, `Ownership`, `Recovery` and
`Interface` with their proofs; the append-only adapters with the proof of
`Transcript` for any format; the polled ones (`Polled` and its formats); the readers
(`Queries`, `Readers`, `Web`) with proofs of summaries, exports and shares; the service (`Managers`, `Supervision`); prices (`Rates`,
`Pricing`).

What would come next, in order:

1. Proofs of the parts of `ReportsHoldTogether`, from `RollupAnswers` and `Grown`; of `AdoptionBounded` and `EndsAsReported` (a rollback remembers what it has
   to undo), and of `StatedIsBilled` and `RevisionNamesRates`, which need the merge of
   rates as lemmas.
2. An abstract specification of maintenance, implemented by `Recovery`: the target is
   the old ledger, the new one, or reported as neither, from `ReportsAreTrue`; a log
   that its open handle folds wherever it lies.
3. `Transcript` as an implementation of the reading of logs in `Collector`, so that
   one run no longer assumes what another one checks.
4. Larger instances: two pages of one server, two readers at once, a collector of the
   time before isolation beside a restore.
