# A TLA+ model of netbird-events

`eventsproc` reads the audit events that NetBird commits to its `events` table
(PostgreSQL or SQLite), prints each as a line of JSON on stdout, and remembers
in a checkpoint row how far it has come. It runs standalone, or as several
processes of which a Redis lock elects one. This directory holds TLA+
specifications of that program, TLC configurations that check them on small
instances, and TLAPS proofs that hold for every instance.

The two promises everything else serves are: *no event is lost* (the saved
checkpoint never passes an event that was not printed) and *one node works at a
time* (two processes never pump events at once). Together they make a cluster
behave like one feed. All three are stated below, checked and proved, with the
conditions they need. Where a document or a comment promises more than the
code keeps, a run named `finding_*` or a configuration named `Finding*.cfg`
shows it.

## 1. Inventory

| Component | Source | State | Operations | Interacts with |
|---|---|---|---|---|
| Event queries | `pkg/events/postgres_reader.go`, `sqlite_reader.go` | the `events` table (written by NetBird) | `GetEvents`, `GetEventCount` | called by the processor |
| Checkpoint store | the same files | one row per `consumer_id` (before migration 003: and `writer_type`) | `GetCheckpoint`, `SaveCheckpoint` (upsert), the older `Get`/`SaveWriterCheckpoint` | the processor loads once per `Run`, saves once per batch; operators edit it by hand |
| Processor | `pkg/processor/processor.go` | `p.checkpoint` in memory, the options of the query, the batch | `Run`, `processEvents` | readers, checkpoint store, an `EventWriter` |
| Stdout writer | `pkg/stdout/writer.go` | none | `SendEvents` | called by the processor |
| MultiWriter | `pkg/writer/writer.go` | none | `SendEvents` | not wired into the program today |
| Elector | `pkg/election/elector.go` | the Redis key with its TTL; per process three goroutines and two contexts | `Run`, `runAsLeader`, heartbeat | Redis; runs `Processor.Run` as `runFn` |
| Process lifecycle | `cmd/main.go`, `systemd/eventsproc.service` | `appCtx`, exit status | signals, start, restart | everything |
| Email enrichment, decryption | both readers, `pkg/events/decryptor.go`, parts of `config.go` | none | joins and `COALESCE`, AES-GCM decryption | inside `GetEvents` |
| Configuration | `pkg/config/config.go` | none after start | `LoadConfig` and getters | gives the constants their values |
| Metrics | `pkg/metrics`, set in `processor.go` and `main.go` | a counter and gauges, as long as the process lives | increments, sets | read by no step of the program, but by people |
| Activity codes | `pkg/activity` | a static table | lookups | inside `GetEvents` |

What makes each correct, and where it is hard:

- **Event queries.** A page is ordered, within the limit, and leaves no hole
  between its rows. Hard: `ORDER BY timestamp` without a second key, while the
  resume filter is on `id`; the order of ties is the database's choice.
- **Processor and checkpoint store.** Nothing at or below the saved checkpoint
  is missing from the output, whatever is interrupted; only little above it is
  printed twice; the position does not move back; polling catches up. Hard: a
  context that is cancelled, a call that fails (perhaps after the database has
  done the work) or a crash between any two of *query, print, advance memory,
  save*; memory that is ahead of the row; the offset, `MinEventID` and
  `StartTime` of a query that lives through several batches; two processes on
  one row without fencing; `batch_size: 0`; `polling_interval: 0`.
- **Elector and lifecycle.** One leader at a time, who has the lock until
  `runFn` has returned; there is always a leader again; a process only exits
  with status 0 when it was told to (systemd restarts failures only). Hard:
  time (the TTL runs while calls are pending and while `runFn` winds down),
  answers that are lost after Redis did the work, errors of different kinds,
  two goroutines that must be joined before the lock is released.
- **Both together.** A leader that is stopped must be idle before its lock is
  free, or it saves its old position over its successor's (the upsert compares
  nothing). Hard: the end of a term, where `runFn`, the heartbeat, the lock and a
  batch that is half printed meet.
- **Writers.** A batch is acknowledged only when all of it was written, by every
  writer. Hard: partial failure and the retry that follows. The stdout writer
  ignores it (`FindingStdout.cfg`). On a line, metadata of any name must not
  replace a field of the event, and its values must be found there.
- **Checkpoint table.** Each consumer finds its own row. Hard: the program does
  not create the table, and documents, lab and migrations create different ones.
- **Enrichment and decryption.** An event is shown once, whatever the join finds,
  with an email, name or id of its own user, readable when the key is known.
  Hard: two drivers written separately, tables that may not exist, NULL and
  empty columns, values that are not sealed or sealed with another key.
- **Start-up and configuration.** What runs has a configuration that can work,
  and a process with a sound one runs in the end. Hard: layers of defaults, file
  and environment; servers that are down, and for how long systemd goes on trying; a
  signal before anything listens.
- **Metrics.** They show what was printed and saved. Hard: they move at other
  moments than the output and the row, and outlive a call of `Run`.
- **Activity codes.** A table; nothing to go wrong that a model would show.

`PROJECT.json` lists every hazard at its line with the properties that would
notice it going wrong. Where the code *does* go wrong no property that holds covers
it, and the hazard names the configuration that shows it.

## 2. Modules

```
EventQuery      the events a query returns                (operators only)
  ├ MCReaders   all small inputs of the pure code         EXTENDS also Enrichment, MCLines, MCStore
  │   └ ReadersProofs   pages, emails, the table: any size
  └ Processor   Run/processEvents, checkpoint, stdout     EXTENDS EventQuery
      ├ AuditFeed         the abstract feed it implements INSTANCE ... WITH
      ├ Operator          edits of the row by hand        EXTENDS Processor
      │   └ OperatorProofs    edits, any number of nodes    EXTENDS also ProcessorProofs
      ├ Writers           MultiWriter as its writer       EXTENDS Processor
      │   └ Metrics       what /metrics shows             EXTENDS Writers
      │       └ ServiceProofs   writers and metrics       EXTENDS also SingleNodeProofs
      ├ MCProcessor       symmetry for TLC
      └ ProcessorProofs   no loss, counts, any number     EXTENDS Processor
          │                 of nodes
          └ SingleNodeProofs  positions, repeats, refinement of
                            AuditFeed, one node at a time
Elector         the lock, the three goroutines, time
  ├ ElectorProofs   exclusion
  └ MCElector       symmetry for TLC
Cluster         Elector and Processor composed            INSTANCE of both
  └ ClusterProofs   the cluster's safety                  INSTANCE of ElectorProofs,
                                                          SingleNodeProofs
Enrichment      the email columns of these events         (operators only)
JsonLine        the fields of a printed line              (operators only)
  └ MCLines     all small events and metadata
CheckpointStore statements and tables of checkpoints      (operators only)
  └ MCStore     all small tables, and a save
Startup         configuration, start-up, exit, restart
  └ StartupProofs   any drivers, any number of restarts
```

Operators whose name ends in an underscore and a word (`Matches_Inclusive`,
`MayJoin_NoWait`) are plausible mistakes in the operator that follows them. They
are used nowhere: replacing the operator by its mistake shows that a property
notices it (`mutants` in `PROJECT.json`).

### EventQuery

`Matches` is the WHERE clause that both drivers build from `EventQueryOptions`
(`postgres_reader.go:138-172`, `sqlite_reader.go:104-131`), `Orderings` every
order the database may choose under ORDER BY, `PageOf` LIMIT and OFFSET with the
default limit. `GetEvents` is therefore a *set* of pages: with equal timestamps
a query may have several answers. A nil pointer of the options is the empty set.
`GetEventCount` does not look at `MinEventID` nor at limit and offset.

### Enrichment

`EnrichedRows` is what `GetEvents` makes of one row of `events`: for each way the
`LEFT JOIN`s match, an initiator and a target email. `Lookups` is
`buildEmailEnrichmentQuery` of each driver as the list of columns that `COALESCE`
tries before the user's id; an unknown source is `auto` for PostgreSQL and `none`
for SQLite. A nullable column is a set with at most one element, and a value is a
text with the key it is sealed with, if any; `Decrypt` opens what is sealed with
our key and returns everything else as it is, as
`decryptor.go` does. `Decryptor` is which key the configuration yields. The
cipher itself and base64 are abstracted to "sealed with this key".

`EnrichmentKeepsEvents` (one row in, one event out, when ids are keys) is what
allows `Processor` to use `EventQuery!GetEvents` without the joins.

### Processor

A state per node and a shared database. `pc` is where `Run` stands; `mem` is
`p.checkpoint`; `resume`, `window` and `batch` are the local variables of
`processEvents`; `ckpt` is the row; `out[i]` counts how often event `i` was
printed.

| Action | Code (`processor.go`) |
|---|---|
| `CallRun` | a call of `Run` by main or the elector |
| `LoadCheckpoint`, `LoadFails` | 98-121: `GetCheckpoint`, first poll |
| `BeginPoll` | 152-184: options, resume position or lookback window |
| `FetchBatch`, `FetchEmpty`, `FetchFails` | 186-203: `GetEvents` |
| `WriteLine`, `LineLost`, `SendFails` | 205-211 and `stdout/writer.go:25-36`, one line at a time |
| `AdvanceCheckpoint` | 213-229: memory moves before the row |
| `SaveCheckpoint`, `SaveFails` | 231-251: save, end of a short batch, next page |
| `Tick`, `Return` | 129-149: the select of the polling loop |
| `Cancel`, `Crash` | a signal or the elector's cancellation; the process dies |
| `StoreEvent`, `ClockTick` | the NetBird server; time, in hours |

Choices worth knowing:

- `opts.MinEventID` is a pointer *into* `p.checkpoint`, so the query follows the
  memory as it advances. The model keeps whether the pointer is set (`resume`)
  and reads `mem` when it queries.
- Every call may fail when the context is cancelled, and up to `MaxFaults` times
  for no reason. A failed save may or may not have written the row.
- A node may crash between any two steps, also in the middle of a batch. A crash
  during a save may leave the row written.
- With two nodes nothing keeps them apart. This is what remains when the
  election fails.
- The timestamps and the hostname of the checkpoint row are left out, no step
  reads them back.

`AuditFeed` is the abstract promise: stored events, print counts, a durable
position that moves up only over printed events. It has no batch, memory,
context or crash.

### Elector

`pc` is `Elector.Run` and `runAsLeader`, `hb` the heartbeat goroutine, `proc`
the goroutine of `runFn`; `appDone` is `appCtx`, `lost` says whether
`leaderCancel` was called, and `Cancelled` is `leaderCtx.Done()`. A call to
Redis takes effect in one step (`Obtained`, `RedisRefresh`) and is answered in
another (`BeginTerm`, `RefreshOK`, `RefreshFails`), so that everything may
happen in between.

| Action | Code (`elector.go` unless named) |
|---|---|
| `Start`, `Terminate`, `Crash` | systemd's `Restart=on-failure`; `main.go:72-84` |
| `Obtained`, `NotObtained`, `ObtainFails`, `ObtainGivesUp` | 97-124, the four outcomes of `Obtain` |
| `Retry`, `SleepCancelled` | 106-110, 118-122 |
| `BeginTerm` | 126-199: the two goroutines start |
| `Beat`, `RedisRefresh`, `RefreshOK`, `RefreshFails`, `RefreshTimesOut`, `HeartbeatStops` | 168-188 |
| `ProcReturns` | 190-199, a panic is an error |
| `ProcDone`, `TermCancelled`, `Drained`, `HeartbeatJoined` | 201-211 |
| `Release`, `AfterTerm` | 153-162, 213-218, 130-140; exit status |
| `Tick` | time |

Time is a set of countdowns that `Tick` moves together: the TTL of the key, the
ticker, the answer of a pending call, the return of a cancelled `runFn`. With
`Timely` TRUE, time does not pass a countdown that has reached zero; this states
the bounds `Latency` and `StopDelay`. With `Timely` FALSE any delay is possible.
A lock whose token nobody knows any more (the process died, or never heard that
it had got the lock) belongs to `Nobody` until it expires. The owner check of
Refresh and Release is what bsm/redislock does; it is external code.

### Cluster

`E == INSTANCE Elector` and `P == INSTANCE Processor` over disjoint variables;
the processor's `pc` and `faults` are `at` and `failures` here. A process is a
node of both. They meet in four actions, and otherwise one of them stutters:

| Action | Elector | Processor | Code |
|---|---|---|---|
| `BeginTerm` | `BeginTerm` | `CallRun` | `elector.go:190-199`, `main.go:112-116` |
| `CancelSeen` | `Cancelled` (guard) | `Cancel` | `ctx` of `Run` is `leaderCtx` |
| `RunReturns` | `ProcReturns` | the step that ends `Run` | what `Run` returns becomes the `result` of `runFn` |
| `Crash` | `Crash` | `Crash` | the process dies |

`Elect`, `Keep`, `Terminate` and `Pass` are the election's own steps, `Pump` and
`NetBird` the processor's. `Run` returns nil only from its single poll when
`PollingInterval` is 0 (`FindingRunOnce.cfg`); otherwise it ends with an error or
because it was cancelled.

### Operator

Adds an operator's edits of the row to `Processor`: set `last_event_id` to 0
(`ResetRow`, TECH_DOC 8.2), delete the row (`DeleteRow`, SETUP), or set another
position (`SkipTo`). `owed` is what the edit asked for: the stored events above the
new position that have not been printed since. `WhileStopped` says whether the
edit is made while no processor runs.

### Writers

`Processor` with a `MultiWriter` as its `EventWriter`: `WriterTakes` is one turn
of the loop over the writers, a writer that fails has written some prefix of the
batch; `Acknowledge` and `Refuse` are what the loop's result makes of
`WriteLine`/`AdvanceCheckpoint` and `SendFails`. `taken` counts what each writer
has got; with one writer it is `Processor` again. No program wires a `MultiWriter`
in today.

### JsonLine

A line is a function from field names to values. Names are strings because two of
them being equal is the question; `Line` is the order of the assignments to
`data[...]` in `eventToJSON`, each laid over the earlier ones (`Overlay`). Of
metadata, `MetaFields` is what `json.Unmarshal` into a map leaves: the last member
with a name (`Member`), numbers as float64 (`Decoded`; 2^53 + 1 stands for those
that are rounded), no fields and no error for `null`, and an error for any other text
that is no object, which is then printed as it is.

### CheckpointStore

The statements themselves: which columns they name, which row WHERE finds, which
key ON CONFLICT needs, what DO UPDATE keeps. `table` is one of the shapes that
TECH_DOC, SETUP, the lab and version 1 create. `MCStore` starts from every small
table that obeys its key and lets one client save; a client is a consumer with a
writer and the pair of methods it uses (the older one serves the table from
before migration 003).

### Startup

`Loaded` is what `LoadConfig` reads for five keys that stand for the kinds there
are: a choice with a default, a required one, one with a generated value, one that
may fail to parse, and a nested one. `Setting` is viper's order of environment, file
and default; `Bound` is the name of the variable that `BindEnv` reads. `flag` is
`--config`: empty, or a path, which must exist. The actions are main's steps in order, a
signal (which kills before `Notify` and cancels after), and outages of the servers.
`RunEnds` is everything that makes `Run` return: it was told to, its only poll is done
(`RunsOnce`), a call to Redis timed out, or an error.

systemd restarts what failed, but only `StartLimitBurst` times in an interval
(`starts`); then the unit stays failed (`GiveUp`). When the interval ends is left
open (`IntervalPasses`), because how fast a start fails depends on whether a server
refuses or does not answer. `RestartDelayed` is a unit whose `RestartSec` keeps below
the limit, as in TECH_DOC; the repository's unit has none.

### Metrics

The gauges and the counter that `processEvents` sets, at the step where it sets
them, in the service with its writers, for one node; a crash resets them.
`IsLeader` is 1 exactly while `runFn` runs, which is `Leads` of `Elector`: `LeaderHoldsLock` says when it is true.

## 3. The runs

| Run | Question | Result |
|---|---|---|
| `readers` | every table of up to 3 rows, every options value: is a page ordered and within its limit (`PageIsSound`), does it skip nothing (`PageLeavesNoHole`), does the count cover what can be read (`CountIsReadable`)? Every source, key and small user database: is an event shown once (`EnrichmentKeepsEvents`), with something that says who its own user is, unless a column is empty (`EmailIdentifies`), readable if the key is known (`KeyIsUsed`), and the same by both drivers (`DriversAgree`)? Every small event with metadata chosen to collide: does its line keep event, users and metadata apart (`LineKeepsOwners`)? Every small checkpoint table and save: does the client find what it saved, do the others keep theirs, is the pair of methods that belongs to the table served (`RowsServeTheirOwners`)? | yes |
| `service` | one service with two writers, lookback and metrics, through crashes, cancellations and failures in the middle of a batch: does it implement the feed (`ImplementsFeed`), does the position pass what a writer misses (`SavedReachedAll`), has a copy a gap or unexplained repetitions (`CopiesAreTrue`), do the metrics lie (`MetricsAreTrue`: last id, counter and lag)? Does every writer get everything (`AllWritersGetIt`), does the time of the last poll keep up (`PollTimeKeepsUp`)? | all as it should be |
| `processor_two_nodes` | two nodes at once on one row, as after a failed election: is an event lost (`NoEventLost`), does the total drift (`TotalMatchesPosition`)? | no |
| `processor_run_once` | `polling_interval: 0`, `batch_size: 0`, rows committed in any order and a stdout that loses lines: the position never moves back (`PositionNeverRegresses`), nothing at or below it is printed again (`CoveredNeverResent`), `Run` goes over all it found (`RunOnceDrains`) and returns (`RunOnceReturns`) | holds |
| `elector_timely` | bounded delays that fit into a TTL, no timeouts: `OneLeader`, `LeaderHoldsLock`, `HeartbeatGuardsTerm`, `ExitsOnlyOnShutdown` | holds |
| `elector_live` | any delays, and calls that time out: `LeaderAgain`, `LosingLeaderStops` | holds |
| `cluster_safe` | two processes under one lock, bounded delays, no timeouts: do they behave like one feed, which never moves its position back nor prints what it covers (`ImplementsFeed`), exceed one batch of repetition (`GapAtMostOneBatch`), work without the lock (`WorksUnderLock`)? | like one feed; the others never |
| `cluster_live` | the same, with fairness: `EventuallyDelivered` by whichever node leads | holds |
| `operator_stopped` | edits of the row while nothing runs, no lookback: what the operator asked for is not passed over (`ReprocessesEverything`), and is printed in the end (`OwedIsPrinted`), once by each call of `Run` (`OncePerRun`) | holds |
| `startup_sound` | all values of `--config`, file and environment for five keys, outages, timeouts, signals, and a start limit: does only a sound configuration run (`RunsOnlyIfSound`)? Does a sound one run in the end, if the servers are back by the last start allowed (`RunsInTheEnd`)? Does a process stop when told (`StopsWhenTold`)? | yes |
| `finding_order` | timestamps that disagree with ids: `NoEventLost` | violated |
| `finding_elector` | a Refresh times out: `OneLeader` | violated |

Beside these runs there are configurations for the disagreements of section 5 that
`PROJECT.json` does not list. TLC finds each of their properties violated:

| Configuration | Module | Property |
|---|---|---|
| `FindingStdout.cfg` | `MCProcessor` | `NoEventLost`, when stdout refuses a line |
| `FindingAuto.cfg` | `MCReaders` | `AutoWorksEverywhere`, on a database without `okta_users` |
| `FindingSetup.cfg`, `FindingLegacy.cfg` | `MCReaders` | `OwnVersionServed` with SETUP's table, `LegacyServed` with the lab's |
| `FindingRunOnce.cfg` | `Cluster` | `RunsOnceAndExits` |
| `FindingResetRunning.cfg`, `FindingResetLookback.cfg` | `Operator` | `ReprocessesEverything`, while running, and with a lookback window |
| `FindingStartLimit.cfg` | `Startup` | `FailureIsRestarted`, when starts fail fast while a server is down |
| `FindingEnvNested.cfg`, `FindingEnvOnly.cfg` | `Startup` | `EnvOverrides`, `EnvIsEnough` |
| `FindingEmptyEmail.cfg` | `MCReaders` | `AlwaysIdentifies`, for a user whose email is empty |
| `FindingMetaNested.cfg`, `FindingMetaWhole.cfg` | `MCReaders` | `MetaIsNested`, and `MetaIsWhole` with null or a number that float64 rounds |
| `FindingLag.cfg` | `Metrics` | `LagIsCurrent` |
| `FindingLockKey.cfg` | `Elector` | `EnvironmentsApart` |

### Bounds

- Processor: a batch of 2 and 3 or 4 events give full, short and empty pages, a poll of
  several batches and a page that ends between any two events. 2 or 3 calls of
  `Run` give a restart after a restart; `MaxFaults` 1 gives one unexplained
  failure on top of any number of cancellations and crashes.
- Service: two events are a full page, or two short ones with a failure and a crash
  between them; a clock of 2 hours with `lookback_hours` 1 lets the first event
  expire before or after the first checkpoint. Two writers, each of which may be
  the one that fails, before, within or after its part of a batch; a third one
  adds only more of the same loop.
- Readers, pages: two accounts, one activity, three ids, two times; every subset of
  filters. Ties in time are included.
- Readers, emails: one event with no, the same or different users; each subset of
  the three user tables, each with the user, in every combination of NULL, empty,
  plain and sealed columns, or without; keys that are unset, unreadable, ours or
  another one. A row is enriched by itself, so one event and one matching user
  are enough.
- Elector: two nodes; a third one adds only another standby. `TTL` 7, `Latency`
  1 and `StopDelay` 1 are the smallest values with delays for which half a TTL (3), two
  answers and one stop are less than the TTL; with TTL 6 `OneLeader` fails.
  Three faults are enough to lose a lock (crash or failed call), lose a second
  one, and be signalled in between. `elector_live` needs no measure of time
  beyond "the lock expires": TTL 2.
- Cluster: `TTL` 3, `StopDelay` 1 and no delay of answers are the smallest values
  that fit (1 + 1 < 3) and let time pass while a leader winds down. Batches of
  one event and two events give full and empty pages and a gap at every point.
  Three terms and two faults give a failover and a failover back. The liveness
  run needs no winding down, so `TTL` 2. The interleavings inside one batch of
  several events are those of the processor's own runs.
- Operator: three events, batches of one, three runs and two edits: an edit
  before, between and after events, and a second one while the first is owed.
- Lines: at most two members, so that a name may come twice; names that equal, with
  and without prefix, a fixed field, an optional field and `meta_unparsable`; values
  that float64 keeps and one that it does not.
- Checkpoint tables: two consumers, two writers and two positions; more rows only
  repeat "another one's row". Startup: every value that a branch distinguishes; two
  of outage, timeout, signal or fatal error, so that a restart can fail again; a
  start limit of 3 (systemd's default is 5) leaves a first, a repeated and a last
  start.
- Everything that only counts towards a bound (`runs`, `faults`) is named in the
  modules and limits the environment, never the program.

`CHECK_DEADLOCK FALSE` is set where the model really stops: `readers` and
the other configurations of its module (inputs are picked and read once),
and `processor_run_once` (all runs are done).

### Fairness

`Processor!Fairness`: weak fairness of each node's steps - goroutines are
scheduled, calls return, the ticker fires, systemd or the elector calls `Run`
again - and strong fairness of `Return`: the select of the polling loop takes a
random ready case, so it does not pass over `ctx.Done()` for ever. Crashes,
cancellations, failures and new events are not fair: they may happen or not.

`Elector!Fairness`: weak fairness of the main goroutine, of the heartbeat and of
`runFn`'s return once it is cancelled, of time, and of the heartbeat's
`leaderCtx.Done()` case (again the random choice of select: without it the
heartbeat of a finished term could refresh for ever while `runAsLeader` waits
for it). Retrying nodes are started again unless they exited with status 0 by
themselves.

`Cluster!Fairness` is both of these for the steps as they are taken there (the
step that ends `Run` belongs to both sides). `Operator` and `Metrics`
have the fairness of `Processor`; edits of the row are never fair. `Startup`:
main runs, systemd restarts what failed or gives it up, and servers come back; that
the interval of the start limit passes between two starts is *not* assumed, since
a refused connection fails within milliseconds and the unit waits 100 ms.
`Processor`, `Elector` and `Cluster` do not have the start limit: they take it that
crashes, which `MaxFaults` bounds, do not come five in ten seconds.

## 4. What is proved

Proofs are in the eight modules whose names end in `Proofs`; they hold for every
value of the constants.

**`ProcessorProofs!TypeCorrect`**: `Spec => []TypeOK`.

**`ProcessorProofs!NothingLost`**: `Spec => []NoEventLost`, assuming `IdsInOrder`,
`TimesInOrder` and `~StdoutMayFail`, which are the conditions that the findings
show to be necessary. Any number of nodes may run at once, with any batch size,
lookback, and any failures. `NoEventLost` alone is not inductive: it does not say
why the *next* save is safe. `IInv` adds

1. `StoreOrdered`: ids and times of the table agree;
2. `SafePosition`, of the row *and* of every node's memory: everything at or
   below it was printed or has expired, and it is 0 or the id of a stored event
   (so later events get larger ids);
3. `WindowExpired`: what the lookback window of a running query hides has
   expired;
4. `QueryFromPosition`: a query without `MinEventID` is only made from position 0;
5. `BatchComplete`: a batch being sent has no hole between the memory and its
   last event, apart from what the window hides (this needs the lemma
   `FirstPage` about `GetEvents`);
6. `PrefixPrinted`: what `SendEvents` has handled was printed.

Then `AdvanceCheckpoint` keeps `SafePosition` of the memory by 5 and 6, a save
carries it to the row, and every load carries it back.

**`ElectorProofs!Exclusion`**, **`LeadsWithLock`**: `Spec => []OneLeader` and
`Spec => []LeaderHoldsLock`, assuming `Timely`, `~RedisTimeouts` and

    Period + 2 * Latency + StopDelay < TTL        (Period = TTL \div 2)

for any number of nodes, crashes and failed calls. One `Latency` is the answer to
Obtain, during which the TTL already runs; the other one the Refresh that fails.
The inductive invariant covers what is left of a term by what is left of the
lock and a margin, which is zero if the delays fit (`TermCovered`): a cancelled
`runFn` has a lock that outlasts its countdown; before that, the lock outlasts the
pending Refresh and the stop; before that, the time to the next beat as well; and
a grant or refresh that Redis has executed is worth more than a period, an answer
and a stop. `TermInv` adds that `runFn` and the heartbeat run only while
`runAsLeader` waits for them.

**`ElectorProofs!DeposedLeaderStops`** says what happens when they do *not* fit, from
the same invariant with its margin, for every TTL and every delay: a node that runs
`runFn` without the lock never gets the lock back in that term, no step gives it more
time, each unit of time takes one off, and it has stopped within

    Period + 2 * Latency + StopDelay - TTL

(not at all, if that is negative), which is how long two nodes may overlap. TLC finds
the bound reached for a TTL of 3 with delays of 1, and for 4 with delays of 2. It is
the safety core of `LosingLeaderStops`.

**`ElectorProofs!TermsGuarded`**, **`ExitsWhenTold`**: `HeartbeatGuardsTerm` and
`ExitsOnlyOnShutdown` whatever the delays, assuming only `~RedisTimeouts`.
**`ElectorProofs!TypeCorrect`**: types, and at most one lock.

**`SingleNodeProofs!NeverRegresses`**, **`NeverResent`**: `PositionNeverRegresses`
and `CoveredNeverResent` of `Processor`, assuming `[]Solo`: at most one node is
inside `Run` at a time (trivial for one node; the cluster's theorem supplies it for
several). Nothing is assumed of the order of commits or of stdout. `SoloInv` says
that the memory of the node inside `Run` is not behind the row (`AheadOfRow`), that
a batch holds only stored events above the memory (`BatchAbove`), and that a query
without `MinEventID` means position 0 (`QueryFromPosition`).

**`SingleNodeProofs!KeepsTheFeed`**: `Spec /\ []Solo => ImplementsFeed`, with the order of
commits and a faithful stdout. Init maps to Init; of the processor's steps, a
written line is a `Deliver` of the feed, a save (also a failed one that the
database executed) moves the durable position over printed events only, which
`SafePosition` and `SoloInv` give, and the rest stutter. `FeedInv` adds that the
events between row and memory were printed (`GapPrinted`), that a window hides only
what is behind it (`WindowBehind`) and a batch lies inside it (`BatchInWindow`).

**`SingleNodeProofs!FeedKeepsPromises`**: `ImplementsFeed` implies `NoEventLost`,
`PositionNeverRegresses` and `CoveredNeverResent`. The feed is thus no weaker than
what it is meant to promise, and whatever implements it has the three properties
without a proof of its own.

**`SingleNodeProofs!RunOnceCovers`**: with `polling_interval: 0` a `Run` that ends
without an error leaves the row at or above the id of every event stored before its
last query, unless the event has expired. This is the safety core of
`RunOnceDrains`: liveness has to add only that `Run` returns. Stdout may fail. It
needs the order of commits, `[]Solo`, and that the row is as far as the memory at
every query (`RowInMemory`) - which a failed save spoils in the polling mode, where
an empty poll succeeds while the row is still behind: there TLC refutes the same
statement about the row, and the next theorem speaks of what was printed.

**`ProcessorProofs!PollsCatchUp`**: for any number of nodes at once, in either mode, a
poll that succeeds has left every event that was stored before its last query
delivered or expired. `CatchInv` follows the event from that query on: it is covered
by the memory, or is in the batch at hand, or above the memory and inside the window
of the query, so that a page shorter than the batch size has it (`ShortPageCovers`).
With it, `EventuallyDelivered` needs only that polls go on and succeed.

**`SingleNodeProofs!GapIsOneBatch`**: `Spec /\ []Solo => []GapAtMostOneBatch`, with the
order of commits and a faithful stdout, for every batch size (0 is the reader's
default) and lookback. The property speaks of executions without a failed call: a
failed save lets the next batch go on from memory. `OneBatchInv` therefore adds to
`FeedInv`, *as long as nothing has failed*: a node that can still fetch knows the
saved position, a batch at hand reaches past everything that was ever printed, and
so does the memory before a save (`OneBatchNode`); and the events between the saved
position and the last printed one are no more than a batch (`GapBounded`). The last
is said for every lower bound of the timestamp that a running or a later query may
use (`Cutoffs`), because an expiring event may be printed without being in the next
window. A fetch then reads at least all that was printed (`PrintedStored` and the
order of the page), so that the batch at hand reaches past it, and sending it
leaves no more than the batch behind.

**`ProcessorProofs!PrintsOncePerRun`**: `Spec => []OncePerRun` for any finite set of
nodes at once, with the order of commits and no refusing writer (a refused batch
is printed again by the same run). `OncePerRun` compares the prints of an event
with the number of calls of `Run`, so the invariant leaves room for the prints still to
come: `out[i]` and the number of nodes inside `Run` that may yet print `i` are
together at most the number of runs.

**`ProcessorProofs!TotalIsExact`**: `Spec => []TotalMatchesPosition`, without lookback and
with the order of commits, also for several nodes at once: row and memories
count exactly the events up to their position (`Counts`), since a batch leaves none
out (`BatchWhole`).

**`ClusterProofs`** composes. `BothParts`: every behaviour of `Cluster` is one of
`Elector` and one of `Processor`, by mapping each joint action to an action of each
or to a stutter. Hence:

- `ClusterLosesNothing`: `NoEventLost` *whatever the timing*, because
  `NothingLost` holds for any number of concurrent nodes. A failed election can
  repeat events; it cannot lose them.
- `ClusterCatchesUp`: `PollsCatchUp`, whatever the timing: a successful poll of a
  leader covers what the terms before it have left behind.
- `OverlapIsBounded`: under `Timely` and `~RedisTimeouts`, whatever the size of the
  delays, a node is inside `Run` without the lock for no longer than
  `DeposedLeaderStops` says.
- `OneNodeRuns`: under `Timely`, `~RedisTimeouts` and the bound on the delays,
  `[]Solo`. This needs an invariant of its own: a node is inside `Run` only while
  the elector has `runFn` running there, to which `Exclusion` applies.
- `ClusterNeverRegresses`, `ClusterNeverResends`, `ClusterKeepsTheFeed`: the
  single-node theorems with `OneNodeRuns` for their assumption.
- `ClusterRepeatsOneBatch`: `GapAtMostOneBatch` under the same assumptions: a
  failover repeats at most one batch.
- `ClusterWorksUnderLock`: `WorksUnderLock`, from `LeadsWithLock`.

**`ServiceProofs`** is about the whole process, `Metrics` on `Writers` on
`Processor`. `ServiceIsAProcessor` is the refinement: a call of one writer inside
`Write`, and an update of a metric, is a stutter of the processor or happens with one
of its steps, so that every theorem of `ProcessorProofs` and `SingleNodeProofs`
carries over (`ServiceKeepsTheFeed`). About the writers:

- `SavedInEveryCopy`: `SavedReachedAll`, for any number of writers and of processes.
  What was *acknowledged* has reached every writer (`TakenInv`: the writers whose
  turn has passed without an error have the event being written; a printed event is
  one that all of them took); `NothingLost` says that what is saved was printed.
- `CopiesAreFaithful`: `CopiesAreTrue`. The copies are the harder part, because a
  writer may have got a line that the `MultiWriter` reports as failed. A copy has
  no gap because a batch goes on from what was acknowledged, and that has reached
  every writer (`GapInv` with `TakenInv`). For the repeats, the copies of an event
  and the nodes that may still give it to the writer (`Givers`) are together at most
  the calls of `Run` and the errors (`BoundInv`), as `PrintsOncePerRun` does for stdout.
- `MetricsTellTheTruth`: `MetricsAreTrue` for one process. `last_event_id` is a safe
  position, no older than the row, and between `Advance` and the save it is what
  will be saved (`GaugeInv`), although a new call of `Run` does not reset it; the lag
  never exaggerates (`LagInv`); and without a crash the counter lacks exactly the
  lines of the batch in flight (`CountInv`).

**`OperatorProofs`** lets somebody edit the row. `EditsPrintOncePerRun`: `OncePerRun`
also when the row is edited under running processors, since only another run reads
it again. `OwedStaysAbove`: `ReprocessesEverything` when everything is stopped
during the edit and there is no lookback, for any number of nodes that run
afterwards. `OwedInv` says of every node that has loaded the row that its memory is
below all that is owed, and that the rest of its batch still holds what is owed of
the batch - which is why another node's late save cannot hide it.

**`StartupProofs!RunsOnSoundConfig`**: `Spec => []RunsOnlyIfSound`. The invariant is that
file and environment are well-formed and never change (`GivenInputs`), and that past
each check of `main.go` and `NewProcessor` the configuration is the one loaded and
has what the check asks for (`CheckedConfig`).

**`ReadersProofs`** proves what the pure code yields for inputs of any size.

- `PagesAreSound`, `PagesLeaveNoHole`, `CountsAreReadable`: any table, limit, offset,
  order and filter. A page is a slice of one of the orderings of the matching rows
  (`PageIsSlice`), an ordering of n rows onto n places is injective, and what is
  neither on the page nor after it is the image of the first `Offset` places
  (`BeforeThePage`).
- `EveryEventIsKept`: a `LEFT JOIN` on the key has one row per user (`OneMatch`), so
  the joins have one (`OneJoin`), for any tables whose id is their key.
- `EmailsIdentify`: `COALESCE` over columns that end in the id is never NULL
  (`CoalesceFinds`, from the well-foundedness of `<`), and each column is of a row
  joined for this very user. It speaks of users none of whose columns is empty, the
  condition that `FindingEmptyEmail.cfg` shows to be necessary.
- `ConfiguredKeyIsUsed`, `DriversShowTheSame`: for any set of keys; the second since
  PostgreSQL's columns are SQLite's behind NULLs that change nothing
  (`SharedLookups`, `CoalesceSkipsNulls`).
- `StoreServesItsClients`: `RowsServeTheirOwners` for tables with any rows of any
  number of clients. The layouts are assumed to be among the three that the code
  and its migration know.
- `LinesKeepOwners`: `LineKeepsOwners` for events with any values and metadata with
  any names. The provers know nothing of the characters of a string, so
  `PrefixAssumption` says what the argument needs of them: `"meta_" \o key` is no name
  of the event or its users, and differs for different keys (TLC evaluates it on the
  keys of the run). The rest is the code's: that it is this name which a member gets
  (`NameIsPrefixed`), that the last member of a name wins (`LastMember`), that own
  fields come from the event (`OwnFieldsAreOwn`). A number that float64 rounds is
  promised its field but not its value, and `null` nothing.

Each inductive invariant was checked by TLC on the instances of the runs before
it was proved.

Only model-checked:

- all liveness (`LeaderAgain`, `LosingLeaderStops`, `RunOnceDrains`,
  `RunOnceReturns`, `AllWritersGetIt`, `PollTimeKeepsUp`, `EventuallyDelivered`,
  `OwedIsPrinted`, `RunsInTheEnd`, `StopsWhenTold`), which is out of the prover's
  reach.

## 5. Where the code and its documents disagree

- `finding_order`. Pages are ordered by `timestamp`, the checkpoint is an `id`.
  If an event with a smaller id has a later timestamp, or is committed later, a
  page may end between them and the checkpoint passes the event. `TECH_DOC.md:418`
  shows the query with `ORDER BY e.id ASC`.
- `FindingStdout.cfg`. `SendEvents` ignores the result of `fmt.Println` and skips a
  line it cannot marshal; `TECH_DOC.md:870` promises an error and no update of
  the checkpoint.
- `FindingAuto.cfg`. For `auto` (and for a source it does not know) the PostgreSQL
  reader joins `okta_users` whether or not it exists (`postgres_reader.go:93`); a
  database without it refuses every query. `config.yaml.example:156` and `:202`
  say "if exists" and "Works everywhere", and `:262` recommends `auto` as the
  remedy for exactly this error.
- `finding_elector`. A `Refresh` that fails with `context.DeadlineExceeded` ends
  the heartbeat and nothing else (`elector.go:178`). `runFn` runs on, the lock
  expires and a second node leads. `elector.go:93-95` says that the context is
  cancelled when the heartbeat fails.
- `FindingRunOnce.cfg`. In cluster mode with `polling_interval: 0`, `Run` returns nil
  at once, and the elector takes the lock again, in a loop. `README.md:139` and
  `config.go:168` say "run once and exit".
- `FindingResetRunning.cfg`, `FindingResetLookback.cfg`. "Reset checkpoint (reprocess
  everything)" (`TECH_DOC.md:772`, `SETUP.md:381`): a running process overwrites
  the row from memory; a stopped one begins with the lookback window, 24 hours by
  default, and passes over what is older.
- `FindingSetup.cfg`. The table of `SETUP.md:135-141` lacks two columns that every
  statement names (and the schema `idp` that PostgreSQL's name).
- `FindingLegacy.cfg`. `lab/init-db.sql:7` keeps `writer_type` "for legacy
  compatibility", but the older save needs a key of both columns.
- `FindingEnvNested.cfg`. `EP_CLUSTER_ENABLED`, `EP_EMAIL_ENRICHMENT_SOURCE` and the
  others of nested keys are ignored: viper reads `EP_CLUSTER.ENABLED`.
- `FindingEnvOnly.cfg`. The comment at `config.go:209` and `config.yaml.example:320`
  say that the file is optional; a file that does not exist ends the start-up.
- `FindingLag.cfg`. `eventsproc_checkpoint_lag_seconds` is set when a batch is sent
  and never grows by itself, contrary to `metrics.go:45-46`.
- `FindingStartLimit.cfg`. `eventsproc.service:10` has `Restart=on-failure` and no
  `RestartSec`. systemd then starts a failed process after 100 ms, and after five
  starts in ten seconds leaves the unit failed. A database or Redis that refuses
  connections for about a second, or is started after the service, therefore ends
  it for good. `TECH_DOC.md:639` shows `RestartSec=30s`, which never meets the limit,
  and `TECH_DOC.md:874` says "systemd restarts, resumes from checkpoint". With
  `RestartDelayed` TRUE the condition of `RunsInTheEnd` on the last start is void.
- `FindingEmptyEmail.cfg`. An email (or name) that is empty rather than NULL stops
  `COALESCE`, so the event has an empty email, and its line none, instead of the
  `user_id` of `README.md:317`.
- `FindingMetaNested.cfg`. `README.md:295` and `:313` show a field `meta` with the
  metadata as an object; the line has a `meta_` field for each member instead, as
  `TECH_DOC.md:272` says.
- `FindingMetaWhole.cfg`. Metadata that is the JSON text `null` leaves no field at
  all, and an integer beyond 2^53 is rounded, so that its value cannot be queried
  (`TECH_DOC.md:286`).
- `FindingLockKey.cfg`. `elector.go:34` asks for a key per environment; `main.go:92`
  passes a constant.

Without a configuration of their own:

- A unique `consumer_id` per instance is `README.md:365`'s remedy for duplicate
  events; it is what produces them, since each id has a position of its own. One
  id for all, and cluster mode, is what prevents them.
- `Obtain` with `DeadlineExceeded` makes `Run` return nil (`elector.go:114`), the
  process exits with status 0 and systemd does not restart it, although
  `elector.go:88` says that `Run` blocks until `appCtx` is cancelled or `runFn`
  fails. `ExitsOnlyOnShutdown` is therefore stated for `~RedisTimeouts`, and
  `LeaderAgain` excepts the case that every process has left in this way.
- "No Duplicates" (`TECH_DOC.md:714`) and "exactly-once" (`TECH_DOC.md:84`) are
  at-least-once: a crash between print and save prints a batch again
  (`GapAtMostOneBatch` bounds it).
- After a failed save the next poll goes on from memory (`processor.go:224`,
  `:234`); `TECH_DOC.md:873` says "Processing stops, prevents duplicates". No
  event is lost by it: a later save covers the gap, a crash before it prints more
  than one batch again.
- `TECH_DOC.md:412` shows the query with `'not_okta_user'` where the code uses the
  id.
- Metadata that is valid JSON but no object, a list for example, is printed as
  `meta_unparsable`, which `writer.go:90` says of text that is not valid JSON.
- With `polling_interval: 0`, the default, a standalone process ends with status 0
  after one poll and systemd does not start it again, although the unit describes a
  service.
- An encryption key configured directly is not tried when `netbird_config_path`
  is set but cannot be read (`KeyIsUsed` is stated accordingly).
- A custom user table whose id is not unique would multiply events; the model
  takes it as a key.
- `GetEventCount` ignores `MinEventID`, unlike `GetEvents`.

## 6. What is abstracted or left out

- A row of `events` is its id and time (account, activity and
  users, and all fields of a line, in `readers`). Formats of times (a line has
  milliseconds) and numbers, and JSON's syntax, are left out; the rounding of a
  number in the metadata is not.
- A timed-out save that the database commits only *after* the same node's next
  load. For two nodes the interleavings of `processor_two_nodes` include the late
  write of the other node; in `Cluster` the two are kept apart, so a write that
  arrives after its process has stopped waiting *and* after a successor's load is
  outside the model.
- Of the configuration, five keys; the others are read the same way. The log
  level, and the metrics HTTP server, which no other part waits for.
- The histograms of sizes and durations.
- `SendEvent` and `Close` of the writers: the first delegates, the second releases.

Not modelled: the activity codes (`pkg/activity`, `pkg/events/activity.go`), a static
table that a model could only repeat.

## 7. How to run

    tlc -config Service.cfg Metrics.tla
    tlc -config ElectorTimely.cfg MCElector.tla
    tlc -config ClusterSafe.cfg Cluster.tla
    tlapm ProcessorProofs.tla
    tlapm ClusterProofs.tla
    tlapm ReadersProofs.tla

`ClusterSafe` takes two to three minutes, every other run about one or less;
`PROJECT.json` pairs configurations and modules.

## 8. What would come next

1. The abstract feed for several writers, each with a durable position of its own,
   and `Metrics` as its refinement.
2. `CopiesAreTrue` and `MetricsAreTrue` for the cluster, which composes `Processor`
   alone today.
3. A save that arrives late in the cluster, as a message of its own.
