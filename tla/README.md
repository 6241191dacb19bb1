# Formal models of the cleanroom environment monitor

TLA+ models of `cleanroom-environment-monitor-service` (the Go service under
`src/`), the TLC runs that check them on small instances, and TLAPS proofs of
what holds for every instance. Paths below are relative to `src/`.

## 1. Inventory of the system

| Part | State | Operations | Hard behaviour |
|---|---|---|---|
| Clean-zone state machine (`domain/zone_state.go`, `cleanzone.go`, `interlock.go`) | status, `StatusSince`, last ratio of each clean zone | target status of a ratio, `SetStatus`, levels and actions of an interlock | exact thresholds; `StatusSince` must survive samples that change nothing |
| Area interlock (`service/interlock_service.go`, `httpapi/interlock_handler.go`) | clean zones, equipment of monitor zones, interlock logs | `IssueForArea`, `Restore`, `AutoInterlockCandidates` | many writes per request, no lock across them, an error ends the request half way |
| Zone sweeper (`service/zone_sweeper.go`) | its list of candidates | `Sweep` every minute | works from a list that grows stale |
| Ingestion (`service/ingest_service.go`, `domain/validity.go`, `sample.go`, `iso.go`) | samples; and clean zones, interlocks, alerts through the other services | `Process` | read, decide, write back; four kinds of alert; late samples |
| Administration (`service/zone_service.go`, `httpapi/zone_handler.go`) | topology, PM flag, calibration date | create, `SetMaintenance`, `SetCalibration` | edits race with interlock commands |
| Alerts (`domain/alert.go`, `service/alert_service.go`, `escalate_sweeper.go`, `store/alert_store.go`) | alerts | `CreateWithDedup`, `Ack`, `Escalate`, `ResolveActive`, `Sweep` every five minutes | two time windows, find-then-create, whole records written back |
| Repositories and snapshot (`store/`) | one in-memory state under `store.mu`, one JSON file | Get, List, Create, Update, `NewID`, save after every write, `Load` | a save can fail after the memory has changed; kills and power losses between any two calls |
| Seed and startup (`service/bootstrap.go`, `main.go`) | the first topology | `SeedIfEmpty`, `StartSweepers` | a crash in the middle |
| Configuration and startup check (`config/config.go`, `main.go`) | one `Config` | `FromEnvStrict`, `ParseLevel`, `Validate` | texts that are empty, unparsable, out of bounds or NaN |
| HTTP and audit trail (`httpapi/`, `middleware/`, `service/audit_service.go`, `store/audit_store.go`) | audit entries; trace id and status of each request | the middleware chain, edits, `Fail`, paging | entries are made after the handler and stamped before the lock; panics, repeated trace ids, a list that grows between two pages |
| Overview and polling pages (`service/overview_service.go`, `web/hooks/`) | what a page holds | `Build`, refresh, start, stop | an answer made of several reads; polls that overtake each other, fail, or arrive after the stop |

Interaction: HTTP handlers run one goroutine per request, two sweepers run one
goroutine each. All of them call the repositories, and `store.mu` makes one
repository call atomic. No lock is held from one call to the next, so the
repository call is the unit of interleaving.

What makes each part correct:

- interlocks: every zone of a physical area goes together, each interlocked
  zone is on record, only a confirmed restore ends an interlock, an elevated
  zone is interlocked in the end, equipment is never slowed down;
- alerts: one fresh alert per monitor zone and type, closed only after an
  engineer's disposition, escalated when overdue;
- samples: bounded history that keeps what the credibility window needs,
  credibility judged on the last readings, class and ratio that agree;
- snapshot: what was answered with success survives every crash, the file is
  always the old snapshot or the new one, no two rows share an id;
- HTTP: the service runs with what it was asked for or not at all, each answer
  is on record with its status and trace id, paging through the trail misses
  nothing;
- pages: an answer no request overlapped agrees with itself, an open page
  catches up with the store.

`PROJECT.json` lists all components, modelled or not, and under `hazards` the
places in the code that are hard to test, with the property that covers each.

## 2. Modules

| Module | Models | State and actions |
|---|---|---|
| `CleanroomDomain` | the pure rules of `domain/` | operators only; ratios are hundredths |
| `CleanroomTopology` | ids, areas, configuration, record types | constants with their assumptions |
| `AreaInterlock` | every request about zones, monitors and interlocks as **one atomic step** | `zones`, `monitors`, `interlocks`, `sweep`; one action per handler, the sweeper split into listing and issuing |
| `InterlockRaces` | the same requests as **one step per store call** | adds `pc` (the next store call of a worker) and `local` (the records it has read; its field `before`, the logs as they were when a restore began, is history) |
| `SerialRefinement` | requests one after the other in `InterlockRaces` implement `AreaInterlock` | adds `committed`, the store when all workers were last at rest; `CommitInv`, the inductive invariant of the proof |
| `AlertLifecycle` | alerts, one step per store call | `alerts`, `pc`, `writes` (records to be written back), `queue` of the sweeper |
| `SampleJudgement` | ISO class, process profiles, overrides and their check, ratio, environment ranges, payload checks, invalid share | operators only; counts in thousands |
| `SampleWindow` | judging a sample, raising and resolving the four types of alert, weighing and storing it, losing it to a failed save | `samples` (one list for all monitor zones, as stored), PM flags, `alerts`, `pc` and `sample` of each monitor zone's request; `found` and `arrived` are history |
| `SnapshotStore` | the process around its snapshot file: load, seed, serve, stop, die | `mem`, the `save` in progress call by call, `file` as programs see it and `durable` as the disk has it, `job` (the row a worker stores); `acked` and `refused` are history |
| `Configuration` | every setting: default, parsing, check | operators only; a text is empty, unparsable or a value |
| `ApiServer` | startup, then requests through the middleware chain to handlers that edit a monitor zone, list the audit trail or only read | `phase`, `env`, `config`; `entries` (the trail), `now`; `requests` (each worker's, with the step it is at), `served`; `pager`, a client that pages |
| `Dashboard` | `OverviewService.Build` read by read and the hook `useZones`, beside the requests of `InterlockRaces`, which it extends | `polls` (questions under way), `page` (what the hook holds), `errors` |
| `TopologyFacts` | lemmas about the domain rules that two proof modules share | |
| `AreaInterlockProofs`, `InterlockRacesProofs`, `AlertLifecycleProofs`, `SampleWindowProofs`, `SnapshotStoreProofs`, `ApiServerProofs`, `SerialProofs` | theorems | |
| `MC*` | instances for TLC | |

A step of the fine-grained modules ends right before a store call. For
example `IngestGetZone` is `CleanZones().Get` and the decision of
`applyStateAndInterlock`, `IngestUpdateState` the `Update` that writes the
whole record back. With `SaveMayFail` every write has a second outcome: the
memory has changed, `flushLocked` returns an error and the handler returns
(`store/cleanzone_store.go` `Update`). Operators named `...Unchecked`,
`...Anew` and the like are faulty variants ("Mutant of"); no specification uses
them, they show that each property can fail.

`ApiServer` shows what a request leaves behind on an edit of a monitor zone,
which stands for all services that call `AuditService.Log` as their last step;
what the edit does to the zone is in `InterlockRaces`, and so the other modules
leave audit entries out. The middleware is unfolded into the steps that can
interleave: the handler's store calls, the stamp of an entry, its append.

Abstractions shared by all modules: names, messages, reasons, counts of merged
alerts and generated ids are left out. Durations are clock
ticks that stop counting at the threshold they are compared with; this
loses nothing because the code only asks `>=`. Ids, areas and owners are
constants because no request changes them (`CleanZoneStore.Delete` has no
caller). The operator of a restore stands for its note and time as well:
`InterlockLog.Close` writes the three together. Time 0 is the zero
`CalibrationDue` of a counter that never expires.

## 3. Runs

| Run | Question | Bounds |
|---|---|---|
| `area_interlock` | Do logs and zones agree, is a restore the only way out, does ventilation only rise, is every elevated zone interlocked in the end, with a sweeper that uses a stale list? | 2 areas, 3 zones, 2 monitor zones, 2 logs, ratios 0 / 1.2 / 3.2 |
| `serial_refinement` | Do store calls of non-overlapping requests add up to the atomic requests? | the same areas, zones and a monitor zone created late, with and without a calibration date |
| `interlock_races` | What survives overlap at every store call? | 2 workers, 2 operators, 1 area of 2 zones, 1 monitor zone, 1 log, ratios 0.5 / 1.2 and the limit |
| `save_failures` | What survives a failed save after any write? | 1 requester and the sweeper, 2 logs, a zone and a monitor zone created late |
| `alert_lifecycle` | Dedup, closing, dispositions, one request at a time, failing saves | 2 keys, 3 alerts, windows of 2 and 3 ticks |
| `alert_races` | Dispositions and escalation under overlap | 2 requesters and the sweeper, 2 alerts, windows of 1 and 2 ticks |
| `sample_window` | Which samples stay, and which of them is credibility judged on? | 2 monitor zones, window 3, 2 stored samples each, timestamps 2 and 3 in any order, one counter past its calibration date |
| `sample_alerts` | Do the alerts say what the readings found, and do the judgements of one sample agree? | 1 monitor zone with overrides, window 2, 1 stored sample, 3 counts x 5 environments (one of which the handler refuses) x timestamps 3 and 4, the second past the calibration date |
| `snapshot_store` | What survives kills, power losses, a damaged file and failing saves? Is every writer answered? | 2 requesters, 3 requests, 3 starts, 2 zones and a sample as fixtures |
| `api_server` | Is only what was asked for served, is each answer on record, does paging miss nothing? | 11 environments, 2 workers, 3 requests, 3 earlier entries, 1 clock tick, pages of two (by default or capped), of everything and with an unparsable limit |
| `dashboard` | When do the numbers of an overview agree, and does the page catch up? | 1 zone and 1 monitor zone created on the way, 1 log, 2 polls under way, 1 of them failing |
| `interlock_overwritten` | *violated*: stored statuses follow the state machine | 2 workers, a sample and an interlock |

Why the bounds suffice. Two zones in an area are needed to tell the whole area
from the trigger zone, a second area to see that it is left alone, and ratios
on both sides of 1.0 and of the limit to take every branch. Two overlapping
workers are the smallest set in which one writes back what the other has
changed. One log is enough for restores to overlap on, and two operators tell
who signed it; two logs let an area be interlocked again after a restore. The dedup
window is shorter than the escalation window, as configured, and both are long
enough for an event inside and one outside. A window one larger than the
stored history makes every append trim and still read all that is stored; one
invalid sample of two hits the threshold exactly. Three lives of the service
let a crash leave something behind, a restart build on it and a second crash
test what was built; two zones let a crash fall inside the seed. Two requests
can share a trace id and overlap while the third pages; three earlier entries
make a full page and one that ends early; one tick lets an entry be stamped
before and appended after another. One environment passes every check with
texts at a bound, each of the others fails one check. Two polls are the fewest that overtake each other.
`MaxLogs`, `MaxAlerts`, `MaxRequests`, `MaxStarts`, `MaxTime` and `MaxErrors`
are bounds of the models alone: a request that would exceed one stops before
its first write or does not come.

`CHECK_DEADLOCK FALSE` is used by `save_failures` and `serial_refinement`,
where a request stopped by `MaxLogs` stops the model, by `snapshot_store`,
where the service stays off after its last start, and by `api_server`, where
nothing is left to do after the last request or a rejected configuration.

### Fairness

- `AreaInterlock!Fairness`: the clock, the sweeper's listing and the issue of
  what is listed. `time.Ticker` drives `ZoneSweeper.Run`, and nothing else is
  waited for. No fairness on requests: they may never come.
- `AlertLifecycle!Fairness`: the clock, started requests, and the sweeper.

- `SnapshotStore!Fairness`: a goroutine that waits for `store.mu` gets it, one
  that holds it goes on. Weak fairness is enough because `MaxRequests` bounds
  those who come before; `sync.RWMutex` itself starves no writer. No fairness
  on starts, failures or crashes.

- `Dashboard!DashboardFairness`: `setInterval` asks as long as the page is
  mounted, and a poll is answered, by data or by an error, in the end. No
  fairness on requests or on the page being opened.

`InterlockRaces` states no fairness: its properties are about safety only.

Strong fairness is not used.

### Where the code and its documents part

`interlock_overwritten` is the run that finds one: `Process` reads the zone,
and its state update (`service/ingest_service.go:243`) writes the whole record.
An interlock that falls in between is overwritten with elevated or normal,
although the comment at lines 234-235 has it stay until a restore.

Others were met while modelling. No run is kept for them; the models have the
behaviour, and the properties are stated so as not to claim the contrary:

- `IssueForArea` and `Restore` of one area interleave zone by zone and leave
  the area divided, against rule 6 (`service/interlock_service.go:26`).
- Two restores of one area that overlap list the same open log, and the later
  one writes its operator, note and time over the first one's
  (`service/interlock_service.go:171`). No document forbids it.
- `Merge` moves `CreatedAt` (`domain/alert.go:74`), from which the escalation
  window is measured (`domain/alert.go:124`); an alert raised again in time is
  never escalated, against the one-hour rule (`README.md:11`).
- data_quality alerts are resolved only while the window still holds an invalid
  sample (`service/ingest_service.go:194`): one acknowledged later stays open,
  against `service/alert_service.go:103`.
- `validateThresholds` compares overrides only where both ends are given
  (`httpapi/zone_handler.go:193`); one end beyond the default of the other
  makes an empty range, which no reading is ever in.
- NaN is a float64 that `ParseFloat` reads and no comparison of `Validate`
  (`config/config.go:227`) rejects.
- A handler that panics leaves no http.request entry, although
  `middleware/audit.go:11` speaks of every request; panic recovery sits outside
  the audit middleware.
- An edit whose save fails stays in memory and is answered 500, without a
  business entry (`store/`, `Update`); the next save makes it durable.

The passing runs say what remains true in spite of these. Under overlap no zone
is stored as over_limit, and every interlocked zone is named by a log or by a
request about to write one. A restore leaves none of the logs open that it found
open, and no log is signed for a restore that began after it was closed. Every
answer is on record, and no alert is closed without a disposition.

## 4. Proofs

All theorems are about the specifications TLC checks, for every value of the
constants that satisfies `TopologyAssumption` and `ConfigAssumption`
(`CleanroomTopology`), `RaceAssumption` (`InterlockRaces`), `AlertAssumption`
(`AlertLifecycle`), `SampleAssumption` (`SampleWindow`), `SnapshotAssumption`
(`SnapshotStore`) or `NaNAssumption` and `ServerAssumption` (`Configuration`,
`ApiServer`): the topology is consistent, thresholds are as `Config.Validate`
demands, reported counts and environments are integers and stored limits
naturals, names of fixtures and of trace ids are not numbers.

`AreaInterlockProofs`

- `TypeCorrect`: `Spec => []TypeOK`, with fan speed and fresh air in 0..100.
- `InvariantHolds`: the inductive invariant `IInv`. `OpenLogIffInterlocked` is
  not inductive: a step that interlocks a zone needs to know that the log it
  adds names zones of that area (`LogsNameTheirArea`), and a sample must be
  unable to leave interlocked, which takes `NeverOverLimit` out of the
  statuses to consider. `StepKinds` sorts the actions into three kinds (the
  area is interlocked with a new log; the area is restored with all its logs
  closed; statuses and logs stay apart from new zones and reclassified ones),
  and one lemma per kind preserves the invariant.
- `LogsMatchZones`, `AffectedStayInterlocked`, `OverLimitNeverStored`: its
  consequences, which are the invariants of `area_interlock`.
- `RestoreIsTheOnlyWayOut`, `VentilationOnlyRises`: its action properties.

`InterlockRacesProofs`, for any number of workers that overlap at every store
call

- `RacesTyped`, `RacesNeverOverLimit`: what a worker writes back is what it
  read, so the inductive invariant says of the records in `local` (`Held`) what
  the property says of the stored ones, step by step of `pc`.
- `OnlyOpenLogsSigned`, failing saves included, and `RestoresCloseLogs`, for
  `SaveMayFail = FALSE` (a failed save ends a restore between two logs).
  `RestoreInv` compares what a restore knows with the logs as they were when it
  began (`before`): an open log was open then, because nothing opens a log
  again, and once it has listed them the logs left to close are all the open
  ones among those and none that was closed. Other workers keep this since they
  only add logs at the end or close some (`LogsStep`).
- `RacesOnRecord`: interlocked zones are on record, for `SaveMayFail = FALSE`
  (a failed save ends a request between its zones and its log). `RecordInv`
  accounts for each interlocked zone by a log or by a worker that is still to
  write one.
- `SerialTransitionsLegal`, `SerialLogsFollow`: for requests one at a time
  (`OneAtATime = TRUE`), any of whose saves may fail. `SerialInv` says that a
  single worker is under way and that what it holds `Follows` from the store,
  as only its own steps have changed it since it was read.

`AlertLifecycleProofs`

- `AlertsTyped`, `NoneClosedUndisposed`: for any number of overlapping
  requests and failing saves, no alert is closed without a disposition. The
  invariant extends the claim to the records workers are about to write.
- `OneFreshAlert`, `ClosedThroughAck`, `DispositionsKept`: for requests one at
  a time (`OneAtATime = TRUE`), any of whose saves may fail. `SerialInv` adds
  that a single worker is under way, that the records it is about to write
  follow from what is stored (`Follows`), and that one that is about to create
  an alert has found no fresh one (`RoomFor`).

`SampleWindowProofs`

- `ConditionsStayOnAlert`: a condition that a judged reading found is on alert
  until one clears it, for any readings, overrides and order of requests.
- `WorseSizeAlwaysWins`, `DirtierIsElevated`: classification and ratio, for
  every count rather than the three of the run, through the inductive
  `JudgedInv` (a sample under way carries what it was judged to be) and the
  limit table row by row.

- `SamplesTyped`: types, which for a request under way say that whatever the
  handler lets through is classified, has a ratio and an environment in range.
- `StoredAreLatest`: `Append` and `trimLocked` work on one list of all monitor
  zones, the property is about one of them. What is stored of a zone is
  `Subsequence(samples, OfMonitor(samples, m))`. Lemmas about positions
  (`NthFacts`: the k-th position of a finite set is the only one of rank k;
  `PickedTwice`: picking from what was picked is picking at the common
  positions) give `StoredAppended`: another zone's append moves positions
  about and picks the same samples, the zone's own adds one at the end and
  drops the first ones. `WindowInv` then compares the stored samples with the
  arrivals from their ends (`Latest`), where a drop at the front of either
  disturbs nothing. The property alone is not inductive: it says nothing of
  how many arrivals are remembered while the list is short.
- `CredibilityIsOfLastReadings`: where timestamps ascend, the samples that
  `ListByMonitorZone` sorts first are the last ones by position, hence the last
  arrivals, and as many of them are invalid (`RecentFacts`). `CredibleInv`
  carries the judgement from the step that makes it to the store of the
  sample, past the appends of other zones.

`ApiServerProofs`

- `RunsAsConfigured`: a service that answers runs as its environment asks.
- `ServerTyped`, `EveryAnswerOnRecord`: any number of workers, trace ids and
  failing saves. `IInv` adds that a request under way has no http.request entry
  yet but its business entry if it needs one (`WorkOK`), and that no two
  requests have one number.

- `PagerSeesAll`: paging through a trail that grows between two pages passes
  nothing over. `List` sorts the newest first; the position of an entry is the
  number of those listed before it. The trail is only appended to, so an
  entry's position can only grow (`PositionGrows`), and `PagerInv` says of each
  entry that was there at the start that it has been seen or stands at or
  behind the offset of the next page. `Paginate` returns every position from
  its offset to its end, and the next offset is that end.

`SerialProofs`, for `OneAtATime = TRUE` and `SaveMayFail = FALSE` (a failed save
leaves interlocked zones without a log, so neither result holds with it), any
topology and any number of workers

- `SerialRequestsAtomic`: `SerialSpec => ImplementsAreaInterlock`, the
  refinement. The abstract state is `committed`, which stands still while a
  request is under way and moves when its last store call is done. `CommitInv`
  says what the store is meanwhile: `committed` with the writes done so far,
  which the records in `local` determine. That is one case per kind of
  request: an area being interlocked has the zones before the current one
  interlocked and the monitor zones before it ventilated, an area being
  restored has its logs closed up to the current one, and so on. One lemma per
  action (`...Simulated`) shows that the concrete step keeps this and, where it
  is the last of its request, that the store is the one an action of
  `AreaInterlock` yields. The sweeper's queue is part of
  the abstract state, so listing candidates is a step of its own.
- `QuietOverviewsAgree`, for any number of polls. `AgreeInv` says that an area
  has an open log exactly when one of its zones is interlocked, unless a
  request is at work on it; a step keeps this because the area it disturbs is
  its own (`InItsArea`). `PollInv`
  says that what a calm poll has read is still what the store holds.

`TopologyFacts` holds what the rules of `domain/` return for stored records.

`SnapshotStoreProofs`

- `SnapshotTyped`, `NeverTorn`, `ReadersSeeTheFile`, `IdsNeverReused`,
  `DiskAdvances`: every safety property of `snapshot_store`, for any fixtures and
  any number of workers; `AckedKept` alone for `DirSyncMayFail = FALSE`.
  `IdsNeverReused` covers the rows in memory, in the file and on the disk
  together: those are all the rows a start can find or a request can add to.
- `SnapshotInvariant`: the inductive invariant `IInv`. None of the properties
  is inductive: a rename makes the file what the memory is, so each needs to
  know that the memory is ahead of the file and the file ahead of the disk
  (`AheadInv`), which needs the lock to keep the memory still during a save and
  a seeding main to be alone (`LockInv`). `IdsInv` adds the rows that workers
  hold under ids nobody saved yet.

Only model-checked: liveness (`NoZoneStaysElevated`, `OverdueEscalated`,
`WritersAnswered`, `PageCatchesUp`), which is out of the prover's reach. Every
invariant, action property and refinement that a passing run checks is also a
theorem, under the hypotheses named above.

## 5. Not modelled, and limits

- `DispositionKept`, `ClosedOnlyFromAcknowledged` and `OneFreshAlertPerKey` are claimed for requests that
  do not overlap. Overlapping ones write back old records, so an
  acknowledgement can be undone and two fresh alerts can exist; `alert_races`
  claims what is left.
- `RestoreClosesLogs` is about the logs that were open when the restore began.
  An interlock that overlaps with the restore can leave its own log open over
  restored zones, or see it closed over interlocked ones; a failed save leaves
  zones interlocked without log and commands, or logs open over restored zones.
  No property excludes these states, which the code reaches, and
  `OpenLogIffInterlocked` is claimed for requests that do not overlap and do not
  fail.
- `AffectedZonesInterlocked` says nothing of a clean zone created in an
  interlocked area: no log names it, and it starts as normal.
- `NoZoneStaysElevated` ends at `MaxLogs`: the models cannot follow an
  unbounded history of interlocks.
- In `SampleWindow` the readings of one monitor zone do not overlap, and
  `SetMaintenance` is one step. Credibility is claimed for monitor zones whose
  stored samples are in order; with late ones the code takes the current
  sample for the newest, and the trim goes by arrival.
- In `SnapshotStore` rows are only added: updates, the sample trim and the
  delete nobody calls go through the same `flushLocked`. `AckedSurvive` and
  `SnapshotsAdvance` therefore do not hold of samples once the trim removes them
  (`store/sample_store.go:40`). `AckedSurvive`, but not `IdsUnique`, takes the
  directory fsync to succeed (`DirSyncMayFail = FALSE`): the code drops its error (`store/store.go:161`), and with TRUE a power loss
  can undo a rename that was answered with success. A kill during the seed
  leaves a part of the fixtures, which the next start takes for a seeded store
  (`service/bootstrap.go:34`): the model has these states and no property
  excludes them. Left-over temporary files are not part of the state.
- An alert that is acknowledged after the sweeper listed it is escalated all
  the same (`service/escalate_sweeper.go:56`, `domain/alert.go:97`); the
  properties of `AlertLifecycle` allow for it.
- `ApiServer` has one pager at a time and one kind of edit. An id in a request
  is stored or not; checks of names, ids and bodies beyond "decodes or not" are
  left out. Entries are compared by their stamps, whose resolution is one tick.
  Security headers, log lines and the wording of envelopes have no state.
- `Dashboard` has zones, monitor zones and interlocks; the counts of active
  alerts and the latest samples of the overview are further reads of the same
  kind. `QuietOverviewAgrees` is claimed for answers that no request overlapped.
  `useAlerts` is the twin of `useZones`. Rendering is left out.
- What can be counted on of `ratio` ends at finite numbers: a limit override so
  small that the ratio overflows is outside the models, whose ratios are
  naturals.

## 6. Plan

Done: the modules above in the order domain rules, atomic interlocks, store
calls, refinement, alerts, samples, snapshot, configuration, server, dashboard;
proofs of every safety property in them.

Next, in this order:

1. An abstract store whose restarts lose no acknowledged write, implemented
   by `SnapshotStore`; rows that are replaced as well as added.
2. What a failed save leaves of the refinement: the requests of
   `AreaInterlock` cut off after any of their writes, implemented by
   `InterlockRaces` with `SaveMayFail`.
3. An abstract alert book that `AlertLifecycle` implements one request at a
   time.
4. The other business entries of the audit trail, one per service.
