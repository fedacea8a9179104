# GeoLoom in TLA+

GeoLoom collects proxy nodes from subscriptions, locates and filters them by
country, runs the accepted ones in an embedded sing-box core behind one SOCKS
port, and keeps probing them so that failing ones are left out. This directory
models its control logic: what the goroutines do to the state they share, what
a node's history decides, how the core is replaced while it serves, and what
the management API and the console make of it all.

Every module says at its top which file it models; `PROJECT.json` maps each
definition to source lines and lists hazards, runs, findings and theorems.

## The system

| Part | Code | State | Operations | Talks to |
| --- | --- | --- | --- | --- |
| Bootstrap | `cmd/geoloom`, `internal/app/bootstrap.go` | - | load config, start the runtime, wait for the signal, close | runtime, API |
| Runtime | `internal/app/runtime.go` | the published snapshot | `Start`, `RefreshOnce`, `applyCandidates`, `Close`, payloads for the API | everything |
| Refresher | `internal/app/refresher.go` | ticker | `RefreshOnce` per tick | runtime |
| Health checker | `internal/health/checker.go` | monitored nodes, statuses, last candidates, last rebuild | `SetNodes`, one round per tick, `Snapshot`, `RestoreSnapshot` | penalty pool, runtime (callback) |
| Penalty pool | `internal/health/penalty_pool.go` | map key -> deadline, RWMutex | `MarkFailure`, `MarkSuccess`, filter, `Snapshot`, `Restore` | - |
| Core service | `internal/core/singbox/service.go` | current instance, build stats, mutex | `Start`, `Rebuild`, `Close`, `LastBuildStats` | options builder, sing-box |
| Options builder | `internal/core/singbox/options_builder.go` | build stats | `Build` | - |
| Random group | `internal/core/singbox/random_group.go` | weights | weighted pick per connection | sing-box |
| State store | `internal/state/store.go` | JSON file | `Load`, `Save` | - |
| Source pipeline | `internal/provider`, `internal/domain`, `internal/geo`, `internal/net`, `internal/filter` | country cache | fetch, detect, parse, deduplicate, locate, filter | network, MMDB |
| Log buffer | `internal/observability` | ring of entries | append, snapshot | slog |
| Configuration | `internal/config` | - | load, validate, normalise | - |
| Management API | `internal/api`, payloads in `internal/app/runtime.go` | - | check the header, answer with JSON | runtime, log buffer |
| Console | `frontend/src` | per tab: settings and draft, snapshot, loading, error, page, filter, keyword; shared: localStorage | refresh, edit, save, reload, navigate, filter, search | API |

Three goroutines act on shared state once the program runs: the refresher, the
checker, and `main` at shutdown (API handlers only read, and every one of them
logs into the ring). The refresher and the
checker meet in three places, each with its own lock and none with a lock
around all three: the core service, `Runtime.snapshot`, and the checker's node
list and statuses. What is hard about the program follows from that: rebuilds
from two sides, lists that are outdated when they are used, clocks read before
locks are taken, an instance that must be closed before its successor can have
the port, and health data that is spread over two stores. The console adds
promises that settle in any order, settings that live in three places, and
figures that are computed twice, in Go and in TypeScript.

What makes each part correct:

* penalty pool - a penalty lasts one window, is lifted only by a success or by
  time, and the filter returns nodes that were free, or all of them;
* core service - one instance at most holds the port, nothing leaks, every call
  returns, and the statistics are those of the running instance;
* health score - a failing node ranks last at once, a success never hurts, and old
  failures are held against a node for good;
* checker - a round hands over the nodes that answered, best first, and others only
  when their penalty is over; no history is lost and a new order reaches the core;
* source pipeline - no source spoils another, merging is exact, every node that
  was read is accounted for, and nothing gets past an allow list;
* options builder and random group - tags are unique, weights stay with their
  nodes, a pick is proportional, the hybrid pool is the best K;
* state store - what is restored was saved in one piece, and its penalties are
  not older than its statuses;
* runtime - Start is never refused, removed nodes
  leave, every node in the core is probed, and the rebuilds come to rest;
* log buffer - the latest entries in order, wherever the ring stands;
* API and console - the screen tells how the refreshes ended, a reload makes the
  same requests, no list a page walks is null, nothing is hidden without its
  reason on the screen, and figures agree with the lists they count.

## The modules

```
PenaltyLedger <--refines-- PenaltyPool <- PenaltyPoolMC        PenaltyPool_proofs
CoreLifecycle <--refines-- SingboxService                      SingboxService_proofs
HealthScore <- ProbeHistory <--refines--\
HealthScore <- HealthChecker ------------/ <- HealthCheckerMC  HealthChecker_proofs
Runtime <- RuntimeMC                                           Runtime_proofs
StateStore <- StateStoreMC                                     Runtime_proofs
Lists                                                          Lists_proofs
Lists <- SourceContent <- SourcePipeline <- SourcePipelineMC   SourcePipeline_proofs
HealthScore <- OptionsBuilder <- OptionsBuilderMC              OptionsBuilder_proofs
LogHistory <--refines-- LogBuffer                              Console_proofs
ConsoleApi <- Console <- ConsoleMC                             Console_proofs
HealthScore, LogBuffer, Lists <- ConsolePages <- ConsolePagesMC Console_proofs
```

**PenaltyLedger** is the promise of the pool: deadlines, failures, successes,
time. **PenaltyPool** is the code. `penaltyUntil` reads the clock (`ReadClock`),
then the map under the read lock (`ReadPenalty`), then, for an expired entry,
looks again under the write lock (`Sweep`); each is an action, so that any other
goroutine may act in between. `MarkFailure` is split at the same place. Only one
goroutine marks results (`Checker`), any may filter: this is the contract that the
type's lock offers. In the program as it is the checker's goroutine makes all of these
calls, and only `Snapshot` comes from others, so the races are ones a second caller
would meet. A deadline of 0 is an
absent key. `LedgerSpec` is the refinement: entries the clock has passed count
as absent.

**CoreLifecycle** is what users of the core may assume: down, or serving one
list, and never from one list to another without being down. **SingboxService**
is the code: a call locks (`LockStart`, `LockClose`), closes the old instance,
builds options, creates and starts an instance, and closes it again if the start
fails; each step is an action and each may fail. Instances are numbered and may
be absent, created, half started, up or closed. That `Close` of an instance
releases its ports even when it reports an error is assumed of sing-box.

**HealthScore** has the operators of `computeScore`, the counters, the buckets
and the random weights. The timestamps of a status are left out: the last
failure is later than the last success exactly when `ConsecutiveFailures > 0`.
`SuccessCount` is kept up to 4, the most that counts. **ProbeHistory** is one
node's life under them, from a fresh status or from whatever `RestoreSnapshot` finds
in the state file (`Restorable`): any counters that probes leave, with the score that
goes with them or with none, as in the files of older versions, which `Load` takes as
a score of 0, and with a penalty window or without. Every node of HealthChecker leads
such a life (`EveryNodeHasOneLife`).

**HealthChecker** is the checker's goroutine with time in ticks: `BeginRound`,
then for each node `Probe` (the answer, read with the old status, marks the
pool) and `Record` (score and status written), then `Filter`, `Sort`, `Decide`
(`shouldRebuild`) and `Rebuild` (the callback). `RefreshSetsNodes` may happen
between any two of them. Time passes while a probe is under way, between rounds,
during a rebuild, and by one tick between the filter's clock reading and the
sort's. The pool is used as the ledger describes it, which `LedgerSpec`
justifies. Local variables are reset when they go out of scope. In an initial state
each node has, independently, a status of `Saved` or none and a window with any of its
time left or none, because the file holds statuses and penalties that were read one
after the other. `Saved` is any set of `Restorable` statuses; the run has one without a
score and one of a failure, the proofs any. Nothing bounds the length of a round: if it
outlasts a window (`RoundFitsWindow` is false) the penalties of nodes that failed early
in it are over when the filter runs, and `Admissible` says what is handed over then.
`applied` and `refused` are history: the order that `rebuildFn` last took, and whether
its last call failed.

**Runtime** composes the two rebuilders: `Collect`, `Compare`, `RefreshApplies`,
`RefreshMonitors`, `Publish` are `RefreshOnce`; `BeginRound`, `Probe`,
`EndRound`, `CheckerApplies`, `CheckerMonitors` are a round and its callback;
`StartChecker` is the end of `Start`. It has no clock. The parts below it appear
as their own modules show them to be, and its header names the properties it
relies on: a core call is atomic (the mutex; `OneBoxHoldsPorts`), a round's
candidates are the nodes without a penalty or all (`CandidatesAreRight`), scores fall on
failure and do not on success (`FailingNodesAreLast`, `SuccessNeverHurts`). As a round
marks every node it passes, its candidates depend on the pool only through the penalties
it has imposed itself: `failed` are these nodes, and `EndRound` may find the penalties
of any of them over, as happens when a round outlasts a window (`ForgivenInRound`).

**StateStore** is the state file: `ReadStatuses` and `ReadPenalties` are
`flushState`, `Lock` to `WriteEnd` are `Save`, `Restore` is `Load` and what
`NewRuntime` does with it. The file is its text in three pieces. Instead of
contents there are versions: each probe makes a new version of the pool, then of
the statuses. `Kill` may come between any two steps, `Signal` and `Exit` are the
orderly end. **StateStoreMC** adds the snapshots that were collected.

**OptionsBuilder** is `Build`, one action per turn of its loops (`SkipNode`,
`AddNode`, `IncludeTied`) and per way out (`RefuseList`, `NoneSupported`,
`FinishBuild`), and the group of the core it makes (`Pick`). A node is what the
builder looks at: id, protocol, whether address and options are valid, transport,
score. A tag is an id and a number; number 1 is the bare id. An outbound is told
by the node it was made from. Looking an outbound up by its tag is done as in
sing-box's manager, where the last one with a tag wins. The random number of a
pick is any in its range, and the node's name is left out. `cfg.Gateway` is valid
(config validation), so its two checks at the top of `Build` never fail.

**Lists** has what Go and JavaScript do with a list in a line: `Arranged` is a set in
an order, `Sublist` what a filter keeps, `Distinct` each value once. They are
defined by the members and the order of the result, not by a loop, so that the
models that use them can be proved about.

**SourceContent** says what a source's content yields: a content is a text with
lines, a base64 list or a document, and a link is told by its node, its label and
whether its parser takes it. **SourcePipeline** is the first half of a refresh, one
action per turn of its loops: `FetchSource`, `FetchFails`, `ReadNode`, `Collected`
(`collectNodesDetailed`), `KeepNode`, `MergeNode` (`DedupNodes`), `Prepare` to
`Located` (`applyGeo` with its download), `Accept` and `Drop` (the filter). Only
one refresh runs at a time; what it leaves to the next is the database file.
Its end, `Publish`, is where Runtime's `Collect` begins: Runtime's `offered` are
its candidates.

**LogHistory** is the promise of the log buffer: at most so many latest entries,
oldest first. **LogBuffer** is the ring; `Append` and `Snapshot` hold its lock all
along, so `AppendEntry` is one step and `Items` what a reader gets. The refinement
maps the history to `Items`.

**ConsoleApi** is `lib/api.ts` up to the request: `LoadConnectionSettings` with its
defaults, `RequestOf` (base, header, token), and `Outcomes`, the ways a request may
end given the server's header check (`Authorized`). A text of a field is told by its
trimmed word and by whether it is padded, for the code trims on request and not on
saving. **Console** is one tab: `Begin` is the head of `refresh`, `Answer` one of the
answers of `Promise.all`, `Succeed` the last of them with everything after the
`await`, `Fail` the first that is none with `catch` and `finally`. Any number of
refreshes may be under way. `Edit`, `ApplyConnection`, `RefreshClicked` and `Reload`
are the user, `OtherTabSaves` and `ServerPublishes` the rest of the world. The
variable `same` says that settings and draft are one object: the effect that starts a
refresh after a save looks at the object, so saving an untouched form again does
nothing. The double effect of StrictMode exists in development only and is left out.

**ConsolePages** goes from the runtime to the screen: `Publish` is what a refresh
publishes, `StatusPayload` to `LogsPayload` what the API makes of it (an empty list
is null), `FetchSnapshot` and `NormalizeHealthResponse` what the console keeps,
`SortedItems`, `TierItems`, `FilteredItems`, `Rank`, `QualityTier`, `QualityState`,
`Filtered`, `StatusPage`, `HealthPage` and `LogsPage` what the pages show. The actions are the
user's (`Navigate`, `ToggleTier`, `ClearTier`, `Search`) and the ends of refreshes,
whose answers may come from two snapshots. It takes `Ready`, `ScoreBucket` and the
range of a score from HealthScore and the log's items from LogBuffer, so that both
languages' thresholds meet in one module. Where React keeps state is in `Component`
and `Unmounted`: Nodes and Candidates are one component at one place and share filter
and keyword; a loading card takes the page away and its state with it.

Operators named `Mutant...` are wrong variants of the definition that follows
them; nothing in the models uses them. `PROJECT.json` says which property each
of them breaks, so that every property is known to be able to fail.

## The runs

| Run | Module, configuration | Bounds | Checks |
| --- | --- | --- | --- |
| `penalty_pool` | `PenaltyPoolMC` | 2 callers, 2 nodes, see cfg | `FilterAnswersTruly`, `PenaltyStands`, `LedgerSpec` |
| `service` | `SingboxService` | 2 callers, 2 lists, 3 instances | types, `OneBoxHoldsPorts`, `NothingLeaks`, `StatsDescribeCurrent`, `LifecycleSpec`, `EveryCallReturns` |
| `probe_history` | `ProbeHistory` | 24 failures, every restorable history | `OldFailuresStay` (with the types), `FailingNodesAreLast`, `SuccessNeverHurts` |
| `health_checker` | `HealthChecker` | 3 nodes, lists of 1, 2 and 3, 2 saved statuses, window 2, probe 1, debounce 1, clock 4, 2 probes a node | `CandidatesAreRight` (with the types), `PenaltyShowsInScore`, `HistoryIsKept`, `NewOrderIsApplied` |
| `runtime` | `Runtime` | 2 nodes, no state file, 1 change of the world | `StartNeverRefused` (with the types), `CoreFollowsWorld`, `Settles` |
| `runtime_penalty` | `RuntimePenalty` | a world that never changes | finds `FailedNodesLeave` violated |
| `state_store` | `StateStore` | 2 probes, 2 restarts, writes may fail | `PenaltiesNotOlder` (with the types), `FileIsOneSnapshot`, `ShutdownEnds` |
| `core_build` | `OptionsBuilder` | every list of at most 4 out of 7 nodes, all strategies, K of 0, 1, 2 | types, `TagsDistinct`, `CoreMatchesList`, `WeightsFollowScores`, `PickIsProportional`, `RankedPoolIsBest` |
| `source_pipeline` | `SourcePipeline` | 3 sources, 9 contents, 3 nodes, 3 filters, the database absent, damaged or intact | `ListsAreRead`, `DedupIsExact`, `EveryNodeIsAccountedFor` (with the types), `FilterHolds` |
| `console` | `Console` | 3 refreshes, 2 resources, 2 versions, 3 contents of localStorage, 1 other tab | `ScreenTells`, `ReloadChangesNothing`, `WaitsEnd` |
| `console_late` | `ConsoleLate` | same | finds `LastRefreshDecides` violated |
| `console_pages` | `ConsolePages` | 2 nodes, 5 refreshes, a ring of 2, 2 kinds of entries, 2 keywords | `CastsAreTrue`, `RowsTellTruth`, `NothingHiddenSilently`, `CountsAgree`, `HistorySpec` |

Why the bounds are enough. The races of the pool need one node, two goroutines
and a clock that passes one window; a second node is there for the fallback.
The service needs a caller that waits while another fails, and calls often
enough to find what the failure left. The score is constant from 22 failures on. A round
needs two nodes to differ in outcome, and three for one that outlasts a window of two
ticks while the shorter ones fit; the clock must be long enough for a penalty of the
first round to end in a later one. The runtime
needs a node that stays and one that leaves or fails; in a refresh, order and
score buckets are compared, and the two nodes have opposite orders by source and
by key so that both matter. Four nodes give
skips, repeats and ties on both sides of a cut at 1 and 2, and the default cut at 3;
scores 100, 60 and 5 have different weights. A mixture of two saved states shows with two versions,
and what a restart does to the next saving with one restart. The pipeline needs a source that fails between two that work, the
same node from two sources under two labels, a node with addresses in two
countries and one without any, and each kind of content with its odd cases: a link
in a comment, a bare address, a bad link, a document that does not parse, more rows
than links. In the console two refreshes cross in every order and a third is begun
after them; two resources tell answers of one version from a mixture; what is typed
and stored has a padded token, a cleared header, a header HTTP refuses, a base with
a slash and fields that are missing. The pages need scores on both sides of every
threshold (0, 39, 40, 70, 80, 90, and 100 for a node without a status), ties, a
refresh that the filter leaves without a candidate, and a ring that wraps.

Deadlock is checked except in the runs of the runtime and of the store: a
program whose first refresh fails exits, and so does one that is stopped.

### Fairness

`SingboxService!FairSpec`: a goroutine inside the lock keeps running (weak
fairness), and one that waits for it gets it eventually if it keeps becoming
free (strong fairness): Go's `sync.Mutex` goes into starvation mode and hands
itself to the longest waiter. Calls themselves are not forced to happen.

`Runtime!FairSpec`: weak fairness for each goroutine, that is, the two tickers
keep firing and the steps between them end (network calls have timeouts), and
for the debounce time to pass. As `Collect` stands for a refresh that finds
candidates, this also assumes that a source which has some does not fail for
ever. Nothing is assumed of rebuilds: they may fail at every turn, and a core
that is down satisfies `CoreFollowsWorld`. The changes
of the world are not forced. Nothing makes rounds shorter than penalties either; if
they keep outlasting them, failed nodes come and go with every round. That is
excepted by name (`ForgivenInRound`) from `CoreFollowsWorld` and `Settles`, and from
what `FailedNodesLeave` claims: with 5 s a probe and a window of 300 s it takes more
than 60 nodes (README.md:692 has an example with 200).

`StateStore!FairSpec`: each flusher goes on and main, once in `Close`, gets the
store's lock if it keeps becoming free. Signals and kills are not forced.

`Console!FairSpec`: while a refresh is under way, some request is answered or given
up by the browser in the end. The code sets no timeout of its own, so this rests on
the browser and the operating system. The user and the server are not forced.

The pipeline has no fairness of its own. Requests to sources and for names have
timeouts, so a refresh ends; but the download of the country database has none, and
a server that never answers holds the refresher for good. The fairness of Runtime
leaves that case out.

### What the violated properties show

* `FailedNodesLeave` - a node that never answers, in a world that never
  changes, ends up in the core for good. Its first failure makes the checker
  rebuild without it; the next refresh sees its bucket change and rebuilds with
  all candidates; every later round of the checker ends with the list it handed
  over last and so does nothing. The document wants it out for 300 seconds.
* `LastRefreshDecides` - the README says that after saving the right token, when the
  requests are answered with 200, the console changes to connected. A refresh never
  asks whether it is still the latest one: if an older one fails late, it takes the
  page away and leaves its error, although the newer one has succeeded and nothing
  is under way; and an older error is not cleared by a later success. What holds in
  every order is in `ScreenTells`.

More that the documents say otherwise or that one may not expect, seen while
modelling and without a run of its own:

* README.md:37 says of the hybrid strategy that it first narrows down to the
  high-quality candidates; the builder takes the first K of the list, and a refresh
  hands over a list that is not sorted. For the checker's lists, which are,
  `RankedPoolIsBest` holds (and is proved).
* CHANGELOG.md:10 says that a change of score bucket triggers a rebuild. The refresh
  does so; the checker computes the *old* signature from the *new* scores, so only ids
  and their order matter to it, and a node whose bucket changes without changing its
  place keeps its old weight until a refresh. `NewOrderIsApplied` speaks of orders only.
* An order whose rebuild failed is not tried again: `lastCandidates` was set before, and
  the error is dropped (checker.go:195). `NewOrderIsApplied` excepts it (`refused`).
* README.md:696 says that a text means the same in a file and in a remote source. A
  remote text is read twice, by lines and by the links that occur anywhere, and the
  longer list wins: a link in a comment and a bare `host:port` give the commented
  node. When comments hide no link, nothing is lost; when they do, the source at
  least counts as many links as there are outside comments (`ListsAreRead`).
* docs/geoloom.prd.md:129 calls the replacement of the core seamless, but
  `Rebuild` closes the old instance first, so it passes through "down"
  (`LifecycleSpec` requires it) and stays there if the new one cannot be built
  or started; nobody tries again until a list changes.
* README.md:261 says `/api/v1/candidates` answers which nodes really take part; it
  shows the last refresh, and the checker's rebuilds are not in it.
* README.md:41 promises that health is restored. `Close` saves it but does not wait
  for the refresher, whose own flush may have truncated the file when main returns.
* A base64 list broken into rows, with more rows than links, is taken for a list of
  lines and fails (README.md:700 describes base64 lists without that limit).
  `ListsAreRead` says so.
* A text in which `proxies:` occurs is handled as a document and never falls back to
  lines, also when it is not YAML at all (`ListsAreRead` again).
* README.md:50 promises the last state of each source, but a refresh that ends
  without candidates publishes none of it.
* A download of the database that is cut off, or is a web page with status 200,
  stays under the default path for good, so that geography is skipped from then on:
  with an allow list every refresh fails, with a block list alone nothing is blocked.
  A node that cannot be located, by contrast, is left out.
* In the console, the loading card goes with the first refresh that settles, also
  when another one is still under way; an error keeps the language of the moment its
  refresh was started; and a failed source without `input_type` is found by
  searching for "undefined".
* One page may be put together from answers of two published snapshots; its totals
  then differ from its lists. They agree whenever the answers come from one
  (`CountsAgree`).

## The proofs

TLAPS proves, for every number of nodes, callers and instances and every window:

* `PenaltyPool_proofs`: `TypeCorrect`, `WindowBound`, `PenaltiesStand`,
  `ImplementsLedger`, `FilterIsTruthful`. The bound on deadlines is not inductive
  alone: a failure is written with a reading of the clock that may be old, so the
  invariant adds `StampsArePast` (readings are never ahead of the clock). With it,
  `Sweep` removes only entries that have expired now, not merely at the old reading,
  which is also why it maps to a stutter of the ledger. `FilterIsTruthful` is about
  the module with the history of each filter call: what a caller has noted of each
  node so far was the truth at some moment since its call began.
* `SingboxService_proofs`: `TypeCorrect`, `MutualExclusion`, `NoLeak`,
  `StatsCorrect`, `ImplementsLifecycle`. The inductive invariant relates the
  position of the lock holder to the state of the instances: before "starting"
  everything is absent or closed; in "closing" only `old` is up; in "starting"
  only `made` is created; in "aborting" only `made` is half up; and outside the
  lock exactly `current` is up.
* `HealthChecker_proofs`, about the checker: `HandsOverTheAnswering`,
  `ScoreShowsPenalty`, `KeepsHistory`, `AppliesNewOrders`, for any nodes, lists, saved
  statuses and times, rounds longer than a window included. The invariant says that for
  each node the round has passed, score and pool agree: it is penalised only if it
  failed; and how much of its window is left at least: one timeout is used up per later
  probe (`WindowsLast`). So when the filter runs only failed nodes are penalised, and
  all of them if the round fits into a window. The sorted list has each of the filter's
  nodes once (a count of finite sets), so no node is lost on the way to the rebuild.
  About one node's life: `FailingLast`, `FailuresAreForLife`,
  `SuccessIsMonotone`, for histories of any length from any restored one. The invariant
  says that a failing node is in the lowest bucket and that the stored score is at most
  what its failures leave when every other counter is at its best (`Ceiling`).
  `EveryNodeHasOneLife` joins the two: each node of the checker implements `LifeSpec`, a probe with its record being one
  step of it, so what is proved of one life holds of every node in every interleaving
  with refreshes, rebuilds and the clock.
* `SourcePipeline_proofs`: `Deduplication`, `NothingIsLost`, `FilterCorrect`, for any
  number of sources, links, addresses and configurations. The invariant has one part
  per phase, each about a prefix of the list the phase runs over: the statuses explain
  the raw nodes (`CollectInv`); the merged list stands for the raw nodes passed
  (`DedupInv`, `Merged`), from then on for all of them; every resolved node is in its
  country and none is when the database was skipped, and what is not resolved is
  counted (`LocateInv`, `Resolved`); accepted and dropped divide what the filter has
  passed (`FilterInv`, `Divided`). `FilterCorrect` is not that candidates are the located
  nodes: without a database, nodes without a country pass unless there is an allow list.
  It says what cannot get through, what cannot be dropped, and that a refresh locates
  all of its nodes or none. `ContentsAreRead` is about the content read last
  (`ReadInv`): where comments hide no link, a text read by lines gives every link that
  a search finds; so when the search finds as many the two have the same links, counted
  without repeats, and when it finds fewer the lines win. With hidden links the longer
  reading still has as many entries as there are links outside comments. The rows of a
  base64 list win only when there are more of them than links, and then none of them is a
  node; a document is read in one way only.
* `Lists_proofs`: what the operators of Lists return, for lists of any length. A finite
  ordered set has exactly one member with k members up to it, so `Arranged` is a
  bijection that keeps the order (`ArrangedFacts`); a sublist goes through its
  positions from left to right (`SublistFacts`), and `Distinct` has as many items as
  there are values (`DistinctFacts`).
* `Runtime_proofs`: `StartIsNeverRefused`, for any sources, restored scores and
  changes of the world. The core is started only when it is down because the checker
  is off until the first snapshot is published and only the first refresh finds no
  snapshot (`FirstRefreshInv`); a snapshot that is published is never the empty one
  that stands for "none yet", because a refresh carries at least one node
  (`CarriesNodes`).
  About the state file: `PenaltiesKnowMore`, `OneSnapshot`, for any number of probes and
  restarts. Only the holder of the lock writes, and the file is what it has written
  of its draft (`FileFollowsDraft`); a draft has its statuses first and the pool
  only grows meanwhile (`DraftsOrdered`); a complete draft was collected.
* `OptionsBuilder_proofs`: `TypeCorrect`, `UniqueTags`, `WeightsCorrect`,
  `RankedPool`, `CoreIsTheList`, `PicksFollowWeights`, for any ids, lists of any length
  and every K. The invariant adds that the three result lists stay side by side
  (`Aligned`), that numbers given out do not exceed the count of their id (`TagsBelow`),
  that what was taken from a sorted list is sorted and above the rest (`OrderKept`), and
  that the pool grows over ties only and stops at their end (`PoolGrows`, `PoolClosed`).
  `RankedPool` then counts: a member is beaten by fewer than K nodes, any other by K at
  least. `CoreIsTheList` follows the build loop: what it has kept is an increasing
  choice of the list that skips only unsupported nodes. `PicksFollowWeights` counts the
  targets that lead to a member: the recursive cursor is met where the first weights
  add up to it (by the least number for which it is not), so each member owns an
  interval as long as its weight.
* `Console_proofs`, about the console: `TypeCorrect`, `ScreenIsRight`,
  `ReloadIsNeutral`, for any number of refreshes and resources, any texts and any
  server. `ScreenTells` is not inductive: the invariant adds that while no refreshes
  have crossed the one under way is the latest one, made with the settings in use, that
  its answers are not older than its beginning and not ahead of the server, and how it
  ended once it has. `ReloadIsNeutral` follows the settings from field to storage and
  back: what is stored loads to something with the same request.
  About the log ring: `RingCorrect`, `ImplementsHistory`, for every capacity. Beyond
  the types the invariant says that the position equals the size until the ring is
  full; the step from a full ring is modular arithmetic, in lemmas of its own.
  About the pages: `AnswersAreCastRight`, `NothingIsHidden`, `RowsAreTrue`,
  `FiguresAgree`, `PagesKeepHistory`, for any lists, scores and searches. The invariant
  (`PagesInv`) is short: a page is mounted only with answers, and answers were made of
  published snapshots. What the properties need besides is what a snapshot is
  (`PublishedTyped`: no list is empty that must not be, every candidate carries the
  score of its status, keys are unique) and what the pages make of a list. A row's place
  in the whole list survives both filters, because each filter is an increasing choice
  of positions and two such choices make one (`Traces`, `TracesCompose`); its rank is
  that place, since keys are unique (`RankIsPlace`), and lies between the number of
  better rows and the number of rows not worse (`PlaceIsStanding`). The tiers of the
  console and the buckets of the server have the same borders (`TierIsBucket`).

The assumptions are those of the modules: a positive window, at least one
configuration and one node key, the checker being one of the callers, `Down` not
being a configuration, a positive capacity, a default header that is not blank, at
least one source, a source's list without repeats, saved statuses that probes can leave. What a
refresh hands to the pages (`RefreshesAssumption`: unique keys, nodes only from sources,
scores in their range) is what `Deduplication` shows of the pipeline and
the types (part of `HandsOverTheAnswering`) of the checker.

The models are written so that they can be reasoned about: a list with given members is
a function onto them, a sorted or filtered list one of Lists, the cursor of a
pick a recursive function; the library's recursive operators, which the provers do not
unfold, are left to parts that no theorem is about.

Only model-checked: the liveness properties (`EveryCallReturns`, `CoreFollowsWorld`,
`Settles`, `ShutdownEnds`, `WaitsEnd`), because fairness is outside the prover's
reach. Every other property of a passing run is stated by a theorem.
`NoPenaltyOutlastsWindow`, which `WindowBound` proves, has no run of its own: `LedgerSpec` contains it; nor has
the refinement that `EveryNodeHasOneLife` proves.

## Not modelled

Probing itself (what a probe does on the wire is an input), how a log entry is made
of a record, how durations and dates are formatted, the console's theme, language and
layout (one preference each, on which nothing else depends), the embedded static
files, the parsers' text decoding (pure functions of one text, well covered by unit
tests). A node's identity is a key;
its metadata is left out. Memory growth (`nodeStatuses` keeps every node ever
seen) is not bounded by the code and not a subject here.

## Plan

In order of importance; each with its runs and, where it says so, proofs.

1. **Shutdown** - Runtime with the store: cancelled probes, `Close` against a
   refresh or a round that is still running.
2. **Configuration** - the validation rules that relate fields.
3. Proofs: what the modules assume of each other (Runtime's header) as refinements;
   the shutdown, once it is modelled.
