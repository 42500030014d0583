# TrustSight: TLA+ models, checks and proofs

TrustSight reads the recipes (PKGBUILDs) of the Arch User Repository before
they are built. `trustsight review` analyses the packages a machine has
installed; `trustsight full-aur --watch` is an unattended process that follows
the whole AUR, keeps a corpus in SQLite and sends alerts. This directory holds
TLA+ modules of the parts whose correctness depends on *order*: threads that
share sandboxed children, a long cycle that must survive stops and crashes, a
delivery queue, and state that expires. What is computed about one recipe is
not modelled.

Paths below are relative to `src/trustsight/` in the repository.

## 1. Inventory

### Components

| component | state | operations | properties that make it correct |
|---|---|---|---|
| Tokenizer worker pool (`sandbox/client.py`) | queue of idle children, list of all children, a condition variable, a shutdown flag; per child: process, request count | take, wait, time out, spawn, answer, fail, return, retire, terminate all, reset after fork | a child serves one caller; no slot leaks; at most `WORKER_POOL_SIZE` children, none of which survives the program, but for one lost while it was started; no lost wake-up; every request ends |
| Corpus watch cycle (`full_aur/_baseline_build.py`, `pipeline.py`, `_pipeline_watch.py`) | resume file, cycle locals | fetch, refuse, plan, prefill, analyse, checkpoint, stop, finish, report | the snapshot passes over nothing unread; every finding is reported; it catches up with the AUR |
| AUR metadata snapshot (`full_aur/metadata.py`) | snapshot file, slim index beside it, ETag validators | conditional fetch, load, save, index, diff | what a 304 returns is consistent with the cycle in progress; a reader sees a whole snapshot and never a stale index |
| Review (`review.py`, `depth.py`) | shared snapshot file, a batch's visited set | refresh, prefetch, analyse a batch, walk dependencies | a failed analysis is reported as not vetted; a shared dependency is analysed |
| Alert outbox (`db/_outbox.py`) and delivery (`notify.py`) | rows with one flag per sink, attempts, back-off, parking | enqueue, read due rows, post, mark, back off, park | delivered only if received; bounded attempts; every document is settled |
| Campaign alert mode (`db/_campaigns.py`, `full_aur/_pipeline_helpers.py`) | campaign rows on the observation clock | activate, re-arm, evict, refuse, lapse, announce | a live window is never cut; the cap holds; a lapse is named once |
| Database connections (`db/_connection.py`) | one connection and one batch depth per thread | open, write batch, commit, roll back | a package's writes are all or nothing |
| Cluster alert record (`db/_profiles.py`) | pairs already alerted, windows in which a campaign was announced | record | a pair is reported once and not lost; one alert per arming of a campaign |
| Clone cache and git session (`fetcher.py`, `sandbox/git_client.py`, `sandbox/git_worker.py`) | a clone and its marker per package, a child per request or project, the run's byte budget | fetch or clone, mark, charge, read, close | a clone taken for current lacks nothing without a reason; a half-made one is replaced; accepted transfers stay within the budget; no child is left |
| Channels, seed and releases (`channels.py`, `channel_state.py`, `release.py`, `db/_seed.py`, `ioc_baseline.py`, `watchlist.py`) | what was imported, version floors, the record of pulls | ask, download, check, import, record | no older version in place of a newer one; nothing on record that was not imported; every channel catches up |
| Sandbox workers and protocol (`sandbox/*_worker.py`, `protocol.py`) | none across requests | read a frame, answer | one answer per request |
| Tokenizer engine, rules, analysis, differ, scoring | none | pure functions over text | each is its own definition |
| CLI, API, reporting, configuration, export | none of their own | parse, render | presentation |

### How they interact

The watch loop (`run_watch`) runs one cycle after the other in one process,
which `watch_lock.py` keeps alone in its data directory. A cycle fetches the
metadata dump, diffs it against the snapshot, fetches recipes on a thread pool
a window ahead and analyses them one by one; each analysis calls the tokenizer
pool and commits one batch. The cycle then sweeps the corpus, which activates
campaigns, advances the snapshot and returns a result that `maybe_notify` turns
into one outbox document and tries to deliver. `review` is another process: it
shares the snapshot file, the validators and the database with the watcher, and
its own thread pool calls the tokenizer. Every recorded analysis, of either,
moves the observation counter by which campaigns lapse. A whole cycle records
its clusters after it has primed the campaigns, and only what `record_alerts`
returns as new is reported. Each analysis of a review fetches its package's
clone through a child of its own, walks the dependencies over a visited set it
shares with the other analyses of the batch, and charges one transfer budget.
After a cycle the watcher may pull newer data from its channels; operators run
the same pulls by hand, of older tags and other publishers too, and
`corpus fetch` and `seed-db` import past the record of pulls.

### What is hard

- *Interleaving*: the pool's waiters, holders, deaths and shutdown; `review`
  writing the snapshot under a running cycle; the observation clock moved by
  another process.
- *Crash and restart*: a cycle writes validators, batches, resume file,
  snapshot, outbox rows and sink flags at different times, and the process may
  die between any two.
- *Staleness*: validators and snapshot are written by different steps; the
  resume file holds names and not revisions.
- *Delivery*: lost answers, receivers that are down, retries, back-off,
  parking.
- *Checks that are not one step with their use*: the visited set of a batch, the
  version of an artifact before its import, the clone's marker.
- *Versions and times that are not what they stand for*: a seed's version may be
  the day it was built, or missing; a clone's marker is the local clock's, and
  without one the committer's date decides.
- *Limits*: the transfer budget, the ceilings of a walk, the cap per cycle, the size of the resume file, the size of the
  pool, requests per child, `LIMIT` of a flush, the campaign cap.
- *Liveness*: a request on a saturated pool ends; the watcher, the clones and the
  channels catch up; a document is settled; a batch ends.

`PROJECT.json` lists each hazard at its line, with the properties that would
notice, or the reason why none does yet.

## 2. Modules

| module | models | its state and actions in the code |
|---|---|---|
| `TokenizerPool` | `sandbox/client.py` | `idle`, `all`, `shutdown` are `_pool`, `_all`, `_shutdown`; `pc` and `held` are a thread's place in `_acquire`, `_send`, `_release`; each critical section of `_lock` is one action, `Stop` and `Kill` are the calls outside it; `leaked` are children that a failed `start()` left |
| `TokenizerPool_proofs` | | theorems on it |
| `CorpusWatch` | `_baseline_build.py`, `_pipeline_watch.py`, `metadata.py`, `fetch.py`, the refresh of `review.py` | `snap`, `resume`, `stored`, `outbox`, `fresh` are what is on disk; `meta` to `over` the cycle's locals; one action per write to disk and per outcome of a package |
| `CorpusWatch_proofs` | | theorems on it |
| `SnapshotRegister` | the promise of `save_metadata` and `load_metadata` | the dump a reader is given, and the dumps being saved |
| `SnapshotFile` | `save_metadata`, `save_slim`, `load_slim`, `load_metadata` of `metadata.py` | names, inodes and their `(mtime_ns, size)`; one action per open, write, rename and stat |
| `SnapshotFile_proofs` | | theorems on it, the refinement included, for one process at a time |
| `AlertPromise` | the promise of `db/_outbox.py` | a document is new, queued, delivered or parked |
| `AlertOutbox` | `db/_outbox.py`, `maybe_notify`, `flush_outbox`, `_deliver_sinks` | a row's columns; one action per commit and per POST |
| `AlertOutbox_proofs` | | theorems on it, the safety of the refinement included |
| `CampaignState` | `db/_campaigns.py` and its callers | `rows`, `armed`, `announced` are the table; one action per commit |
| `ClusterAlerts` | `record_alerts` of `db/_profiles.py`, `_finish_cycle` and the report of `run_watch`; extends `CampaignState` | `recorded` is `alert_state`, `refractory` is `alert_refractory`, each also as the open transaction sees it; one action per cluster recorded and per commit; the steps of the sweep are those of `CampaignState` |
| `ClusterAlerts_proofs` | | theorems on it and on `CampaignState`, which it is shown to implement |
| `ReviewBatch` | `analyze_outdated_batch` of `review.py`, `depth.py`, the start of a walk in `_analyze.py` | `seen` is `depth_seen`; `frontier`, `nxt`, `level` are a walk's locals; the check of a name (`Take`) and its claim (`Claim`) are two actions |
| `ReviewBatch_proofs` | | theorems on it |
| `CloneCache` | `clone_or_fetch` of `fetcher.py`, its session, `_open_fetch` of `git_worker.py` | `dir` is the clone (absent, without a commit, whole; HEAD; marker), `hint` is `upstream_mtime`, `spent` is `_transferred_bytes`; one action per outcome of each of the worker's steps |
| `CloneCache_proofs` | | theorems on it |
| `ChannelPull` | `auto_pull` and the pulls of `channels.py`, `record_pull`, the imports' version checks, and the commands `seed fetch`, `corpus fetch`, `ioc update`, `watchlist update`, `seed-db --file` | `installed` is the content, `version` the rows `seed_version` and `ioc_release_version:*`, `floor` the row `baseline_manifest_version`, `recorded` is `channel-pulls.json`; one action per download, check and commit. `Watcher` pulls after its cycles, each of `Operators` is one command |
| `ChannelPull_proofs` | | theorems on it |
| `MCClusterAlerts`, `MCReviewBatch`, `MCCloneCache`, `MCChannelPull` | | the symmetry, the ceilings, the commits' dates and the releases' versions of the runs |

`AlertOutbox` implements `AlertPromise` under the refinement mapping `Status`.
`SnapshotFile` implements `SnapshotRegister` under the mapping of `Given` and
`Begun`.
`CorpusWatch` ends where `AlertOutbox` begins: its `outbox` is the set of alerts
accepted by `Notify`. `CampaignState` begins at the sweep that `CorpusWatch`
passes through in `FinishWhole`. `SnapshotFile` opens up what `CorpusWatch`
takes as one step, the saving of a snapshot: with one process at a time that
step is justified (`ActsAsRegister`), with two it is not (`SlimShared`). `ClusterAlerts` composes `CampaignState` with the record of
alerts: its steps are steps of `CampaignState` or leave it alone, which
`ClusterAlerts_proofs` proves (`CampaignsSimulated`), so that what is proved of
the campaigns holds in it. `CloneCache` is one package's part of the fetch that
`ReviewBatch` takes as the outcome of an analysis. Most configuration files give
a specification its constants directly; four need a model-checking module, for a
symmetry and for constants that are tuples or functions.

The definitions under "Plausible bugs" in each module are not part of the
specification: each is one action with one mistake, and each has been checked
to break the property `PROJECT.json` pairs it with.

### Abstractions

- A package, worker, thread, campaign or document is an identity. A recipe's
  text is a revision number: the number of the AUR change that made it, which
  stands for `LastModified` and `Version`. Distinct changes are assumed to
  differ in one of the two, as `diff_metadata` assumes.
- The ETag is one fact: the validators still name the dump being served.
- Time is a step that may happen: a deadline passes (`Expire`), a back-off ends
  (`ComesDue`), a row grows old (`GrowsOld`), an observation is made.
- Which packages a capped cycle takes first is the code's sort order and which
  dependencies exist is the AUR's: any choice is allowed.
- The pool's CPU limit is not measured: a child may be retired at any return.
- A queue's order is left open where only membership matters (idle children,
  waiters), and kept where it matters (outbox rows).
- The snapshot is loaded and diffed in one step; `review`'s refresh is one step
  too. The database's batch for one package is one step. `CloneCache` opens up
  the removal of a directory as far as it can be seen: a whole clone first loses
  its refs.
- A pushed revision is a number, and so is the second it is pushed in. The
  marker of a clone is what the local clock shows when it is written, at most
  `Skew` off; the date in a revision's commit is the committer's choice
  (`CommitTime`).
- A fetch may leave HEAD where it was (`_advance_to_fetched_head` without a
  remote ref to advance to), and a marker that cannot be written is left as it
  was or empty.
- A release is a number that stands for its tag and content; what does not
  verify is not downloaded. The versions of seeds, feeds and inventories are
  functions of it (`VersionOf`, `Inventory`), of which nothing is assumed: two
  releases may share one, and 0 is none. A string that a version is compared as
  is its place in the order of strings.
- Another publisher's release and a seed in a file are members of `Elsewhere`.
  Two publishers are assumed not to use one tag (`pulled_tag` does not look at
  the channel on record), and every feed to follow the official channel.
- A start that fails after the child is made (the thread for its stderr cannot
  be started) loses the child, which lives until the collector closes its stdin;
  at most `MaxLeaks` such children live at once.
- `stop()` kills. An exception that is not the request's (an interrupt from the
  keyboard) does not strike between two critical sections of the pool. A
  worker's name is reused once it is stopped, and which free name a new one gets
  makes no difference.
- The dependency graph is any graph within the bound; which analyses fail is
  any choice.
- The variables marked *history* (`gap`, `skipped`, `owed`, `received`,
  `rounds`, `said`, `told`, `alerts`, `clean` (also a field of the directory in
  `CloneCache`), `accepted`, `strayed`, `overtaken`, `loose`, `brought`) exist only
  for the properties; no guard reads them.

## 3. Runs

| run | bounds | what it shows |
|---|---|---|
| `TokenizerPool` | 4 threads, 3 worker identities, pool of 2, 2 requests per child, 1 lost child | six safety properties of the pool and, for one of the threads, `EveryRequestEnds` |
| `CorpusWatch` | 2 packages (1 on the known-bad list), 2 revisions (one AUR change), removals, cap 1, 1 fault, a resume file that holds 1 name | `SnapshotCovered`, `AlertsNotDropped`, `CatchesUp` |
| `SnapshotFile` | 1 process, 3 dumps, 10 openings and writings, 2 crashes | `SlimNeverStale`, `ActsAsRegister` |
| `AlertOutbox` | 2 documents, batches of 1, 2 attempts, 1 crash, 1 change of sinks | `DeliveredMeansReceived`, `RoundsBounded`, `KeepsPromise` |
| `ClusterAlerts` | 2 campaigns and clusters without one, 2 packages, cap 1, TTL 2, clock to 2, 1 crash | `ReportedOnce`, `OncePerArming`, `RecordedIsReported`, and of `CampaignState` `NamedOnce`, `LiveKept` |
| `ReviewBatch` | every graph of 3 packages with at most 2 dependencies each, every set of roots, depths 1 to 3, 1 or 2 threads, ceilings of 1 or 2 levels and names, 1 failure | `NothingMissedAtDepth`, `ClosureExamined`, `FewRepeats`, `EveryReviewEnds` |
| `CloneCache` | 2 callers, 3 revisions (one dated ahead of its push, one before it), a clock 1 off, transfers and budget of 1 unit, 1 killed child | `AcceptedWithinBudget`, `MissedForAReason`, `DirectoryKept`, `StraysOverBudget`, `CacheHeals` |
| `ChannelPull` | the watcher and 1 command, a seed and 1 feed, 2 releases each and 1 of another publisher, built on the day of the second, 1 crash, locked database or raise | `NeverOlder`, `RecordsHonest`, `CatchesUp` |

Why the bounds suffice. One thread must hold, one wait, one time out and one
race them for a wake-up to be lost: four threads. A pool of two is the least in
which a dead idle worker is retired, and a child started, while another stays in
the queue; a third identity is a child that was lost, or is still being killed,
beside two that count. With the real size of four nothing new can happen to a
slot, and the proofs are for every size. `EveryRequestEnds` follows one thread,
of which alone fairness is asked: the others may do anything, or nothing. In the watcher two packages and a cap of one
are the smallest transition that takes two cycles, and one
change lets a package move before, between or after them; more changes, names
and faults are the proof's (section 5). Two outbox rows and batches of
one are the least in which one row can starve another. Two campaigns for one slot make
every newcomer an eviction or a refusal, and a clock of one TTL lets a window
lapse and be armed again; two packages are the least of which only one may be
announced. Three packages are a root, another root and the dependency they
share, or a circle. Two callers are one that was given up and one that came
after it; with a budget of one transfer the second is over it. Three revisions
with these dates are one that the clone holds, one dated beyond the newest and
one dated within reach of its predecessor. Two releases are an older and a newer
one, the third of equal version replaces either, and the first has no inventory
version; two processes are the least that can pass each other between a check
and an import, and one command is enough to overtake the watcher at each of its
steps (with the seed alone and two commands the safety properties hold as well);
the watchlist, whose pull is the seed's without
inventory and version, is a constant of `ChannelPull` that its runs leave out.
Two saves with their indexes take eight ticks, so ten
leave room for a crash in each and a rebuild. Every safety property of these runs
is also proved for every value of the constants (section 5), those of
`SnapshotFile` for one process.

Deadlock is checked in every run but four: those of `SnapshotFile`, whose clock
is bounded (files are opened and written a bounded number of times and nothing
else happens there), and those of `ChannelPull`: with the commands over, a
watcher that finds nothing new does nothing, and one that a feed ended is gone.
No other specification may stop.

### Runs that are expected to fail

Each checks one sentence of the docs or of a comment against the code.

| run | the sentence | what the counterexample does |
|---|---|---|
| `KnownBadPages` | "A known-bad match pages at maximum priority whatever the score" (`_baseline_build.py:378`) | `ioc_hits[name]` is never initialised: `KeyError` ends the cycle, after the package was stored |
| `NotVettedRetried` | "left out of the resume set and retried" (`_baseline_build.py:489`) | the cycle is whole, so the snapshot moves past the package |
| `SlimShared` | "a stale sidecar is never mistaken for a current one" (`metadata.py:373`) | the watcher renames its snapshot, `review` puts another in its place (here through the temporary file both share), the watcher stamps its index with what it then finds |
| `FeedsCatchUp` | "after each cycle pull and import newer IOC feeds" (`docs/reference/cli.md:754`) | one tag is on record for all feeds: when one feed's download fails and another's succeeds, the first is not asked for again |

`SnapshotCovered` and `CatchesUp` hold *around* these: the first names the four
reasons for which the snapshot may stand past an unread change and says there
is no fifth, the second exempts a watcher whose progress is discarded by a 304
again and again or whose every cycle is ended by a known-bad recipe.
`CatchesUp` of `ChannelPull` is about the seed of one publisher whose every
release has a higher version than the last, and exempts a seed that two
processes import at once and a watch that was ended by a pull. Without the first
exemption it is violated, and so is `NeverOlder`: the check of a version and the
import are two steps, and the older release may be the last to be imported.

### Other divergences met

These are stated in the modules and not among the runs. The first five have a
configuration of their own, with which TLC shows a counterexample.

| definition | sentence | what the code does |
|---|---|---|
| `ResumeKept` (`CorpusWatch`) | "Nothing is lost by stopping" (`docs/reference/cli.md:826`) | the fetch after a capped cycle is answered 304, the delta is empty and the resume file is removed |
| `BootstrapFinishes` (`CorpusWatch`) | "run the command repeatedly to finish it in gentle chunks" (`docs/reference/cli.md:746`) | the resume file outgrows the 1 MiB that is read back and the bootstrap begins again |
| `CapHolds` (`CampaignState`, `CampaignCap.cfg`) | "How many campaigns may be active at once" (`docs/reference/configuration.md:315`) | a lapsed row is deleted to make room for a live one; re-arming is not counted |
| `NothingMissed` (`ReviewBatch`) | "Only a walk cut short by a ceiling, or a dependency whose own analysis failed, leaves something unexamined that the reader was not told about" (`depth.py:37-39`) | at a depth of two or more but not all, a walk that met a package at its last level claims it from one that would have gone on |
| `SkippedIsCurrent` (`CloneCache`) | "when the cached clone already holds a commit that recent the worker skips the fetch" (`fetcher.py:166-168`) | the marker is the time after the transfer, so a push while it ran makes the clone current without it (here with an exact clock and honest dates) |
| `NoChildLeft` (`CloneCache`) | "a caller that forgets close() cannot accumulate children" (`git_client.py:340`) | a charge over the budget after a successful answer raises before there is a handle (`fetcher.py:207-209`) |
| `WatchSurvives` (`ChannelPull`) | "it never raises, because a failed data pull must not kill the watch" (`channels.py:513`) | the loop over the feeds is outside any `try`, and the look at the channel's key comes before that of `_release_channel_feed`, whose `except` does not name the database's errors |
| `EmittedMeansAlerted` (`ClusterAlerts`) | "whether the alert was emitted or debounced" (`api/_models.py:826`) | a window whose first member was alerted long ago gets its row without an alert |

Smaller ones, which no definition states: "The pool starts `WORKER_POOL_SIZE`
(4) children" (`docs/explanation/sandboxing-the-tokenizer.md:88`), and one more
lives for a while when the thread for a child's stderr cannot be started, since
`_acquire` catches an `OSError` only (`sandbox/client.py:86-93`, `252`);
`corpus fetch` raises the floor of the baseline's inventory without importing the
seed it lists (`cli/corpus.py:198`), so an older seed's inventory is refused from
then on; a root whose review fails after its
walk takes with it the reports of dependencies that other walks passed over;
`MAX_DEPTH_NODES` is a ceiling of the batch by its comment (`depth.py:60-62`)
and of each walk in the code; an inventory that cannot be downloaded is read as
a release without one (`channels.py:81-96`); feeds that follow another channel,
or a pinned release, are pulled again whenever the official channel's tag moves
and not when their own does; a transfer whose transport fails is charged
nothing.

## 4. Fairness

- `TokenizerPool`: a watched thread that can run does (weak fairness of its own
  steps: the condition's lock is held for short, and a request has a deadline).
  Nothing is assumed of other threads, children or notifications. `Expire` is strongly fair
  because `_acquire` computes its deadline once: a thread woken and outrun
  again and again is still measured against the same instant.
- `CorpusWatch`: the watch loop goes on (weak fairness of the cycle's steps);
  the dump served changes from time to time, if only in its votes, so a full
  download comes again (`Churn`, strong fairness of `Download`); neither the
  mirror nor the tokenizer fails one package for ever (strong fairness of
  `Analyse`); an operator without a snapshot asks for a bootstrap (strong
  fairness of `Plan`). Faults and AUR changes are bounded by their constants.
- `ReviewBatch`: while a thread of the pool can do something, some thread does
  (weak fairness of all of them together). `ClusterAlerts` and `SnapshotFile`
  state safety only.
- `CloneCache`: a caller and its child go on (every request has a deadline),
  reviews keep being run, and the network does not fail one package for ever
  (strong fairness of `CloneDone`). Pushes and killed children are bounded.
- `ChannelPull`: the watch goes on (weak fairness of the watcher's steps), asks
  every channel in every cycle (strong fairness of `Ask`, since the watcher is
  busy with one at a time), a download that is tried again and again succeeds
  once (strong fairness of `Downloads`), and so does the reading of an inventory
  that its version does not refuse (strong fairness of `Reads`). Nothing is
  assumed of operators.
- `AlertOutbox`: the queue is flushed again and again, on quiet cycles as well,
  and a back-off ends. Nothing is assumed of the receivers.

## 5. Proofs

`TokenizerPool_proofs` proves, for every finite set of threads and workers,
every pool size, request limit and number of lost children (`PoolAssumption`), type correctness,
`Exclusive`, `NoLostCapacity`, `NoOrphan`, `BoundedChildren` and
`NoStrandedWaiter` as invariants of `Spec`. The argument has layers:

1. `Inv` is `TypeOK`, `Exclusive` and two facts that make them inductive:
   `Slots` relates `all`, `idle`, `killing` and what threads hold, and bounds
   the number of slots; `Fresh` says that what is in nobody's hands has no
   process and no requests. `TypeOK` bounds the requests of a child, which is
   only inductive with `Exclusive`: two holders could both count.
2. On `Inv`, `Known` says that a live child is listed or held, shutdown
   included, unless its start lost it; `NoOrphan` follows. `BoundedChildren`
   follows from it and from the cardinality of `all`.
3. `Waiters` strengthens `NoStrandedWaiter` to what a notify preserves; the
   steps that matter are the ones that spend a wake-up (`PutBack`) and the ones
   that consume one (`TakeIdle`, `Spawn`, `TimeOut`): a thread that starts a
   child beside idle ones has retired a dead one and woken everybody, and with an
   empty queue and a slot to spare nobody was blocked.

`CorpusWatch_proofs` proves `TypeOK`, `SnapshotCovered` and `AlertsNotDropped`
for any packages, known-bad names, cap, AUR changes, faults and resume file.
`SnapshotCovered` is a promise the cycle makes at its start and redeems hours
later, so its invariant is a debt: while a cycle prepares and works, each package
whose dump entry is newer than its last analysis is still in the chunk, belongs
to a transition this cycle will not complete, has a reason on record, or was
behind the snapshot before (`Owing`, `Pending`). `Plan` takes on the debt
because the delta misses only what the old snapshot already equals; every
outcome of a package settles it or records why not; and a loop that was not
stopped ends with an empty chunk (`LoopDone`), so that `FinishWhole` finds only
the last two. A cycle's dump is as old as its fetch and `review` may have moved
the snapshot since, which is why the debt is stated against `meta` and the
notes in `gap` are withdrawn only by an analysis that is level with the snapshot
(`StoreFacts`). `AlertsNotDropped` needs that nothing is found before the loop
(`NothingFound`): the ways a cycle may end quietly all lie there.

`ClusterAlerts_proofs` begins with the campaigns by themselves: `TypeOK`,
`NamedOnce` and `LiveKept` of `CampaignState` for every set of campaigns, cap,
TTL and bound. `NamedOnce` needs to know that a campaign
the sweep has yet to report was named at most once per crash before;
`LiveKept` needs that a row is armed no later than now.

`SnapshotFile_proofs` proves `TypeOK`, `SnapshotWhole` and `SlimNeverStale` for
any number of dumps, openings and crashes under `OneProcess`, the assumption
that no two processes save, which `SlimShared` shows to be needed. `Inv` adds
that the four names never share an inode (`Apart`), so that nothing in place is
ever written to; that no stamp is from the future (`Ticks`); and what a saving
process knows at each of its steps (`Places`): from the moment a snapshot is
written, no index in place can carry its stamp, because every such stamp was
read at an earlier tick. That is why a crash between the snapshot and its index
is harmless. From the same invariant `FilesAreARegister` proves that the two
files implement `SnapshotRegister`: opening, writing, indexing and crashing are
stutters or abandon a save that no reader has seen, and the rename of a snapshot
is the one step that changes what a reader is given.

`ClusterAlerts_proofs` then proves that the composed specification implements
`CampaignState` (`CampaignsSimulated`), and with it `NamedOnce`; and for every
set of campaigns and packages `AlertTypeOK`, `ReportedOnce`, `OncePerArming` and
`RecordedIsReported`. What makes them inductive is the relation of the
transaction's view to the tables: outside the transaction they are equal, in it
the view only grows; what is about to be reported is in the view and was not in
the table; and what was told is in the table.

`ReviewBatch_proofs` proves, for any graph, any set of roots, any ceilings and
any number of threads, `TypeOK`, `ClosureExamined`, `NothingMissedAtDepth` and
`FewRepeats`.
`ClosureExamined` rests on two facts: what is in `depth_seen` is a root, is in a
report or is about to be (`Shape`); and what a package of an uncut walk's report
depends on is in `depth_seen` or still on that walk's lists (`Covered`).
`NothingMissedAtDepth` speaks of paths in the graph. At every level it follows
from the closure, since a path never leaves a set that holds the dependencies of
its members (`WithinClosed`, by the least position at which it would). At depth
one, and in a batch of one root, `Reached` follows the walk itself: what lies
within its level is in `depth_seen` or still on this level's list. With other
roots and levels that is false, as `NothingMissed` shows: the next level is
computed from what *this* walk reported, while another may have claimed some of
it. `FewRepeats` counts: a package that is not seen yet is in the hands of active
walks only, and there are at most as many as threads. `WorkRunsOut` bounds the
work: each step lowers `StepsLeft` of the root it works for, a natural number
made of the levels and names left, and leaves the other roots' as it is; a batch
has finitely many roots, so it takes finitely many steps, whatever its schedule.
That something can be done until the batch is over is TLC's (`EveryReviewEnds`
and the deadlock check).

`AlertOutbox_proofs` proves, for any number of documents, attempts and crashes,
`TypeOK`, `DeliveredMeansReceived`, `RoundsBounded` and that every step is a
step of `AlertPromise` or a stutter (`SettledOnce`). `Places` says what a flush
may rely on in the rows it works on; `Taken` that, while the configuration
stands, a sink's flag means it has the row; `Counted` that each round of a row
is paid for by an attempt, by a flag or by a crash, the round in progress being
yet to be paid. A row has two flags and fewer than `MaxAttempts` attempts while
it is not parked, hence the bound. In the refinement each commit either leaves
a row's place in the table alone or settles one row that was pending.

`CloneCache_proofs` proves, for any number of callers, pushes and killed
children and any budget, `TypeOK`, `AcceptedWithinBudget`, `DirectoryKept`,
`StraysOverBudget` and `MissedForAReason`, with any dates in the commits and any
error of the clock. `Sole` (one clone into a directory at a time among calls that
are held) is inductive together with `DirectoryKept`; `Newest` and `Told` say that
a call during which nothing was pushed has read the newest revision, and that a
clone whose history is clean has a marker no newer than its HEAD but for the
clock's error; `Headed` that a whole clone has a HEAD, whose date decides when
there is no marker. `AcceptedWithinBudget` needs that a charge is exact as long as it
does not saturate.

`ChannelPull_proofs` proves, for any operators, feeds, releases, publishers,
versions and crashes, `TypeOK`, `RecordsHonest` and `NeverOlder`. `RecordsHonest`
rests on `Imported` and `Views`: what a process is about to put on record, or has
in its copy of the file, was imported before. For `NeverOlder` an item that was
never in two hands is in one (`Sole`); its version row is as high as any version
it was ever imported with, except for a feed between its two commits (`Highest`);
and what the check saw still holds at the import (`Checked`). Items of `overtaken`
and `loose` are left out of these (`Strict`), so every step has to show only that
it leaves the others alone. Versions may be equal or missing: a release without
one leaves the row as it was and promises nothing for itself. The proof of a step
has two patterns: a process ends its turn with an item (`Ending`), or goes on with
it in one of the three places where the tables change (`Importing`, `Flooring`,
`OldFormat`).

The proofs of `TokenizerPool`, `CampaignState`, `CloneCache`, `ChannelPull`,
`CorpusWatch`, `SnapshotFile` and `ReviewBatch` were also run against altered
specifications (a worker put back without the request limit, an eviction of live
rows, a fetch that did not move HEAD taken for one that did, an import without
its version check, a snapshot that advances after a stopped cycle, an index of bytes
that do not parse, a level that is not counted): they fail there.

Only model-checked: all liveness, that of `AlertPromise` included, since TLAPS
here has no fairness or `ENABLED` reasoning. Every invariant of a passing run
and the safety of both refinements is a theorem. No recursion over data is needed: what
lies within so many steps of a package is defined by paths, and the one induction,
on the position in a path, is the well-foundedness of the naturals (`Least`).

## 6. Plan

The modules above are what was planned for the parts whose correctness is a
matter of order. What would come next, in order of worth:

1. `Backfill`: the `--since` replay (origin, cursor, resume file) as an
   extension of `CorpusWatch`.
2. `AlertOutbox`: documents that are delivered directly when the database is
   unavailable.
3. `ReviewBatch`: a metadata provider that is down, and the prefetch pool.
4. Bounds like `WorkRunsOut` for a cycle of `CorpusWatch` and for the requests
   of `TokenizerPool`.

## 7. Not modelled

The analysis rules, the tokenizer engine, the differ, the corpus graph and the
temporal engine are pure text processing and arithmetic without shared state,
about 60 000 of the program's 80 000 lines; a model would repeat them. The
kernel isolation of the sandbox, the wire protocol, SQL schema and migrations,
export, configuration, the command line and reporting are I/O or presentation.
`PROJECT.json` gives the reason for each.

## Running

    tlc -workers 2 -config TokenizerPool.cfg TokenizerPool
    tlc -workers 2 -config ClusterAlerts.cfg MCClusterAlerts
    tlc -workers 2 -config ReviewBatch.cfg MCReviewBatch
    tlc -workers 2 -config CloneCache.cfg MCCloneCache
    tlc -workers 2 -config ChannelPull.cfg MCChannelPull
    tlc -workers 2 -config SkippedIsCurrent.cfg MCCloneCache
    tlc -workers 2 -config ResumeKept.cfg CorpusWatch
    tlapm TokenizerPool_proofs.tla

`CampaignState.cfg` checks the campaigns without the record of alerts; it is a
quicker check of what the run `ClusterAlerts` also covers.
