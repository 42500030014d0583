---------------------------- MODULE ChannelPull ----------------------------
(***************************************************************************)
(* Pulling signed data: the baseline seed and corpus, the indicator feeds  *)
(* and the watchlist, each published as a sequence of releases             *)
(* (channels.py, channel_state.py, release.py, cli/corpus.py; the imports  *)
(* of db/_seed.py, ioc_baseline.py and watchlist.py).  The watcher pulls   *)
(* by itself after a cycle, and operators run the same pulls by hand in    *)
(* other processes, name older releases and follow other publishers.       *)
(*                                                                         *)
(* A release is its number, which stands for its tag and the content of    *)
(* its assets.  The versions by which imports are refused are fields of    *)
(* their own: a seed's is seed_version or the date it was built, compared  *)
(* as strings, so two releases may share one, and any may be missing (0).  *)
(* All feeds follow the official channel, none is pinned to a tag in the   *)
(* configuration or imported from a directory, and two publishers' tags    *)
(* differ.  An asset that does not verify is as good as not downloaded.    *)
(***************************************************************************)
EXTENDS Naturals, FiniteSets

CONSTANTS
  Watcher,    \* the process with --auto-pull-*
  Operators,  \* processes that run one command each
  Seed,       \* the baseline channel, and the item it is asked for
  Corpus,     \* the other item of its releases, which only a command pulls
  Watchlist,  \* the watchlist channel, and its only item
  Ioc,        \* the channel of all feeds
  Channels,   \* those of the three that are pulled
  Feeds,      \* the enabled feeds
  Nothing,    \* stands for no item
  MaxRelease, \* bound: releases of a channel
  Elsewhere,  \* baseline releases of other publishers, and seeds in files
  VersionOf,  \* the version that each release of an item carries, 0 for none
  Inventory,  \* the version of each baseline release's inventory, 0 for none
  MaxFaults   \* bound: crashes, and pulls that raise

VARIABLES
  newest,    \* the newest release of each channel
  installed, \* the release each item was last imported from
  version,   \* the rows seed_version and ioc_release_version of each feed
  floor,     \* the row baseline_manifest_version
  recorded,  \* channel-pulls.json: the tag last pulled, 0 for none
  pc,        \* where each process is
  todo,      \* items of the current pull that have not had their turn
  item,      \* the item being pulled
  tag,       \* the release it is pulled from
  how,       \* from a bare asset, one its inventory lists, or a file
  view,      \* channel-pulls.json as it was read, with the new tag
  overtaken, \* history: items that two processes pulled at the same time
  loose,     \* history: items whose version row is not what was imported
  brought,   \* history: the items imported so far, with their releases
  faults

disk    == <<installed, version, floor, recorded>>
local   == <<pc, todo, item, tag, how, view>>
history == <<overtaken, loose, brought>>
vars    == <<newest, disk, local, history, faults>>

-----------------------------------------------------------------------------
Procs    == {Watcher} \cup Operators
Releases == 1..MaxRelease \cup Elsewhere

ItemsOf(k) == IF k = Ioc THEN Feeds ELSE {k}
Pulled     == UNION {ItemsOf(k) : k \in Channels}
Items      == Pulled \cup IF Seed \in Channels THEN {Corpus} ELSE {}
Channel(i) == CASE i \in Feeds -> Ioc [] i = Corpus -> Seed [] OTHER -> i

\* What is imported under a version of its own.
Versioned == Items \cap (Feeds \cup {Seed})

ASSUME PullAssumption ==
  /\ Watcher \notin Operators
  /\ Channels \subseteq {Seed, Watchlist, Ioc}
  /\ Seed # Watchlist /\ Seed # Ioc /\ Watchlist # Ioc
  /\ Feeds \cap {Seed, Corpus, Watchlist} = {}
  /\ Corpus \notin {Seed, Watchlist, Ioc}
  /\ Nothing \notin Items
  /\ MaxRelease \in Nat \ {0}
  /\ Elsewhere \subseteq Nat \ (0..MaxRelease)
  /\ VersionOf \in [Versioned -> [Releases -> Nat]]
  /\ Inventory \in [Releases -> Nat]
  /\ MaxFaults \in Nat

NoRecords == [k \in Channels |-> 0]

\* Where a process is after its work: the watch goes on, a command is over.
Rest(p) == IF p = Watcher THEN "idle" ELSE "over"

Pulling == {"manifest", "download", "import", "floor", "read", "write"}

Init ==
  /\ newest = [k \in Channels |-> 1]
  /\ installed = [i \in Items |-> 0]
  /\ version = [i \in Versioned |-> 0]
  /\ floor = 0
  /\ recorded = NoRecords
  /\ pc = [p \in Procs |-> "idle"]
  /\ todo = [p \in Procs |-> {}]
  /\ item = [p \in Procs |-> Nothing]
  /\ tag = [p \in Procs |-> 0]
  /\ how = [p \in Procs |-> "bare"]
  /\ view = [p \in Procs |-> NoRecords]
  /\ overtaken = {}
  /\ loose = {}
  /\ brought = {}
  /\ faults = 0

\* A row is left as it is by what carries no version.
Kept(old, new) == IF new = 0 THEN old ELSE new

\* The file is rewritten in place: a reader may find it torn, which reads as
\* no records at all.
Seen(p) ==
  {recorded} \cup
  IF \E q \in Procs \ {p} : pc[q] = "write" THEN {NoRecords} ELSE {}

\* The next of the items S is pulled from release v, or the pull is over.
Take(p, S, v, way) ==
  /\ IF S = {}
     THEN /\ pc' = [pc EXCEPT ![p] = Rest(p)]
          /\ item' = [item EXCEPT ![p] = Nothing]
          /\ tag' = [tag EXCEPT ![p] = 0]
          /\ how' = [how EXCEPT ![p] = "bare"]
          /\ UNCHANGED <<todo, overtaken>>
     ELSE \E i \in S :
            /\ pc' = [pc EXCEPT ![p] = IF i \in {Seed, Corpus} /\ way # "file"
                                       THEN "manifest" ELSE "download"]
            /\ item' = [item EXCEPT ![p] = i]
            /\ tag' = [tag EXCEPT ![p] = v]
            /\ how' = [how EXCEPT ![p] = way]
            /\ todo' = [todo EXCEPT ![p] = S \ {i}]
            /\ overtaken' = IF \E q \in Procs \ {p} : item[q] = i
                            THEN overtaken \cup {i} ELSE overtaken
  /\ view' = [view EXCEPT ![p] = NoRecords]

Proceed(p) == Take(p, todo[p], tag[p], "bare")

\* The process is gone, or goes on with something else.
Drop(p, place) ==
  /\ pc' = [pc EXCEPT ![p] = place]
  /\ todo' = [todo EXCEPT ![p] = {}]
  /\ item' = [item EXCEPT ![p] = Nothing]
  /\ tag' = [tag EXCEPT ![p] = 0]
  /\ how' = [how EXCEPT ![p] = "bare"]
  /\ view' = [view EXCEPT ![p] = NoRecords]

GoTo(p, place) == pc' = [pc EXCEPT ![p] = place]

\* On to the next step with the item, or to the next item.
Step(p, place) == GoTo(p, place) /\ UNCHANGED <<todo, item, tag, how, view, overtaken>>
Onward(p, place) == IF place = "end" THEN Proceed(p) ELSE Step(p, place)

\* What an import refuses: a version below the item's row.  Without a version,
\* or a row, nothing is compared.
TooOld(i, v) ==
  /\ i \in Versioned
  /\ VersionOf[i][v] # 0
  /\ VersionOf[i][v] < version[i]

-----------------------------------------------------------------------------
(* Plausible bugs, each checked to break a property when it stands in for  *)
(* the definition its comment names.                                       *)

\* Manifest: the inventory's version is the floor as soon as it is read.
ManifestFloors(p) ==
  /\ pc[p] = "manifest"
  /\ Inventory[tag[p]] # 0 => Inventory[tag[p]] >= floor
  /\ floor' = Kept(floor, Inventory[tag[p]])
  /\ how' = [how EXCEPT ![p] = "listed"]
  /\ GoTo(p, "download")
  /\ UNCHANGED <<newest, installed, version, recorded, todo, item, tag, view, history, faults>>

\* Download: an older release is imported like any other.
DownloadUnchecked(p) ==
  /\ pc[p] = "download"
  /\ Step(p, "import")
  /\ UNCHANGED <<newest, disk, loose, brought, faults>>

\* FeedRaises: an operator's process, too, is taken for a watch that ended.
FeedRaisesAlike(p) ==
  /\ pc[p] \in {"download", "import", "floor"}
  /\ item[p] \in Feeds
  /\ faults < MaxFaults
  /\ faults' = faults + 1
  /\ loose' = IF pc[p] = "floor" THEN loose \cup {item[p]} ELSE loose
  /\ Drop(p, "dead")
  /\ UNCHANGED <<newest, disk, overtaken, brought>>

\* Ask: any recorded tag counts as pulled.
AskOnce(k) ==
  /\ pc[Watcher] = "idle"
  /\ \E seen \in Seen(Watcher) : seen[k] = 0
  /\ Take(Watcher, ItemsOf(k), newest[k], "bare")
  /\ UNCHANGED <<newest, disk, loose, brought, faults>>

-----------------------------------------------------------------------------
(* The publishers, and what starts a pull.                                 *)

Publish(k) ==
  /\ newest[k] < MaxRelease
  /\ newest' = [newest EXCEPT ![k] = @ + 1]
  /\ UNCHANGED <<disk, local, history, faults>>

\* auto_pull: the channel offers a tag that is not the recorded one.  (With
\* no answer, or the same tag, nothing happens.)
Ask(k) ==
  /\ pc[Watcher] = "idle"
  /\ \E seen \in Seen(Watcher) : seen[k] # newest[k]
  /\ Take(Watcher, ItemsOf(k), newest[k], "bare")
  /\ UNCHANGED <<newest, disk, loose, brought, faults>>

\* What a command may ask a channel for: an older tag by name or, when the
\* channel does not answer, by configuration; for baselines also --channel.
Offered(k) == 1..newest[k] \cup IF k = Seed THEN Elsewhere ELSE {}

\* seed fetch, ioc update, watchlist update, and the pull a notice offers:
\* none looks at the record again.
Command(p, k) ==
  /\ pc[p] = "idle"
  /\ \E v \in Offered(k) : Take(p, ItemsOf(k), v, "bare")
  /\ UNCHANGED <<newest, disk, loose, brought, faults>>

\* corpus fetch goes by the same inventory, and raises the floor of the seed.
CorpusFetch(p) ==
  /\ pc[p] = "idle"
  /\ \E v \in Offered(Seed) : Take(p, {Corpus}, v, "bare")
  /\ UNCHANGED <<newest, disk, loose, brought, faults>>

\* seed-db --file with an archive, which is checked like any other ...
SeedFile(p) ==
  /\ pc[p] = "idle"
  /\ \E v \in Offered(Seed) : Take(p, {Seed}, v, "file")
  /\ UNCHANGED <<newest, disk, loose, brought, faults>>

\* ... and with a database of the old format, which is not.
LegacySeed(p) ==
  /\ pc[p] = "idle"
  /\ \E v \in Elsewhere :
       /\ installed' = [installed EXCEPT ![Seed] = v]
       /\ version' = [version EXCEPT ![Seed] = Kept(@, VersionOf[Seed][v])]
       /\ brought' = brought \cup {<<Seed, v>>}
  /\ loose' = loose \cup {Seed}
  /\ GoTo(p, Rest(p))
  /\ UNCHANGED <<newest, floor, recorded, todo, item, tag, how, view, overtaken, faults>>

-----------------------------------------------------------------------------
(* pull_baseline_seed, corpus_fetch, _release_channel_feed, pull_watchlist. *)

\* The signed inventory of a baseline release; an older one is refused.
Manifest(p) ==
  /\ pc[p] = "manifest"
  /\ Inventory[tag[p]] # 0 => Inventory[tag[p]] >= floor
  /\ how' = [how EXCEPT ![p] = "listed"]
  /\ GoTo(p, "download")
  /\ UNCHANGED <<newest, disk, todo, item, tag, view, history, faults>>

\* So is one that has expired, is malformed or does not verify.
ManifestRefused(p) ==
  /\ pc[p] = "manifest"
  /\ Proceed(p)
  /\ UNCHANGED <<newest, disk, loose, brought, faults>>

\* An inventory that cannot be downloaded is taken for one the release does
\* not have.
ManifestLost(p) ==
  /\ pc[p] = "manifest"
  /\ Step(p, "download")
  /\ UNCHANGED <<newest, disk, loose, brought, faults>>

\* A verified download goes straight to its import, which refuses an older
\* release before its transaction begins.
Download(p) ==
  /\ pc[p] = "download"
  /\ Onward(p, IF TooOld(item[p], tag[p]) THEN "end" ELSE "import")
  /\ UNCHANGED <<newest, disk, loose, brought, faults>>

DownloadFails(p) ==
  /\ pc[p] = "download"
  /\ Proceed(p)
  /\ UNCHANGED <<newest, disk, loose, brought, faults>>

\* Where a pull goes on after its import: a file and a corpus are not on the
\* record of pulls.
AfterImport(p) ==
  IF item[p] \in Feeds \/ how[p] = "listed" THEN "floor"
  ELSE IF item[p] = Corpus \/ how[p] = "file" THEN "end" ELSE "read"

\* One transaction replaces the item's rows, and a seed's seed_version.
Import(p) ==
  /\ pc[p] = "import"
  /\ installed' = [installed EXCEPT ![item[p]] = tag[p]]
  /\ version' = IF item[p] = Seed
                THEN [version EXCEPT ![Seed] = Kept(@, VersionOf[Seed][tag[p]])]
                ELSE version
  /\ brought' = brought \cup {<<item[p], tag[p]>>}
  /\ Onward(p, AfterImport(p))
  /\ UNCHANGED <<newest, floor, recorded, loose, faults>>

\* The version of a feed, or of an inventory, is a row of another transaction.
SetFloor(p) ==
  /\ pc[p] = "floor"
  /\ IF item[p] \in Feeds
     THEN /\ version' = [version EXCEPT ![item[p]] = Kept(@, VersionOf[item[p]][tag[p]])]
          /\ UNCHANGED floor
     ELSE /\ floor' = Kept(floor, Inventory[tag[p]])
          /\ UNCHANGED version
  /\ Onward(p, IF item[p] = Corpus THEN "end" ELSE "read")
  /\ UNCHANGED <<newest, installed, recorded, loose, brought, faults>>

\* record_pull reads the whole file and writes it back ...
ReadRecords(p) ==
  /\ pc[p] = "read"
  /\ \E seen \in Seen(p) :
       view' = [view EXCEPT ![p] = [seen EXCEPT ![Channel(item[p])] = tag[p]]]
  /\ GoTo(p, "write")
  /\ UNCHANGED <<newest, disk, todo, item, tag, how, history, faults>>

\* ... if it can: one that cannot be written is left as it was, or torn.
WriteRecords(p) ==
  /\ pc[p] = "write"
  /\ recorded' \in {view[p], recorded, NoRecords}
  /\ Proceed(p)
  /\ UNCHANGED <<newest, installed, version, floor, loose, brought, faults>>

\* An import or a floor that finds the database locked: auto_pull notes it and
\* goes on, and a command ends.
Locked(p) ==
  /\ pc[p] \in {"import", "floor"}
  /\ item[p] \notin Feeds
  /\ faults < MaxFaults
  /\ faults' = faults + 1
  /\ Proceed(p)
  /\ UNCHANGED <<newest, disk, loose, brought>>

\* With a feed, this, or a channel's key that cannot be read, raises through
\* auto_pull and ends the watch.
FeedRaises(p) ==
  /\ pc[p] \in {"download", "import", "floor"}
  /\ item[p] \in Feeds
  /\ faults < MaxFaults
  /\ faults' = faults + 1
  /\ loose' = IF pc[p] = "floor" THEN loose \cup {item[p]} ELSE loose
  /\ Drop(p, IF p = Watcher THEN "dead" ELSE "over")
  /\ UNCHANGED <<newest, disk, overtaken, brought>>

\* A process is killed, and a watch started again.
Crash(p) ==
  /\ pc[p] \in Pulling
  /\ faults < MaxFaults
  /\ faults' = faults + 1
  /\ loose' = IF pc[p] = "floor" THEN loose \cup ({item[p]} \cap Feeds) ELSE loose
  /\ recorded' \in {recorded} \cup IF pc[p] = "write" THEN {NoRecords} ELSE {}
  /\ Drop(p, Rest(p))
  /\ UNCHANGED <<newest, installed, version, floor, overtaken, brought>>

-----------------------------------------------------------------------------
Work(p) ==
  \/ Manifest(p) \/ ManifestRefused(p) \/ ManifestLost(p)
  \/ Download(p) \/ DownloadFails(p) \/ Import(p)
  \/ SetFloor(p) \/ ReadRecords(p) \/ WriteRecords(p)

ByHand(p) ==
  \/ \E k \in Channels : Command(p, k)
  \/ Seed \in Channels /\ (CorpusFetch(p) \/ SeedFile(p) \/ LegacySeed(p))

Next ==
  \/ \E k \in Channels : Publish(k) \/ Ask(k)
  \/ \E p \in Operators : ByHand(p)
  \/ \E p \in Procs : Work(p) \/ Locked(p) \/ FeedRaises(p) \/ Crash(p)

Spec == Init /\ [][Next]_vars

\* The watch goes on and asks every channel in every cycle; no asset fails to
\* download for ever, and no inventory is refused for ever for what is not in
\* its version.  Nothing is asked of the operators.
Reads        == Manifest(Watcher) \/ ManifestLost(Watcher)
Downloads(i) == item[Watcher] = i /\ Download(Watcher)

Fairness ==
  /\ WF_vars(Work(Watcher)) /\ SF_vars(Reads)
  /\ \A k \in Channels :
       SF_vars(Ask(k)) /\ \A i \in ItemsOf(k) : SF_vars(Downloads(i))

FairSpec == Spec /\ Fairness

-----------------------------------------------------------------------------
TypeOK ==
  /\ newest \in [Channels -> 1..MaxRelease]
  /\ installed \in [Items -> {0} \cup Releases]
  /\ version \in [Versioned -> Nat]
  /\ floor \in Nat
  /\ recorded \in [Channels -> {0} \cup Releases]
  /\ pc \in [Procs -> Pulling \cup {"idle", "over", "dead"}]
  /\ todo \in [Procs -> SUBSET Items]
  /\ item \in [Procs -> Items \cup {Nothing}]
  /\ tag \in [Procs -> {0} \cup Releases]
  /\ how \in [Procs -> {"bare", "listed", "file"}]
  /\ view \in [Procs -> [Channels -> {0} \cup Releases]]
  /\ overtaken \subseteq Items
  /\ loose \subseteq Versioned
  /\ brought \subseteq Items \X Releases
  /\ faults \in 0..MaxFaults
  /\ \A p \in Operators : pc[p] # "dead"

\* What replaces a seed or a feed is not older, by the versions they carry, than
\* anything that was ever imported in its place, with three exceptions: two
\* processes pulled the item at the same time (check and import are not one
\* step), a feed's version was lost between its import and its row, or a seed
\* came from a file of the old format.
NeverOlder ==
  [][\A i \in Versioned \ (overtaken \cup loose') :
       installed'[i] # installed[i] /\ VersionOf[i][installed'[i]] # 0 =>
         \A r \in Releases : <<i, r>> \in brought =>
           VersionOf[i][r] <= VersionOf[i][installed'[i]]]_vars

\* Whatever crashes, fails or overlaps, what is on record was imported before:
\* the tag that counts as pulled, the version below which a seed or a feed is
\* refused, and the version below which an inventory is, be it a seed's or a
\* corpus's.
RecordsHonest ==
  /\ \A k \in Channels : recorded[k] # 0 =>
       \E i \in ItemsOf(k) : <<i, recorded[k]>> \in brought
  /\ \A i \in Versioned : version[i] # 0 =>
       \E r \in Releases : <<i, r>> \in brought /\ VersionOf[i][r] = version[i]
  /\ floor # 0 =>
       \E i \in {Seed, Corpus}, r \in Releases :
         <<i, r>> \in brought /\ Inventory[r] = floor

\* "after each cycle check the followed baseline channel and pull and import
\* a newer baseline-seed.tar.gz": once nothing is published any more the seed
\* is the newest, after crashes, torn records and lost downloads, corpora and
\* older seeds fetched by hand, as long as every release of the publisher has a
\* higher version than the last, no two processes import the seed at once,
\* nothing comes from elsewhere and the watch lives.
AtHome == \A i \in {Seed, Corpus}, r \in Elsewhere : <<i, r>> \notin brought

CatchesUp ==
  [](Seed \notin overtaken /\ AtHome /\ pc[Watcher] # "dead")
    => <>[](installed[Seed] = newest[Seed])

\* "after each cycle pull and import newer IOC feeds": so is every feed, under
\* the same conditions.
FeedsCatchUp ==
  [](overtaken = {} /\ pc[Watcher] # "dead")
    => \A f \in Feeds : []<>(installed[f] = newest[Ioc])

\* "it never raises, because a failed data pull must not kill the watch".
WatchSurvives == pc[Watcher] # "dead"
=============================================================================
