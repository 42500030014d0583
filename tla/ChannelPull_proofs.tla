------------------------- MODULE ChannelPull_proofs -------------------------
(***************************************************************************)
(* Pulls of signed data by any number of processes, of any feeds, releases *)
(* and versions: nothing is on record before its import, and what replaces *)
(* a seed or a feed is not older than anything imported before, apart from *)
(* items that two processes pulled at once and items whose version row was *)
(* lost or set by a seed of the old format.                                *)
(***************************************************************************)
EXTENDS ChannelPull, TLAPS

\* A process that pulls has an item and its release, ...
Turns ==
  \A p \in Procs :
    /\ item[p] \in Items <=> pc[p] \in Pulling
    /\ item[p] \in Items => tag[p] \in Releases

\* ... and an item never pulled by two at once is in one process's hands.
Sole ==
  \A p, q \in Procs : item[p] \in Items \ overtaken /\ item[q] = item[p] => p = q

\* Only baselines have an inventory, and corpora are not put on record.
Listed ==
  \A p \in Procs :
    /\ pc[p] = "manifest" \/ how[p] = "listed" => item[p] \in {Seed, Corpus}
    /\ pc[p] = "floor" => item[p] \in Feeds \cup {Seed, Corpus}
    /\ pc[p] \in {"read", "write"} => item[p] # Corpus

\* What a process puts on record it has imported.
Imported ==
  \A p \in Procs :
    pc[p] \in {"floor", "read", "write"} => <<item[p], tag[p]>> \in brought

Stands(k, v) == v # 0 => \E i \in ItemsOf(k) : <<i, v>> \in brought

Views ==
  \A p \in Procs : pc[p] = "write" => \A k \in Channels : Stands(k, view[p][k])

\* The items that NeverOlder does not exempt.
Strict == Versioned \ (overtaken \cup loose)

\* The version row of an item is as high as any version it was imported with,
\* except for a feed between its two commits.
Highest ==
  \A i \in Strict, r \in Releases : <<i, r>> \in brought =>
    \/ VersionOf[i][r] <= version[i]
    \/ \E p \in Procs : i \in Feeds /\ pc[p] = "floor" /\ item[p] = i /\ tag[p] = r

\* What the check before the import saw is still so at the import and after.
Checked ==
  \A p \in Procs :
    /\ item[p] \in Strict /\ VersionOf[item[p]][tag[p]] # 0
    /\ pc[p] = "import" \/ (pc[p] = "floor" /\ item[p] \in Feeds)
    => version[item[p]] <= VersionOf[item[p]][tag[p]]

PullInv ==
  /\ TypeOK /\ Turns /\ Sole /\ Listed /\ Imported /\ Views /\ Highest /\ Checked
  /\ RecordsHonest

-----------------------------------------------------------------------------
(* Items, channels and what the two ways of ending an item's turn do.      *)

LEMMA ItemFacts ==
  /\ Nothing \notin Items
  /\ Seed \notin Feeds /\ Corpus \notin Feeds /\ Seed # Corpus
  /\ \A k \in Channels : ItemsOf(k) \in SUBSET Items
  /\ Seed \in Channels => {Corpus} \in SUBSET Items /\ {Seed} \in SUBSET Items
  /\ \A i \in Items : Channel(i) \in Channels
  /\ \A i \in Items \ {Corpus} : i \in ItemsOf(Channel(i))
  /\ \A i \in Items : i \in Versioned <=> i \in Feeds \/ i = Seed
<1>1. Nothing \notin Items /\ Seed \notin Feeds /\ Corpus \notin Feeds /\ Seed # Corpus
  BY PullAssumption
<1>2. ASSUME NEW k \in Channels PROVE ItemsOf(k) \in SUBSET Items
  <2>1. ItemsOf(k) \in {ItemsOf(c) : c \in Channels}
    OBVIOUS
  <2>2. \A i \in ItemsOf(k) : i \in UNION {ItemsOf(c) : c \in Channels}
    BY <2>1
  <2> QED BY <2>2 DEF Items, Pulled
<1>3. Seed \in Channels => {Corpus} \in SUBSET Items /\ {Seed} \in SUBSET Items
  <2>1. Seed \in ItemsOf(Seed)
    BY PullAssumption DEF ItemsOf
  <2>2. Seed \in Channels => Corpus \in Items
    BY DEF Items, Pulled
  <2> QED BY <1>2, <2>1, <2>2
<1>4. ASSUME NEW i \in Items
      PROVE  /\ Channel(i) \in Channels
             /\ i # Corpus => i \in ItemsOf(Channel(i))
  <2>1. CASE i = Corpus
    BY <1>1, <2>1, PullAssumption DEF Items, Pulled, ItemsOf, Channel
  <2>2. CASE i # Corpus
    <3>1. i \in UNION {ItemsOf(c) : c \in Channels}
      BY <2>2 DEF Items, Pulled
    <3>2. PICK k \in Channels : i \in ItemsOf(k)
      BY ONLY <3>1
    <3>3. CASE k = Ioc
      BY <2>2, <3>2, <3>3 DEF ItemsOf, Channel
    <3>4. CASE k # Ioc
      <4>1. i = k /\ i \notin Feeds
        BY <3>2, <3>4, PullAssumption DEF ItemsOf
      <4> QED BY <2>2, <3>2, <3>4, <4>1 DEF ItemsOf, Channel
    <3> QED BY <3>3, <3>4
  <2> QED BY <2>1, <2>2
<1>5. \A i \in Items : i \in Versioned <=> i \in Feeds \/ i = Seed
  BY DEF Versioned
<1> QED BY <1>1, <1>2, <1>3, <1>4, <1>5

LEMMA NumberFacts ==
  /\ MaxRelease \in Nat /\ MaxFaults \in Nat /\ 1 \in 1..MaxRelease
  /\ 1..MaxRelease \subseteq Releases /\ Elsewhere \subseteq Releases
  /\ \A v \in Releases : v \in Nat /\ v # 0
  /\ \A i \in Versioned, v \in Releases : VersionOf[i][v] \in Nat
  /\ \A v \in Releases : Inventory[v] \in Nat
  /\ NoRecords \in [Channels -> {0} \cup Releases]
  BY PullAssumption DEF Releases, NoRecords

LEMMA OfferedFacts ==
  ASSUME TypeOK, NEW k \in Channels
  PROVE  Offered(k) \subseteq Releases
<1>1. newest[k] \in 1..MaxRelease
  BY DEF TypeOK
<1>2. 1..newest[k] \subseteq 1..MaxRelease
  BY <1>1, NumberFacts
<1> QED BY <1>2, NumberFacts DEF Offered

\* The processes other than p are where they were.
Others(p) ==
  \A q \in Procs \ {p} :
    /\ pc'[q] = pc[q] /\ item'[q] = item[q] /\ how'[q] = how[q]
    /\ tag'[q] = tag[q] /\ view'[q] = view[q]

Starts == {"idle", "over", "dead", "manifest", "download"}

\* p has no item any more, or the next one; whoever has that one, too, is
\* noticed.
Fresh(p) ==
  /\ pc'[p] \in Starts
  /\ item'[p] \in Items <=> pc'[p] \in Pulling
  /\ item'[p] \in Items => tag'[p] \in Releases
  /\ pc'[p] = "manifest" => item'[p] \in {Seed, Corpus}
  /\ how'[p] # "listed"
  /\ \A q \in Procs \ {p} :
       item'[p] \in Items /\ item[q] = item'[p] => item'[p] \in overtaken'
  /\ overtaken \subseteq overtaken'

\* p goes on with its item.
Along(p) ==
  /\ pc[p] \in Pulling /\ pc'[p] \in Pulling \ {"manifest"}
  /\ item'[p] = item[p] /\ tag'[p] = tag[p] /\ overtaken' = overtaken
  /\ how'[p] = "listed" => how[p] = "listed" \/ pc[p] = "manifest"
  /\ pc'[p] = "floor" => item[p] \in Feeds \cup {Seed, Corpus}
  /\ pc'[p] \in {"read", "write"} => item[p] # Corpus

LocalTypes ==
  /\ pc' \in [Procs -> Pulling \cup {"idle", "over", "dead"}]
  /\ todo' \in [Procs -> SUBSET Items]
  /\ item' \in [Procs -> Items \cup {Nothing}]
  /\ tag' \in [Procs -> {0} \cup Releases]
  /\ how' \in [Procs -> {"bare", "listed", "file"}]
  /\ view' \in [Procs -> [Channels -> {0} \cup Releases]]
  /\ overtaken' \subseteq Items

LEMMA TakeFacts ==
  ASSUME TypeOK, NEW p \in Procs, NEW S \in SUBSET Items, NEW v \in Releases,
         NEW way \in {"bare", "file"}, Take(p, S, v, way)
  PROVE  LocalTypes /\ Others(p) /\ Fresh(p) /\ pc'[p] # "dead"
<1>1. view' \in [Procs -> [Channels -> {0} \cup Releases]]
      /\ \A q \in Procs \ {p} : view'[q] = view[q]
  BY NumberFacts DEF Take, TypeOK
<1>2. CASE S = {}
  <2>1. /\ pc' = [pc EXCEPT ![p] = Rest(p)] /\ item' = [item EXCEPT ![p] = Nothing]
        /\ tag' = [tag EXCEPT ![p] = 0] /\ how' = [how EXCEPT ![p] = "bare"]
        /\ todo' = todo /\ overtaken' = overtaken
    BY <1>2 DEF Take
  <2>2. Rest(p) \in {"idle", "over"}
    BY DEF Rest
  <2>3. LocalTypes
    BY <1>1, <2>1, <2>2 DEF LocalTypes, TypeOK
  <2>4. Others(p)
    BY <1>1, <2>1 DEF Others, TypeOK
  <2>5. pc'[p] \in {"idle", "over"} /\ item'[p] = Nothing /\ how'[p] = "bare"
    BY <2>1, <2>2 DEF TypeOK
  <2> QED BY <2>1, <2>3, <2>4, <2>5, ItemFacts DEF Fresh, Starts, Pulling
<1>3. CASE S # {}
  <2>1. PICK i \in S :
          /\ pc' = [pc EXCEPT ![p] = IF i \in {Seed, Corpus} /\ way # "file"
                                     THEN "manifest" ELSE "download"]
          /\ item' = [item EXCEPT ![p] = i]
          /\ tag' = [tag EXCEPT ![p] = v]
          /\ how' = [how EXCEPT ![p] = way]
          /\ todo' = [todo EXCEPT ![p] = S \ {i}]
          /\ overtaken' = IF \E q \in Procs \ {p} : item[q] = i
                          THEN overtaken \cup {i} ELSE overtaken
    BY <1>3 DEF Take
  <2>2. pc' \in [Procs -> Pulling \cup {"idle", "over", "dead"}]
    BY <2>1 DEF TypeOK, Pulling
  <2>3. item' \in [Procs -> Items \cup {Nothing}] /\ todo' \in [Procs -> SUBSET Items]
        /\ tag' \in [Procs -> {0} \cup Releases]
    BY <2>1 DEF TypeOK
  <2>4. how' \in [Procs -> {"bare", "listed", "file"}] /\ overtaken' \subseteq Items
    BY <2>1 DEF TypeOK
  <2>5. Others(p)
    BY <1>1, <2>1 DEF Others, TypeOK
  <2>6. /\ pc'[p] \in {"manifest", "download"} /\ item'[p] = i /\ tag'[p] = v
        /\ how'[p] = way /\ (pc'[p] = "manifest" => i \in {Seed, Corpus})
    BY <2>1 DEF TypeOK
  <2>7. \A q \in Procs \ {p} : item[q] = i => i \in overtaken'
    BY <2>1
  <2>8. overtaken \subseteq overtaken'
    BY <2>1
  <2>9. Fresh(p)
    BY <2>6, <2>7, <2>8 DEF Fresh, Starts, Pulling
  <2> QED BY <1>1, <2>2, <2>3, <2>4, <2>5, <2>6, <2>9 DEF LocalTypes
<1> QED BY <1>2, <1>3

LEMMA DropFacts ==
  ASSUME TypeOK, NEW p \in Procs, NEW place \in {"idle", "over", "dead"}, Drop(p, place),
         overtaken' = overtaken
  PROVE  LocalTypes /\ Others(p) /\ Fresh(p) /\ pc'[p] = place
<1>1. /\ pc' \in [Procs -> Pulling \cup {"idle", "over", "dead"}]
      /\ todo' \in [Procs -> SUBSET Items]
      /\ item' \in [Procs -> Items \cup {Nothing}]
  BY DEF Drop, TypeOK
<1>2. /\ tag' \in [Procs -> {0} \cup Releases]
      /\ how' \in [Procs -> {"bare", "listed", "file"}]
      /\ view' \in [Procs -> [Channels -> {0} \cup Releases]]
  BY NumberFacts DEF Drop, TypeOK
<1>3. /\ Others(p) /\ pc'[p] = place /\ item'[p] = Nothing /\ how'[p] = "bare"
  BY DEF Drop, Others, TypeOK
<1>4. Fresh(p)
  BY <1>3, ItemFacts DEF Fresh, Starts, Pulling
<1> QED BY <1>1, <1>2, <1>3, <1>4 DEF LocalTypes, TypeOK

\* A process that goes from one place of its pull to another.
LEMMA GoToFacts ==
  ASSUME TypeOK, NEW p \in Procs, NEW place \in Pulling \cup {"over"}, GoTo(p, place)
  PROVE  /\ pc' \in [Procs -> Pulling \cup {"idle", "over", "dead"}]
         /\ pc'[p] = place /\ place # "dead"
         /\ \A q \in Procs \ {p} : pc'[q] = pc[q]
  BY DEF GoTo, TypeOK, Pulling

\* A process at work on an item has a channel and a release.
LEMMA AtWork ==
  ASSUME TypeOK, Turns, NEW p \in Procs, pc[p] \in Pulling
  PROVE  /\ item[p] \in Items /\ Channel(item[p]) \in Channels
         /\ tag[p] \in Releases /\ todo[p] \in SUBSET Items
  BY ItemFacts DEF TypeOK, Turns

LEMMA ProceedFacts ==
  ASSUME TypeOK, Turns, NEW p \in Procs, pc[p] \in Pulling, Proceed(p)
  PROVE  LocalTypes /\ Others(p) /\ Fresh(p) /\ pc'[p] # "dead"
  BY AtWork, TakeFacts DEF Proceed

LEMMA StepFacts ==
  ASSUME TypeOK, NEW p \in Procs, NEW place \in Pulling \ {"manifest"},
         pc[p] \in Pulling, Step(p, place),
         place = "floor" => item[p] \in Feeds \cup {Seed, Corpus},
         place \in {"read", "write"} => item[p] # Corpus
  PROVE  LocalTypes /\ Others(p) /\ Along(p) /\ pc'[p] = place
<1>1. /\ pc' \in [Procs -> Pulling \cup {"idle", "over", "dead"}]
      /\ pc'[p] = place /\ \A q \in Procs \ {p} : pc'[q] = pc[q]
  BY GoToFacts DEF Step
<1>2. UNCHANGED <<todo, item, tag, how, view, overtaken>>
  BY DEF Step
<1>3. LocalTypes
  BY <1>1, <1>2 DEF LocalTypes, TypeOK
<1>4. Others(p)
  BY <1>1, <1>2 DEF Others
<1>5. Along(p)
  BY <1>1, <1>2 DEF Along
<1> QED BY <1>1, <1>3, <1>4, <1>5

-----------------------------------------------------------------------------
LEMMA InitInv == Init => PullInv
<1> SUFFICES ASSUME Init PROVE PullInv
  OBVIOUS
<1>1. TypeOK
  <2>1. 0 \in 0..MaxFaults
    BY NumberFacts
  <2>2. /\ newest \in [Channels -> 1..MaxRelease]
        /\ installed \in [Items -> {0} \cup Releases] /\ version \in [Versioned -> Nat]
        /\ floor \in Nat /\ recorded \in [Channels -> {0} \cup Releases]
    BY NumberFacts DEF Init
  <2>3. /\ pc \in [Procs -> Pulling \cup {"idle", "over", "dead"}]
        /\ todo \in [Procs -> SUBSET Items] /\ item \in [Procs -> Items \cup {Nothing}]
        /\ tag \in [Procs -> {0} \cup Releases] /\ how \in [Procs -> {"bare", "listed", "file"}]
        /\ view \in [Procs -> [Channels -> {0} \cup Releases]]
    BY NumberFacts DEF Init
  <2>4. \A p \in Operators : pc[p] # "dead"
    BY DEF Init, Procs
  <2> QED BY <2>1, <2>2, <2>3, <2>4 DEF Init, TypeOK
<1>2. Turns /\ Sole
  BY ItemFacts DEF Init, Turns, Sole, Pulling
<1>3. Listed /\ Imported /\ Views /\ Highest /\ Checked
  BY DEF Init, Listed, Imported, Views, Highest, Checked
<1>4. RecordsHonest
  BY DEF Init, RecordsHonest, NoRecords
<1> QED BY <1>1, <1>2, <1>3, <1>4 DEF PullInv

-----------------------------------------------------------------------------
(* Types.                                                                  *)

LEMMA Typed ==
  ASSUME TypeOK, NEW p \in Procs, LocalTypes, Others(p), p \in Operators => pc'[p] # "dead",
         newest' = newest, installed' \in [Items -> {0} \cup Releases],
         version' \in [Versioned -> Nat], floor' \in Nat,
         recorded' \in [Channels -> {0} \cup Releases],
         loose' \subseteq Versioned, brought' \subseteq Items \X Releases,
         faults' \in 0..MaxFaults
  PROVE  TypeOK'
<1>1. \A q \in Operators : pc'[q] # "dead"
  BY DEF Others, Procs, TypeOK
<1> QED BY <1>1 DEF LocalTypes, TypeOK

LEMMA Settled ==
  ASSUME TypeOK, NEW p \in Procs, LocalTypes, Others(p), p \in Operators => pc'[p] # "dead",
         UNCHANGED <<newest, disk, loose, brought, faults>>
  PROVE  TypeOK'
  BY Typed DEF TypeOK, disk

LEMMA OneMoreFault ==
  ASSUME TypeOK, faults < MaxFaults
  PROVE  faults + 1 \in 0..MaxFaults
  BY NumberFacts DEF TypeOK

\* The next item's turn, or the next step with this one.
LEMMA OnwardFacts ==
  ASSUME TypeOK, Turns, NEW p \in Procs, pc[p] \in Pulling,
         NEW place \in {"import", "floor", "read", "end"}, Onward(p, place),
         place = "floor" => item[p] \in Feeds \cup {Seed, Corpus},
         place = "read" => item[p] # Corpus
  PROVE  /\ LocalTypes /\ Others(p) /\ pc'[p] # "dead"
         /\ IF place = "end" THEN Fresh(p) ELSE Along(p) /\ pc'[p] = place
<1>1. CASE place = "end"
  <2>1. Proceed(p)
    BY <1>1 DEF Onward
  <2> QED BY <1>1, <2>1, ProceedFacts
<1>2. CASE place # "end"
  <2>1. Step(p, place) /\ place \in Pulling \ {"manifest"} /\ place # "dead"
    BY <1>2 DEF Onward, Pulling
  <2> QED BY <1>2, <2>1, StepFacts
<1> QED BY <1>1, <1>2

\* Where an import goes on, and a floor.
LEMMA AfterImportFacts ==
  ASSUME TypeOK, Turns, Listed, NEW p \in Procs
  PROVE  /\ AfterImport(p) \in {"floor", "read", "end"}
         /\ AfterImport(p) = "floor" => item[p] \in Feeds \cup {Seed, Corpus}
         /\ AfterImport(p) = "read" => item[p] # Corpus
         /\ item[p] \in Feeds => AfterImport(p) = "floor"
<1>1. CASE item[p] \in Feeds \/ how[p] = "listed"
  <2>1. AfterImport(p) = "floor"
    BY <1>1 DEF AfterImport
  <2>2. item[p] \in Feeds \cup {Seed, Corpus}
    BY <1>1 DEF Listed
  <2> QED BY <2>1, <2>2
<1>2. CASE ~ (item[p] \in Feeds \/ how[p] = "listed")
  <2>1. CASE item[p] = Corpus \/ how[p] = "file"
    BY <1>2, <2>1 DEF AfterImport
  <2>2. CASE ~ (item[p] = Corpus \/ how[p] = "file")
    BY <1>2, <2>2 DEF AfterImport
  <2> QED BY <1>2, <2>1, <2>2
<1> QED BY <1>1, <1>2

LEMMA ImportFacts ==
  ASSUME TypeOK, Turns, Listed, NEW p \in Procs, Import(p)
  PROVE  /\ LocalTypes /\ Others(p) /\ pc'[p] # "dead"
         /\ Fresh(p) \/ (Along(p) /\ pc'[p] \in {"floor", "read"})
         /\ item[p] \in Feeds => Along(p) /\ pc'[p] = "floor"
<1>1. pc[p] \in Pulling /\ Onward(p, AfterImport(p))
  BY DEF Import, Pulling
<1>2. PICK place : place = AfterImport(p)
  OBVIOUS
<1>3. /\ place \in {"floor", "read", "end"} /\ Onward(p, place)
      /\ place = "floor" => item[p] \in Feeds \cup {Seed, Corpus}
      /\ place = "read" => item[p] # Corpus
      /\ item[p] \in Feeds => place = "floor"
  BY <1>1, <1>2, AfterImportFacts
<1>4. /\ LocalTypes /\ Others(p) /\ pc'[p] # "dead"
      /\ IF place = "end" THEN Fresh(p) ELSE Along(p) /\ pc'[p] = place
  BY <1>1, <1>3, OnwardFacts
<1> QED BY <1>3, <1>4

LEMMA FloorFacts ==
  ASSUME TypeOK, Turns, Listed, NEW p \in Procs, SetFloor(p)
  PROVE  /\ LocalTypes /\ Others(p) /\ pc'[p] # "dead"
         /\ Fresh(p) \/ (Along(p) /\ pc'[p] = "read")
<1>1. pc[p] \in Pulling
  BY DEF SetFloor, Pulling
<1>2. PICK place \in {"read", "end"} : Onward(p, place) /\ (place = "read" => item[p] # Corpus)
  BY DEF SetFloor
<1>3. /\ LocalTypes /\ Others(p) /\ pc'[p] # "dead"
      /\ IF place = "end" THEN Fresh(p) ELSE Along(p) /\ pc'[p] = place
  BY <1>1, <1>2, OnwardFacts
<1> QED BY <1>2, <1>3

LEMMA KeptFacts ==
  ASSUME NEW a \in Nat, NEW b \in Nat
  PROVE  Kept(a, b) \in Nat
  BY DEF Kept

LEMMA TypeStep ==
  ASSUME TypeOK, Turns, Listed, Next
  PROVE  TypeOK'
<1> USE DEF history, disk, local
<1>1. ASSUME NEW k \in Channels, Publish(k) PROVE TypeOK'
  <2>1. newest' \in [Channels -> 1..MaxRelease]
    BY <1>1, NumberFacts DEF Publish, TypeOK
  <2> QED BY <1>1, <2>1 DEF Publish, TypeOK
<1>2. ASSUME NEW k \in Channels, Ask(k) PROVE TypeOK'
  <2>1. Watcher \in Procs /\ ItemsOf(k) \in SUBSET Items /\ newest[k] \in Releases
    BY ItemFacts, NumberFacts DEF TypeOK, Procs
  <2>2. Take(Watcher, ItemsOf(k), newest[k], "bare")
    BY <1>2 DEF Ask
  <2>3. LocalTypes /\ Others(Watcher) /\ pc'[Watcher] # "dead"
    BY <2>1, <2>2, TakeFacts
  <2> QED BY <1>2, <2>1, <2>3, Settled DEF Ask
\* What an operator starts with an item to download.
<1>3. ASSUME NEW p \in Operators, NEW S \in SUBSET Items, NEW v \in Releases,
             NEW way \in {"bare", "file"}, Take(p, S, v, way),
             UNCHANGED <<newest, disk, loose, brought, faults>>
      PROVE  TypeOK'
  <2>1. p \in Procs
    BY DEF Procs
  <2>2. LocalTypes /\ Others(p) /\ pc'[p] # "dead"
    BY <1>3, <2>1, TakeFacts
  <2> QED BY <1>3, <2>1, <2>2, Settled
<1>4. ASSUME NEW p \in Operators, ByHand(p) PROVE TypeOK'
  <2>1. ASSUME NEW k \in Channels, Command(p, k) PROVE TypeOK'
    <3>1. PICK v \in Offered(k) : Take(p, ItemsOf(k), v, "bare")
      BY <2>1 DEF Command
    <3>2. v \in Releases /\ ItemsOf(k) \in SUBSET Items
      BY OfferedFacts, ItemFacts
    <3> QED BY <1>3, <2>1, <3>1, <3>2 DEF Command
  <2>2. ASSUME Seed \in Channels, CorpusFetch(p) PROVE TypeOK'
    <3>1. PICK v \in Offered(Seed) : Take(p, {Corpus}, v, "bare")
      BY <2>2 DEF CorpusFetch
    <3>2. v \in Releases /\ {Corpus} \in SUBSET Items
      BY <2>2, OfferedFacts, ItemFacts
    <3> QED BY <1>3, <2>2, <3>1, <3>2 DEF CorpusFetch
  <2>3. ASSUME Seed \in Channels, SeedFile(p) PROVE TypeOK'
    <3>1. PICK v \in Offered(Seed) : Take(p, {Seed}, v, "file")
      BY <2>3 DEF SeedFile
    <3>2. v \in Releases /\ {Seed} \in SUBSET Items
      BY <2>3, OfferedFacts, ItemFacts
    <3> QED BY <1>3, <2>3, <3>1, <3>2 DEF SeedFile
  <2>4. ASSUME Seed \in Channels, LegacySeed(p) PROVE TypeOK'
    <3>1. p \in Procs /\ p # Watcher /\ Seed \in Versioned /\ Seed \in Items
      BY <2>4, ItemFacts, PullAssumption DEF Procs
    <3>2. PICK v \in Elsewhere :
            /\ installed' = [installed EXCEPT ![Seed] = v]
            /\ version' = [version EXCEPT ![Seed] = Kept(@, VersionOf[Seed][v])]
            /\ brought' = brought \cup {<<Seed, v>>}
      BY <2>4 DEF LegacySeed
    <3>3. v \in Releases
      BY NumberFacts
    <3>4. installed' \in [Items -> {0} \cup Releases] /\ brought' \subseteq Items \X Releases
      BY <3>1, <3>2, <3>3 DEF TypeOK
    <3>5. Kept(version[Seed], VersionOf[Seed][v]) \in Nat
      BY <3>1, <3>3, NumberFacts, KeptFacts DEF TypeOK
    <3>6. version' \in [Versioned -> Nat]
      BY <3>2, <3>5 DEF TypeOK
    <3>7. GoTo(p, Rest(p)) /\ UNCHANGED <<todo, item, tag, how, view, overtaken>>
      BY <2>4 DEF LegacySeed
    <3>8. GoTo(p, "over")
      BY <3>1, <3>7 DEF Rest
    <3>9. /\ pc' \in [Procs -> Pulling \cup {"idle", "over", "dead"}] /\ pc'[p] # "dead"
          /\ \A q \in Procs \ {p} : pc'[q] = pc[q]
      BY <3>1, <3>8, GoToFacts
    <3>10. LocalTypes /\ Others(p)
      BY <3>7, <3>9 DEF LocalTypes, Others, TypeOK
    <3>11. UNCHANGED <<newest, floor, recorded, faults>> /\ loose' \subseteq Versioned
      BY <2>4, <3>1 DEF LegacySeed, TypeOK
    <3> QED BY <3>1, <3>4, <3>6, <3>9, <3>10, <3>11, Typed DEF TypeOK
  <2> QED BY <1>4, <2>1, <2>2, <2>3, <2>4 DEF ByHand
<1>5. ASSUME NEW p \in Procs, ManifestRefused(p) \/ DownloadFails(p) PROVE TypeOK'
  <2>1. pc[p] \in Pulling /\ Proceed(p) /\ UNCHANGED <<newest, disk, loose, brought, faults>>
    BY <1>5 DEF ManifestRefused, DownloadFails, Pulling
  <2> QED BY <2>1, ProceedFacts, Settled
<1>6. ASSUME NEW p \in Procs, Manifest(p) PROVE TypeOK'
  <2>1. GoTo(p, "download") /\ "download" \in Pulling
    BY <1>6 DEF Manifest, Pulling
  <2>2. /\ pc' \in [Procs -> Pulling \cup {"idle", "over", "dead"}]
        /\ pc'[p] # "dead" /\ \A q \in Procs \ {p} : pc'[q] = pc[q]
    BY <2>1, GoToFacts
  <2>3. /\ how' \in [Procs -> {"bare", "listed", "file"}]
        /\ \A q \in Procs \ {p} : how'[q] = how[q]
        /\ UNCHANGED <<todo, item, tag, view, overtaken>>
    BY <1>6 DEF Manifest, TypeOK
  <2>4. LocalTypes /\ Others(p)
    BY <2>2, <2>3 DEF LocalTypes, Others, TypeOK
  <2> QED BY <1>6, <2>2, <2>4, Settled DEF Manifest
<1>7. ASSUME NEW p \in Procs, ManifestLost(p) PROVE TypeOK'
  <2>1. pc[p] \in Pulling /\ Step(p, "download") /\ "download" \in Pulling \ {"manifest"}
    BY <1>7 DEF ManifestLost, Pulling
  <2>2. LocalTypes /\ Others(p) /\ pc'[p] # "dead"
    BY <2>1, StepFacts
  <2> QED BY <1>7, <2>2, Settled DEF ManifestLost
<1>8. ASSUME NEW p \in Procs, Download(p) PROVE TypeOK'
  <2>1. UNCHANGED <<newest, disk, loose, brought, faults>> /\ pc[p] \in Pulling
    BY <1>8 DEF Download, Pulling
  <2>2. PICK place \in {"import", "end"} : Onward(p, place)
    BY <1>8 DEF Download
  <2>3. LocalTypes /\ Others(p) /\ pc'[p] # "dead"
    BY <2>1, <2>2, OnwardFacts
  <2> QED BY <2>1, <2>3, Settled
<1>9. ASSUME NEW p \in Procs, Import(p) PROVE TypeOK'
  <2>1. item[p] \in Items /\ tag[p] \in Releases
    BY <1>9, AtWork DEF Import, Pulling
  <2>2. installed' \in [Items -> {0} \cup Releases] /\ brought' \subseteq Items \X Releases
    BY <1>9, <2>1 DEF Import, TypeOK
  <2>3. version' \in [Versioned -> Nat]
    <3>1. CASE item[p] = Seed
      <4>1. Seed \in Versioned
        BY <2>1, <3>1, ItemFacts
      <4>2. Kept(version[Seed], VersionOf[Seed][tag[p]]) \in Nat
        BY <2>1, <4>1, NumberFacts, KeptFacts DEF TypeOK
      <4>3. version' = [version EXCEPT ![Seed] = Kept(@, VersionOf[Seed][tag[p]])]
        BY <1>9, <3>1 DEF Import
      <4> QED BY <4>2, <4>3 DEF TypeOK
    <3>2. CASE item[p] # Seed
      BY <1>9, <3>2 DEF Import, TypeOK
    <3> QED BY <3>1, <3>2
  <2>4. LocalTypes /\ Others(p) /\ pc'[p] # "dead"
    BY <1>9, ImportFacts
  <2>5. UNCHANGED <<newest, floor, recorded, loose, faults>>
    BY <1>9 DEF Import
  <2> QED BY <2>2, <2>3, <2>4, <2>5, Typed DEF TypeOK
<1>10. ASSUME NEW p \in Procs, SetFloor(p) PROVE TypeOK'
  <2>1. item[p] \in Items /\ tag[p] \in Releases
    BY <1>10, AtWork DEF SetFloor, Pulling
  <2>2. version' \in [Versioned -> Nat] /\ floor' \in Nat
    <3>1. CASE item[p] \in Feeds
      <4>1. item[p] \in Versioned
        BY <2>1, <3>1, ItemFacts
      <4>2. Kept(version[item[p]], VersionOf[item[p]][tag[p]]) \in Nat
        BY <2>1, <4>1, NumberFacts, KeptFacts DEF TypeOK
      <4>3. version' = [version EXCEPT ![item[p]] = Kept(@, VersionOf[item[p]][tag[p]])]
            /\ floor' = floor
        BY <1>10, <3>1 DEF SetFloor
      <4> QED BY <4>2, <4>3 DEF TypeOK
    <3>2. CASE item[p] \notin Feeds
      <4>1. Kept(floor, Inventory[tag[p]]) \in Nat
        BY <2>1, NumberFacts, KeptFacts DEF TypeOK
      <4> QED BY <1>10, <3>2, <4>1 DEF SetFloor, TypeOK
    <3> QED BY <3>1, <3>2
  <2>3. LocalTypes /\ Others(p) /\ pc'[p] # "dead"
    BY <1>10, FloorFacts
  <2>4. UNCHANGED <<newest, installed, recorded, loose, brought, faults>>
    BY <1>10 DEF SetFloor
  <2> QED BY <2>2, <2>3, <2>4, Typed DEF TypeOK
<1>11. ASSUME NEW p \in Procs, ReadRecords(p) PROVE TypeOK'
  <2>1. Channel(item[p]) \in Channels /\ tag[p] \in Releases
    BY <1>11, AtWork DEF ReadRecords, Pulling
  <2>2. PICK seen \in Seen(p) : view' = [view EXCEPT ![p] = [seen EXCEPT ![Channel(item[p])] = tag[p]]]
    BY <1>11 DEF ReadRecords
  <2>3. seen \in [Channels -> {0} \cup Releases]
    BY <2>2, NumberFacts DEF Seen, TypeOK
  <2>4. [seen EXCEPT ![Channel(item[p])] = tag[p]] \in [Channels -> {0} \cup Releases]
    BY <2>1, <2>3
  <2>5. view' \in [Procs -> [Channels -> {0} \cup Releases]]
        /\ \A q \in Procs \ {p} : view'[q] = view[q]
    BY <2>2, <2>4 DEF TypeOK
  <2>6. GoTo(p, "write") /\ "write" \in Pulling
    BY <1>11 DEF ReadRecords, Pulling
  <2>7. /\ pc' \in [Procs -> Pulling \cup {"idle", "over", "dead"}]
        /\ pc'[p] # "dead" /\ \A q \in Procs \ {p} : pc'[q] = pc[q]
    BY <2>6, GoToFacts
  <2>8. UNCHANGED <<todo, item, tag, how, overtaken>>
    BY <1>11 DEF ReadRecords
  <2>9. LocalTypes /\ Others(p)
    BY <2>5, <2>7, <2>8 DEF LocalTypes, Others, TypeOK
  <2> QED BY <1>11, <2>7, <2>9, Settled DEF ReadRecords
<1>12. ASSUME NEW p \in Procs, WriteRecords(p) PROVE TypeOK'
  <2>1. pc[p] \in Pulling /\ Proceed(p)
        /\ UNCHANGED <<newest, installed, version, floor, loose, brought, faults>>
    BY <1>12 DEF WriteRecords, Pulling
  <2>2. recorded' \in [Channels -> {0} \cup Releases]
    BY <1>12, NumberFacts DEF WriteRecords, TypeOK
  <2>3. LocalTypes /\ Others(p) /\ pc'[p] # "dead"
    BY <2>1, ProceedFacts
  <2> QED BY <2>1, <2>2, <2>3, Typed DEF TypeOK
<1>13. ASSUME NEW p \in Procs, Locked(p) PROVE TypeOK'
  <2>1. pc[p] \in Pulling /\ Proceed(p) /\ UNCHANGED <<newest, disk, loose, brought>>
    BY <1>13 DEF Locked, Pulling
  <2>2. faults' \in 0..MaxFaults
    BY <1>13, OneMoreFault DEF Locked
  <2>3. LocalTypes /\ Others(p) /\ pc'[p] # "dead"
    BY <2>1, ProceedFacts
  <2> QED BY <2>1, <2>2, <2>3, Typed DEF TypeOK
<1>14. ASSUME NEW p \in Procs, FeedRaises(p) PROVE TypeOK'
  <2>1. PICK place \in {"idle", "over", "dead"} :
          Drop(p, place) /\ (p # Watcher => place = "over")
    BY <1>14 DEF FeedRaises
  <2>2. UNCHANGED <<newest, disk, overtaken, brought>>
    BY <1>14 DEF FeedRaises
  <2>3. LocalTypes /\ Others(p) /\ pc'[p] = place
    BY <2>1, <2>2, DropFacts
  <2>4. p \in Operators => pc'[p] # "dead"
    BY <2>1, <2>3, PullAssumption
  <2>5. faults' \in 0..MaxFaults
    BY <1>14, OneMoreFault DEF FeedRaises
  <2>6. item[p] \in Versioned
    BY <1>14, AtWork, ItemFacts DEF FeedRaises, Pulling
  <2>7. loose' \subseteq Versioned
    BY <1>14, <2>6 DEF FeedRaises, TypeOK
  <2> QED BY <2>2, <2>3, <2>4, <2>5, <2>7, Typed DEF TypeOK
<1>15. ASSUME NEW p \in Procs, Crash(p) PROVE TypeOK'
  <2>1. Drop(p, Rest(p)) /\ Rest(p) \in {"idle", "over", "dead"} /\ Rest(p) # "dead"
        /\ UNCHANGED <<newest, installed, version, floor, overtaken, brought>>
    BY <1>15 DEF Crash, Rest
  <2>2. LocalTypes /\ Others(p) /\ pc'[p] # "dead"
    BY <2>1, DropFacts
  <2>3. faults' \in 0..MaxFaults
    BY <1>15, OneMoreFault DEF Crash
  <2>4. item[p] \in Items
    BY <1>15, AtWork DEF Crash
  <2>5. loose' \subseteq Versioned
    BY <1>15, <2>4, ItemFacts DEF Crash, TypeOK
  <2>6. recorded' \in [Channels -> {0} \cup Releases]
    BY <1>15, NumberFacts DEF Crash, TypeOK
  <2> QED BY <2>1, <2>2, <2>3, <2>5, <2>6, Typed DEF TypeOK
<1> QED
  BY <1>1, <1>2, <1>4, <1>5, <1>6, <1>7, <1>8, <1>9, <1>10, <1>11, <1>12, <1>13, <1>14, <1>15
  DEF Next, Work

-----------------------------------------------------------------------------
(* The rest of the invariant.  Most steps touch neither versions nor what   *)
(* was brought: those are in the lemma Frame.                               *)

Pending ==
  /\ Turns /\ Sole /\ Listed /\ Imported /\ Views /\ Highest /\ Checked
  /\ RecordsHonest

LEMMA Hands ==
  ASSUME PullInv, NEW p \in Procs, Others(p), Fresh(p) \/ Along(p)
  PROVE  Turns' /\ Sole' /\ Listed' /\ overtaken \subseteq overtaken'
<1> USE DEF PullInv
<1>1. Turns'
  <2>1. /\ item'[p] \in Items <=> pc'[p] \in Pulling
        /\ item'[p] \in Items => tag'[p] \in Releases
    BY DEF Turns, Fresh, Along
  <2>2. ASSUME NEW q \in Procs, q # p
        PROVE  /\ item'[q] \in Items <=> pc'[q] \in Pulling
               /\ item'[q] \in Items => tag'[q] \in Releases
    BY <2>2 DEF Turns, Others
  <2> QED BY <2>1, <2>2 DEF Turns
<1>2. overtaken \subseteq overtaken'
  BY DEF Fresh, Along
<1>3. Sole'
  <2>1. ASSUME NEW q \in Procs \ {p}, item'[p] \in Items \ overtaken' PROVE item'[q] # item'[p]
    <3>1. CASE Fresh(p)
      BY <2>1, <3>1 DEF Fresh, Others
    <3>2. CASE Along(p)
      BY <2>1, <3>2 DEF Along, Others, Sole
    <3> QED BY <3>1, <3>2
  <2>2. ASSUME NEW q \in Procs \ {p}, NEW r \in Procs \ {p},
               item'[q] \in Items \ overtaken', item'[r] = item'[q]
        PROVE  q = r
    BY <1>2, <2>2 DEF Others, Sole
  <2> QED BY <2>1, <2>2 DEF Sole
<1>4. Listed'
  <2>1. /\ pc'[p] = "manifest" \/ how'[p] = "listed" => item'[p] \in {Seed, Corpus}
        /\ pc'[p] = "floor" => item'[p] \in Feeds \cup {Seed, Corpus}
        /\ pc'[p] \in {"read", "write"} => item'[p] # Corpus
    <3>1. CASE Fresh(p)
      BY <3>1 DEF Fresh, Starts
    <3>2. CASE Along(p)
      BY <3>2 DEF Along, Listed
    <3> QED BY <3>1, <3>2
  <2>2. ASSUME NEW q \in Procs, q # p
        PROVE  /\ pc'[q] = "manifest" \/ how'[q] = "listed" => item'[q] \in {Seed, Corpus}
               /\ pc'[q] = "floor" => item'[q] \in Feeds \cup {Seed, Corpus}
               /\ pc'[q] \in {"read", "write"} => item'[q] # Corpus
    BY <2>2 DEF Listed, Others
  <2> QED BY <2>1, <2>2 DEF Listed
<1> QED BY <1>1, <1>2, <1>3, <1>4

LEMMA ImportedStep ==
  ASSUME PullInv, NEW p \in Procs, Others(p), brought \subseteq brought',
         pc'[p] \in {"floor", "read", "write"} => <<item'[p], tag'[p]>> \in brought'
  PROVE  Imported'
<1>1. ASSUME NEW q \in Procs, q # p, pc'[q] \in {"floor", "read", "write"}
      PROVE  <<item'[q], tag'[q]>> \in brought'
  BY <1>1 DEF PullInv, Imported, Others
<1> QED BY <1>1 DEF Imported

LEMMA ViewsStep ==
  ASSUME PullInv, NEW p \in Procs, Others(p), brought \subseteq brought',
         pc'[p] = "write" => \A k \in Channels : Stands(k, view'[p][k])
  PROVE  Views'
<1>1. ASSUME NEW k, NEW v, Stands(k, v)
      PROVE  v # 0 => \E i \in ItemsOf(k) : <<i, v>> \in brought'
  BY <1>1 DEF Stands
<1>2. ASSUME NEW q \in Procs, pc'[q] = "write", NEW k \in Channels
      PROVE  Stands(k, view'[q][k])
  BY <1>2 DEF PullInv, Views, Others
<1>3. ASSUME NEW q \in Procs, pc'[q] = "write", NEW k \in Channels
      PROVE  view'[q][k] # 0 => \E i \in ItemsOf(k) : <<i, view'[q][k]>> \in brought'
  BY <1>1, <1>2, <1>3
<1> QED BY <1>3 DEF Views, Stands

LEMMA Frame ==
  ASSUME PullInv, NEW p \in Procs, Others(p), Fresh(p) \/ Along(p),
         UNCHANGED <<version, floor, brought>>, loose \subseteq loose',
         \A k \in Channels : Stands(k, recorded'[k]),
         pc[p] = "floor" /\ item[p] \in Feeds => item[p] \in loose',
         pc'[p] # "floor",
         pc'[p] = "import" => ~ TooOld(item'[p], tag'[p]),
         pc'[p] \in {"read", "write"} => pc[p] \in {"read", "floor"},
         pc'[p] = "write" => \A k \in Channels : Stands(k, view'[p][k])
  PROVE  Pending'
<1> USE DEF PullInv
<1>1. Turns' /\ Sole' /\ Listed' /\ overtaken \subseteq overtaken'
  BY Hands
<1>2. Imported'
  <2>1. ASSUME pc'[p] \in {"floor", "read", "write"}
        PROVE  <<item'[p], tag'[p]>> \in brought'
    <3>1. ~ Fresh(p)
      BY <2>1 DEF Fresh, Starts
    <3> QED BY <2>1, <3>1 DEF Along, Imported
  <2> QED BY <2>1, ImportedStep
<1>3. Views'
  BY ViewsStep
<1>4. ASSUME NEW i \in Versioned, i \notin overtaken', i \notin loose' PROVE i \in Strict
  BY <1>1, <1>4 DEF Strict
<1>5. Highest'
  <2> SUFFICES ASSUME NEW i \in Versioned, i \notin overtaken', i \notin loose',
                      NEW r \in Releases, <<i, r>> \in brought
               PROVE  \/ VersionOf[i][r] <= version[i]
                      \/ \E q \in Procs : /\ i \in Feeds /\ pc'[q] = "floor"
                                          /\ item'[q] = i /\ tag'[q] = r
    BY DEF Highest, Strict
  <2>1. CASE VersionOf[i][r] <= version[i]
    BY <2>1
  <2>2. CASE \E q \in Procs : i \in Feeds /\ pc[q] = "floor" /\ item[q] = i /\ tag[q] = r
    <3>1. PICK q \in Procs : i \in Feeds /\ pc[q] = "floor" /\ item[q] = i /\ tag[q] = r
      BY <2>2
    <3>2. q # p
      BY <3>1
    <3> QED BY <3>1, <3>2 DEF Others
  <2> QED BY <1>4, <2>1, <2>2 DEF Highest
<1>6. Checked'
  <2> SUFFICES ASSUME NEW q \in Procs, item'[q] \in Versioned,
                      item'[q] \notin overtaken', item'[q] \notin loose',
                      VersionOf[item'[q]][tag'[q]] # 0,
                      pc'[q] = "import" \/ (pc'[q] = "floor" /\ item'[q] \in Feeds)
               PROVE  version[item'[q]] <= VersionOf[item'[q]][tag'[q]]
    BY DEF Checked, Strict
  <2>1. CASE q = p
    <3>1. pc'[p] = "import" /\ ~ TooOld(item'[p], tag'[p])
      BY <2>1
    <3>2. item'[p] \in Items
      BY <1>1, <3>1 DEF Turns, Pulling
    <3>3. tag'[p] \in Releases
      BY <1>1, <3>2 DEF Turns
    <3>4. VersionOf[item'[p]][tag'[p]] \in Nat /\ version[item'[p]] \in Nat
      BY <2>1, <3>3, NumberFacts DEF TypeOK
    <3> QED BY <2>1, <3>1, <3>4 DEF TooOld
  <2>2. CASE q # p
    <3>1. pc'[q] = pc[q] /\ item'[q] = item[q] /\ tag'[q] = tag[q]
      BY <2>2 DEF Others
    <3>2. item[q] \in Strict
      BY <1>4, <3>1
    <3> QED BY <3>1, <3>2 DEF Checked
  <2> QED BY <2>1, <2>2
<1>7. RecordsHonest'
  <2>1. \A k \in Channels : recorded'[k] # 0 => \E i \in ItemsOf(k) : <<i, recorded'[k]>> \in brought
    BY DEF Stands
  <2> QED BY <2>1 DEF RecordsHonest
<1> QED BY <1>1, <1>2, <1>3, <1>5, <1>6, <1>7 DEF Pending

\* What is on record goes on to stand for something.
LEMMA RecordsStand ==
  ASSUME RecordsHonest
  PROVE  /\ \A k \in Channels : Stands(k, recorded[k])
         /\ \A k \in Channels : Stands(k, NoRecords[k])
  BY DEF RecordsHonest, Stands, NoRecords

LEMMA Importing ==
  ASSUME PullInv, NEW p \in Procs, Import(p)
  PROVE  Pending'
<1> USE DEF PullInv
<1>1. /\ Others(p)
      /\ Fresh(p) \/ (Along(p) /\ pc'[p] \in {"floor", "read"})
      /\ item[p] \in Feeds => Along(p) /\ pc'[p] = "floor"
  BY ImportFacts
<1>2. pc[p] = "import" /\ brought' = brought \cup {<<item[p], tag[p]>>}
      /\ UNCHANGED <<floor, recorded, loose>>
  BY DEF Import
<1>3. /\ item[p] \in Items /\ tag[p] \in Releases
      /\ Turns' /\ Sole' /\ Listed' /\ overtaken \subseteq overtaken'
  BY <1>1, <1>2, Hands, AtWork DEF Pulling
<1>4. Imported'
  <2>1. pc'[p] \in {"floor", "read", "write"} => <<item'[p], tag'[p]>> \in brought'
    BY <1>1, <1>2 DEF Fresh, Starts, Along
  <2> QED BY <1>1, <1>2, <2>1, ImportedStep
<1>5. Views'
  <2>1. pc'[p] # "write"
    BY <1>1 DEF Fresh, Starts
  <2> QED BY <1>1, <1>2, <2>1, ViewsStep
\* The version row rises, if anything, and only the seed's.
<1>6. /\ \A i \in Versioned \ {item[p]} : version'[i] = version[i]
      /\ item[p] # Seed => version' = version
      /\ item[p] = Seed => version'[Seed] = Kept(version[Seed], VersionOf[Seed][tag[p]])
  BY <1>3, ItemFacts DEF Import, TypeOK
<1>7. ASSUME NEW q \in Procs, q # p, item[q] \in Items, item[q] \notin overtaken
      PROVE  item[q] # item[p]
  BY <1>3, <1>7 DEF Sole
<1>8. Highest'
  <2> SUFFICES ASSUME NEW i \in Versioned, i \notin overtaken', i \notin loose,
                      NEW r \in Releases, <<i, r>> \in brought'
               PROVE  \/ VersionOf[i][r] <= version'[i]
                      \/ \E q \in Procs : /\ i \in Feeds /\ pc'[q] = "floor"
                                          /\ item'[q] = i /\ tag'[q] = r
    BY <1>2 DEF Highest, Strict
  <2>0. i \in Strict
    BY <1>3 DEF Strict
  <2>1. VersionOf[i][r] \in Nat /\ version[i] \in Nat /\ VersionOf[i][tag[p]] \in Nat
    BY <1>3, NumberFacts DEF TypeOK
  <2>2. CASE i # item[p]
    <3>1. <<i, r>> \in brought /\ version'[i] = version[i]
      BY <1>2, <1>6, <2>2
    <3>2. CASE VersionOf[i][r] <= version[i]
      BY <3>1, <3>2
    <3>3. CASE \E q \in Procs : i \in Feeds /\ pc[q] = "floor" /\ item[q] = i /\ tag[q] = r
      <4>1. PICK q \in Procs : i \in Feeds /\ pc[q] = "floor" /\ item[q] = i /\ tag[q] = r
        BY <3>3
      <4>2. q # p
        BY <1>2, <4>1
      <4> QED BY <1>1, <4>1, <4>2 DEF Others
    <3> QED BY <2>0, <3>1, <3>2, <3>3 DEF Highest
  <2>3. CASE i = item[p] /\ r = tag[p] /\ <<i, r>> \notin brought
    <3>1. CASE i = Seed
      <4>1. version'[Seed] = Kept(version[Seed], VersionOf[Seed][r])
        BY <1>6, <2>3, <3>1
      <4> QED BY <2>1, <3>1, <4>1 DEF Kept
    <3>2. CASE i \in Feeds
      BY <1>1, <2>3, <3>2 DEF Along
    <3> QED BY <2>0, <2>3, <3>1, <3>2 DEF Strict, Versioned
  <2>4. CASE i = item[p] /\ <<i, r>> \in brought
    <3>1. ~ \E q \in Procs : pc[q] = "floor" /\ item[q] = i
      BY <1>2, <1>3, <1>7, <2>0, <2>4 DEF Strict
    <3>2. VersionOf[i][r] <= version[i]
      BY <2>0, <2>4, <3>1 DEF Highest
    <3>3. version[i] <= version'[i]
      <4>1. VersionOf[i][tag[p]] # 0 => version[i] <= VersionOf[i][tag[p]]
        BY <1>2, <2>0, <2>4 DEF Checked
      <4>2. CASE i = Seed
        <5>1. version'[i] = Kept(version[i], VersionOf[i][tag[p]])
          BY <1>6, <2>4, <4>2
        <5> QED BY <2>1, <4>1, <5>1 DEF Kept
      <4>3. CASE i # Seed
        BY <1>6, <2>1, <2>4, <4>3
      <4> QED BY <4>2, <4>3
    <3>4. version'[i] \in Nat
      BY <1>6, <2>1, <2>4, KeptFacts
    <3> QED BY <2>1, <3>2, <3>3, <3>4
  <2>5. i # item[p] \/ (i = item[p] /\ <<i, r>> \in brought)
          \/ (i = item[p] /\ r = tag[p] /\ <<i, r>> \notin brought)
    BY <1>2
  <2> QED BY <2>2, <2>3, <2>4, <2>5
<1>9. Checked'
  <2> SUFFICES ASSUME NEW q \in Procs, item'[q] \in Versioned,
                      item'[q] \notin overtaken', item'[q] \notin loose,
                      VersionOf[item'[q]][tag'[q]] # 0,
                      pc'[q] = "import" \/ (pc'[q] = "floor" /\ item'[q] \in Feeds)
               PROVE  version'[item'[q]] <= VersionOf[item'[q]][tag'[q]]
    BY <1>2 DEF Checked, Strict
  <2>1. CASE q = p
    <3>1. pc'[p] = "floor" /\ item'[p] \in Feeds /\ Along(p)
      BY <1>1, <2>1 DEF Fresh, Starts
    <3>2. item'[p] = item[p] /\ tag'[p] = tag[p] /\ item[p] \in Strict
      BY <1>3, <2>1, <3>1 DEF Along, Strict
    <3>3. version' = version
      BY <1>6, <3>1, <3>2, ItemFacts
    <3> QED BY <1>2, <2>1, <3>2, <3>3 DEF Checked
  <2>2. CASE q # p
    <3>1. pc'[q] = pc[q] /\ item'[q] = item[q] /\ tag'[q] = tag[q]
      BY <1>1, <2>2 DEF Others
    <3>2. item[q] \in Strict /\ item[q] \in Items /\ item[q] \notin overtaken
      BY <1>3, <3>1 DEF Strict, Versioned
    <3>3. version'[item[q]] = version[item[q]]
      BY <1>6, <1>7, <2>2, <3>2 DEF Strict
    <3> QED BY <3>1, <3>2, <3>3 DEF Checked
  <2> QED BY <2>1, <2>2
<1>10. RecordsHonest'
  <2>1. \A k \in Channels : recorded'[k] # 0 =>
          \E i \in ItemsOf(k) : <<i, recorded'[k]>> \in brought'
    BY <1>2 DEF RecordsHonest
  <2>2. ASSUME NEW i \in Versioned, version'[i] # 0
        PROVE  \E r \in Releases : <<i, r>> \in brought' /\ VersionOf[i][r] = version'[i]
    <3>1. CASE version'[i] = version[i]
      BY <1>2, <2>2, <3>1 DEF RecordsHonest
    <3>2. CASE version'[i] # version[i]
      <4>1. i = Seed /\ item[p] = Seed /\ version'[i] = VersionOf[i][tag[p]]
        BY <1>6, <3>2 DEF Kept
      <4> QED BY <1>2, <1>3, <4>1
    <3> QED BY <3>1, <3>2
  <2>3. floor' # 0 =>
          \E i \in {Seed, Corpus}, r \in Releases : <<i, r>> \in brought' /\ Inventory[r] = floor'
    BY <1>2 DEF RecordsHonest
  <2> QED BY <2>1, <2>2, <2>3 DEF RecordsHonest
<1> QED BY <1>3, <1>4, <1>5, <1>8, <1>9, <1>10 DEF Pending

LEMMA Flooring ==
  ASSUME PullInv, NEW p \in Procs, SetFloor(p)
  PROVE  Pending'
<1> USE DEF PullInv
<1>1. /\ Others(p)
      /\ Fresh(p) \/ (Along(p) /\ pc'[p] = "read")
  BY FloorFacts
<1>2. pc[p] = "floor" /\ UNCHANGED <<recorded, loose, brought>>
  BY DEF SetFloor
<1>3. /\ item[p] \in Items /\ tag[p] \in Releases /\ <<item[p], tag[p]>> \in brought
      /\ Turns' /\ Sole' /\ Listed' /\ overtaken \subseteq overtaken'
  BY <1>1, <1>2, Hands, AtWork DEF Pulling, Imported
<1>4. Imported'
  <2>1. pc'[p] \in {"floor", "read", "write"} => <<item'[p], tag'[p]>> \in brought'
    BY <1>1, <1>2, <1>3 DEF Fresh, Starts, Along
  <2> QED BY <1>1, <1>2, <2>1, ImportedStep
<1>5. Views'
  <2>1. pc'[p] # "write"
    BY <1>1 DEF Fresh, Starts
  <2> QED BY <1>1, <1>2, <2>1, ViewsStep
<1>6. /\ \A i \in Versioned \ {item[p]} : version'[i] = version[i]
      /\ item[p] \notin Feeds => version' = version /\ floor' = Kept(floor, Inventory[tag[p]])
      /\ item[p] \in Feeds =>
           /\ floor' = floor
           /\ version'[item[p]] = Kept(version[item[p]], VersionOf[item[p]][tag[p]])
  BY <1>3, ItemFacts DEF SetFloor, TypeOK
<1>7. ASSUME NEW q \in Procs, q # p, item[q] \in Items, item[q] \notin overtaken
      PROVE  item[q] # item[p]
  BY <1>3, <1>7 DEF Sole
<1>8. Highest'
  <2> SUFFICES ASSUME NEW i \in Versioned, i \notin overtaken', i \notin loose,
                      NEW r \in Releases, <<i, r>> \in brought
               PROVE  \/ VersionOf[i][r] <= version'[i]
                      \/ \E q \in Procs : /\ i \in Feeds /\ pc'[q] = "floor"
                                          /\ item'[q] = i /\ tag'[q] = r
    BY <1>2 DEF Highest, Strict
  <2>0. i \in Strict
    BY <1>3 DEF Strict
  <2>1. VersionOf[i][r] \in Nat /\ version[i] \in Nat /\ VersionOf[i][tag[p]] \in Nat
    BY <1>3, NumberFacts DEF TypeOK
  <2>2. CASE i # item[p]
    <3>1. version'[i] = version[i]
      BY <1>6, <2>2
    <3>2. CASE VersionOf[i][r] <= version[i]
      BY <3>1, <3>2
    <3>3. CASE \E q \in Procs : i \in Feeds /\ pc[q] = "floor" /\ item[q] = i /\ tag[q] = r
      <4>1. PICK q \in Procs : i \in Feeds /\ pc[q] = "floor" /\ item[q] = i /\ tag[q] = r
        BY <3>3
      <4>2. q # p
        BY <2>2, <4>1
      <4> QED BY <1>1, <4>1, <4>2 DEF Others
    <3> QED BY <2>0, <3>2, <3>3 DEF Highest
  <2>3. CASE i = item[p] /\ i \notin Feeds
    BY <1>6, <2>0, <2>3 DEF Highest
  <2>4. CASE i = item[p] /\ i \in Feeds
    <3>1. version'[i] = Kept(version[i], VersionOf[i][tag[p]])
      BY <1>6, <2>4
    <3>2. VersionOf[i][tag[p]] # 0 => version[i] <= VersionOf[i][tag[p]]
      BY <1>2, <2>0, <2>4 DEF Checked
    <3>3. version[i] <= version'[i] /\ VersionOf[i][tag[p]] <= version'[i] /\ version'[i] \in Nat
      BY <2>1, <3>1, <3>2 DEF Kept
    <3>4. VersionOf[i][r] <= version[i] \/ \E q \in Procs : pc[q] = "floor" /\ item[q] = i /\ tag[q] = r
      BY <2>0 DEF Highest
    <3>5. VersionOf[i][r] <= version[i] \/ r = tag[p]
      BY <1>3, <1>7, <2>0, <2>4, <3>4 DEF Strict
    <3> QED BY <2>1, <3>3, <3>5
  <2> QED BY <2>2, <2>3, <2>4
<1>9. Checked'
  <2> SUFFICES ASSUME NEW q \in Procs, item'[q] \in Versioned,
                      item'[q] \notin overtaken', item'[q] \notin loose,
                      VersionOf[item'[q]][tag'[q]] # 0,
                      pc'[q] = "import" \/ (pc'[q] = "floor" /\ item'[q] \in Feeds)
               PROVE  version'[item'[q]] <= VersionOf[item'[q]][tag'[q]]
    BY <1>2 DEF Checked, Strict
  <2>1. q # p
    BY <1>1 DEF Fresh, Starts
  <2>2. pc'[q] = pc[q] /\ item'[q] = item[q] /\ tag'[q] = tag[q]
    BY <1>1, <2>1 DEF Others
  <2>3. item[q] \in Strict /\ item[q] \in Items /\ item[q] \notin overtaken
    BY <1>3, <2>2 DEF Strict, Versioned
  <2>4. version'[item[q]] = version[item[q]]
    BY <1>6, <1>7, <2>1, <2>3 DEF Strict
  <2> QED BY <2>2, <2>3, <2>4 DEF Checked
<1>10. RecordsHonest'
  <2>1. \A k \in Channels : recorded'[k] # 0 =>
          \E i \in ItemsOf(k) : <<i, recorded'[k]>> \in brought'
    BY <1>2 DEF RecordsHonest
  <2>2. ASSUME NEW i \in Versioned, version'[i] # 0
        PROVE  \E r \in Releases : <<i, r>> \in brought' /\ VersionOf[i][r] = version'[i]
    <3>1. CASE version'[i] = version[i]
      BY <1>2, <2>2, <3>1 DEF RecordsHonest
    <3>2. CASE version'[i] # version[i]
      <4>1. i = item[p] /\ version'[i] = VersionOf[i][tag[p]]
        BY <1>6, <3>2 DEF Kept
      <4> QED BY <1>2, <1>3, <4>1
    <3> QED BY <3>1, <3>2
  <2>3. ASSUME floor' # 0
        PROVE  \E i \in {Seed, Corpus}, r \in Releases :
                 <<i, r>> \in brought' /\ Inventory[r] = floor'
    <3>1. CASE floor' = floor
      BY <1>2, <2>3, <3>1 DEF RecordsHonest
    <3>2. CASE floor' # floor
      <4>1. item[p] \in {Seed, Corpus} /\ floor' = Inventory[tag[p]]
        BY <1>2, <1>6, <3>2 DEF Listed, Kept
      <4> QED BY <1>2, <1>3, <4>1
    <3> QED BY <3>1, <3>2
  <2> QED BY <2>1, <2>2, <2>3 DEF RecordsHonest
<1> QED BY <1>3, <1>4, <1>5, <1>8, <1>9, <1>10 DEF Pending

\* A seed of the old format is imported by who has no item at the time.
LEMMA OldFormat ==
  ASSUME PullInv, NEW p \in Operators, Seed \in Channels, LegacySeed(p)
  PROVE  Pending'
<1> USE DEF PullInv
<1>0. p \in Procs /\ Seed \in Items
  BY ItemFacts DEF Procs
<1>1. PICK v \in Elsewhere :
        /\ version' = [version EXCEPT ![Seed] = Kept(@, VersionOf[Seed][v])]
        /\ brought' = brought \cup {<<Seed, v>>}
  BY DEF LegacySeed
<1>2. /\ pc[p] = "idle" /\ loose' = loose \cup {Seed}
      /\ UNCHANGED <<floor, recorded, item, tag, how, view, overtaken>>
      /\ GoTo(p, Rest(p)) /\ Rest(p) \in {"idle", "over"}
  BY DEF LegacySeed, Rest
<1>3. pc'[p] \in {"idle", "over"} /\ \A q \in Procs \ {p} : pc'[q] = pc[q]
  BY <1>0, <1>2 DEF GoTo, TypeOK
<1>4. Others(p) /\ item[p] \notin Items
  BY <1>0, <1>2, <1>3 DEF Others, Turns, Pulling
<1>5. Turns' /\ Sole' /\ Listed'
  <2>1. Turns'
    BY <1>2, <1>3, <1>4 DEF Turns, Pulling
  <2>2. Sole'
    BY <1>2 DEF Sole
  <2>3. Listed'
    BY <1>2, <1>3 DEF Listed
  <2> QED BY <2>1, <2>2, <2>3
<1>6. Imported' /\ Views'
  <2>1. pc'[p] \notin {"floor", "read", "write"} /\ brought \subseteq brought'
    BY <1>1, <1>3
  <2> QED BY <1>0, <1>4, <2>1, ImportedStep, ViewsStep
<1>7. \A i \in Versioned \ {Seed} : version'[i] = version[i] /\ \A r \in Releases :
        <<i, r>> \in brought' => <<i, r>> \in brought
  BY <1>1 DEF TypeOK
<1>8. Highest'
  <2> SUFFICES ASSUME NEW i \in Versioned, i \notin overtaken, i \notin loose,
                      i # Seed, NEW r \in Releases, <<i, r>> \in brought'
               PROVE  \/ VersionOf[i][r] <= version'[i]
                      \/ \E q \in Procs : /\ i \in Feeds /\ pc'[q] = "floor"
                                          /\ item[q] = i /\ tag[q] = r
    BY <1>2 DEF Highest, Strict
  <2>1. i \in Strict /\ version'[i] = version[i] /\ <<i, r>> \in brought
    BY <1>7 DEF Strict
  <2>2. CASE VersionOf[i][r] <= version[i]
    BY <2>1, <2>2
  <2>3. CASE \E q \in Procs : i \in Feeds /\ pc[q] = "floor" /\ item[q] = i /\ tag[q] = r
    <3>1. PICK q \in Procs : i \in Feeds /\ pc[q] = "floor" /\ item[q] = i /\ tag[q] = r
      BY <2>3
    <3>2. q # p
      BY <1>2, <3>1
    <3> QED BY <1>3, <3>1, <3>2
  <2> QED BY <2>1, <2>2, <2>3 DEF Highest
<1>9. Checked'
  <2> SUFFICES ASSUME NEW q \in Procs, item[q] \in Versioned, item[q] # Seed,
                      item[q] \notin overtaken, item[q] \notin loose,
                      VersionOf[item[q]][tag[q]] # 0,
                      pc'[q] = "import" \/ (pc'[q] = "floor" /\ item[q] \in Feeds)
               PROVE  version'[item[q]] <= VersionOf[item[q]][tag[q]]
    BY <1>2 DEF Checked, Strict
  <2>1. q # p
    BY <1>3
  <2>2. pc'[q] = pc[q] /\ item[q] \in Strict /\ version'[item[q]] = version[item[q]]
    BY <1>3, <1>7, <2>1 DEF Strict
  <2> QED BY <2>2 DEF Checked
<1>10. RecordsHonest'
  <2>1. \A k \in Channels : recorded'[k] # 0 =>
          \E i \in ItemsOf(k) : <<i, recorded'[k]>> \in brought'
    BY <1>1, <1>2 DEF RecordsHonest
  <2>2. ASSUME NEW i \in Versioned, version'[i] # 0
        PROVE  \E r \in Releases : <<i, r>> \in brought' /\ VersionOf[i][r] = version'[i]
    <3>1. CASE version'[i] = version[i]
      BY <1>1, <2>2, <3>1 DEF RecordsHonest
    <3>2. CASE version'[i] # version[i]
      <4>1. i = Seed
        BY <1>7, <3>2
      <4>2. version'[Seed] = Kept(version[Seed], VersionOf[Seed][v])
        BY <1>1, <4>1 DEF TypeOK
      <4>3. version'[i] = VersionOf[i][v]
        BY <3>2, <4>1, <4>2 DEF Kept
      <4> QED BY <1>1, <4>1, <4>3, NumberFacts
    <3> QED BY <3>1, <3>2
  <2>3. floor' # 0 =>
          \E i \in {Seed, Corpus}, r \in Releases : <<i, r>> \in brought' /\ Inventory[r] = floor'
    BY <1>1, <1>2 DEF RecordsHonest
  <2> QED BY <2>1, <2>2, <2>3 DEF RecordsHonest
<1> QED BY <1>5, <1>6, <1>8, <1>9, <1>10 DEF Pending

\* The next item's turn, with nothing imported and nothing to lose.
LEMMA Ending ==
  ASSUME PullInv, NEW p \in Procs, Others(p), Fresh(p),
         UNCHANGED <<version, floor, brought>>, loose \subseteq loose',
         \A k \in Channels : Stands(k, recorded'[k]),
         pc[p] = "floor" /\ item[p] \in Feeds => item[p] \in loose'
  PROVE  Pending'
<1>1. pc'[p] \notin {"import", "floor", "read", "write"}
  BY DEF Fresh, Starts
<1> QED BY <1>1, Frame

LEMMA StepInv == PullInv /\ [Next]_vars => PullInv'
<1> SUFFICES ASSUME PullInv, [Next]_vars PROVE PullInv'
  OBVIOUS
<1> USE DEF PullInv
<1>0. CASE UNCHANGED vars
  <2> USE <1>0 DEF vars, disk, local, history
  <2>1. TypeOK' /\ Turns' /\ Sole' /\ Listed'
    BY DEF TypeOK, Turns, Sole, Listed
  <2>2. Imported' /\ Views'
    BY DEF Imported, Views, Stands
  <2>3. Highest' /\ Checked' /\ RecordsHonest'
    BY DEF Highest, Checked, RecordsHonest, Strict
  <2> QED BY <2>1, <2>2, <2>3
<1>1. CASE Next
  <2>0. TypeOK'
    BY <1>1, TypeStep
  <2>1. ASSUME NEW k \in Channels, Publish(k) PROVE Pending'
    <3> USE <2>1 DEF Publish, disk, local, history
    <3>1. Turns' /\ Sole' /\ Listed'
      BY DEF Turns, Sole, Listed
    <3>2. Imported' /\ Views'
      BY DEF Imported, Views, Stands
    <3>3. Highest' /\ Checked' /\ RecordsHonest'
      BY DEF Highest, Checked, RecordsHonest, Strict
    <3> QED BY <3>1, <3>2, <3>3 DEF Pending
  <2>2. \A k \in Channels : Stands(k, recorded[k]) /\ Stands(k, NoRecords[k])
    BY RecordsStand
\* What starts a pull.
  <2>3. ASSUME NEW p \in Procs, pc[p] = "idle", NEW S \in SUBSET Items, NEW v \in Releases,
               NEW way \in {"bare", "file"}, Take(p, S, v, way),
               UNCHANGED <<disk, loose, brought>>
        PROVE  Pending'
    <3>1. Others(p) /\ Fresh(p)
      BY <2>3, TakeFacts
    <3> QED BY <2>2, <2>3, <3>1, Ending DEF disk
  <2>4. ASSUME NEW k \in Channels, Ask(k) PROVE Pending'
    <3>1. Watcher \in Procs /\ ItemsOf(k) \in SUBSET Items /\ newest[k] \in Releases
      BY ItemFacts, NumberFacts DEF TypeOK, Procs
    <3> QED BY <2>3, <2>4, <3>1 DEF Ask
  <2>5. ASSUME NEW p \in Operators, ByHand(p) PROVE Pending'
    <3>0. p \in Procs
      BY DEF Procs
    <3>1. ASSUME NEW k \in Channels, Command(p, k) PROVE Pending'
      <4>1. PICK v \in Offered(k) : Take(p, ItemsOf(k), v, "bare")
        BY <3>1 DEF Command
      <4>2. v \in Releases /\ ItemsOf(k) \in SUBSET Items
        BY OfferedFacts, ItemFacts
      <4> QED BY <2>3, <3>0, <3>1, <4>1, <4>2 DEF Command
    <3>2. ASSUME Seed \in Channels, CorpusFetch(p) PROVE Pending'
      <4>1. PICK v \in Offered(Seed) : Take(p, {Corpus}, v, "bare")
        BY <3>2 DEF CorpusFetch
      <4>2. v \in Releases /\ {Corpus} \in SUBSET Items
        BY <3>2, OfferedFacts, ItemFacts
      <4> QED BY <2>3, <3>0, <3>2, <4>1, <4>2 DEF CorpusFetch
    <3>3. ASSUME Seed \in Channels, SeedFile(p) PROVE Pending'
      <4>1. PICK v \in Offered(Seed) : Take(p, {Seed}, v, "file")
        BY <3>3 DEF SeedFile
      <4>2. v \in Releases /\ {Seed} \in SUBSET Items
        BY <3>3, OfferedFacts, ItemFacts
      <4> QED BY <2>3, <3>0, <3>3, <4>1, <4>2 DEF SeedFile
    <3>4. Seed \in Channels /\ LegacySeed(p) => Pending'
      BY OldFormat
    <3> QED BY <2>5, <3>1, <3>2, <3>3, <3>4 DEF ByHand
\* What ends an item's turn.
  <2>6. ASSUME NEW p \in Procs, pc[p] \in Pulling, Proceed(p) PROVE Others(p) /\ Fresh(p)
    BY <2>6, ProceedFacts
  <2>7. ASSUME NEW p \in Procs, ManifestRefused(p) \/ DownloadFails(p) PROVE Pending'
    <3>1. pc[p] \in {"manifest", "download"} /\ Proceed(p) /\ UNCHANGED <<disk, loose, brought>>
      BY <2>7 DEF ManifestRefused, DownloadFails
    <3>2. Others(p) /\ Fresh(p)
      BY <2>6, <3>1 DEF Pulling
    <3> QED BY <2>2, <3>1, <3>2, Ending DEF disk
  <2>8. ASSUME NEW p \in Procs, WriteRecords(p) PROVE Pending'
    <3>1. pc[p] = "write" /\ Proceed(p) /\ UNCHANGED <<version, floor, loose, brought>>
      BY <2>8 DEF WriteRecords
    <3>2. Others(p) /\ Fresh(p)
      BY <2>6, <3>1 DEF Pulling
    <3>3. \A k \in Channels : Stands(k, recorded'[k])
      <4>1. \A k \in Channels : Stands(k, view[p][k])
        BY <3>1 DEF Views
      <4> QED BY <2>2, <2>8, <4>1 DEF WriteRecords
    <3> QED BY <3>1, <3>2, <3>3, Ending
  <2>9. ASSUME NEW p \in Procs, Locked(p) PROVE Pending'
    <3>1. /\ pc[p] \in Pulling /\ item[p] \notin Feeds /\ Proceed(p)
          /\ UNCHANGED <<disk, loose, brought>>
      BY <2>9 DEF Locked, Pulling
    <3>2. Others(p) /\ Fresh(p)
      BY <2>6, <3>1
    <3> QED BY <2>2, <3>1, <3>2, Ending DEF disk
  <2>10. ASSUME NEW p \in Procs, FeedRaises(p) PROVE Pending'
    <3>1. PICK place \in {"idle", "over", "dead"} : Drop(p, place)
      BY <2>10 DEF FeedRaises
    <3>2. UNCHANGED <<disk, overtaken, brought>>
          /\ loose' = IF pc[p] = "floor" THEN loose \cup {item[p]} ELSE loose
      BY <2>10 DEF FeedRaises
    <3>3. Others(p) /\ Fresh(p)
      BY <3>1, <3>2, DropFacts
    <3> QED BY <2>2, <3>2, <3>3, Ending DEF disk
  <2>11. ASSUME NEW p \in Procs, Crash(p) PROVE Pending'
    <3>1. /\ Drop(p, Rest(p)) /\ Rest(p) \in {"idle", "over", "dead"}
          /\ UNCHANGED <<version, floor, overtaken, brought>>
          /\ loose' = IF pc[p] = "floor" THEN loose \cup ({item[p]} \cap Feeds) ELSE loose
      BY <2>11 DEF Crash, Rest
    <3>2. Others(p) /\ Fresh(p)
      BY <3>1, DropFacts
    <3>3. \A k \in Channels : Stands(k, recorded'[k])
      BY <2>2, <2>11 DEF Crash
    <3> QED BY <3>1, <3>2, <3>3, Ending
\* What goes on with the item.
  <2>12. ASSUME NEW p \in Procs, Manifest(p) PROVE Pending'
    <3>1. /\ pc[p] = "manifest" /\ GoTo(p, "download")
          /\ UNCHANGED <<disk, item, tag, view, history>>
          /\ how' = [how EXCEPT ![p] = "listed"]
      BY <2>12 DEF Manifest
    <3>2. pc'[p] = "download" /\ \A q \in Procs \ {p} : pc'[q] = pc[q]
      BY <3>1 DEF GoTo, TypeOK
    <3>3. Others(p)
      BY <3>1, <3>2 DEF Others, TypeOK
    <3>4. Along(p)
      BY <3>1, <3>2 DEF Along, Pulling, history
    <3> QED BY <2>2, <3>1, <3>2, <3>3, <3>4, Frame DEF disk, history
  <2>13. ASSUME NEW p \in Procs, ManifestLost(p) PROVE Pending'
    <3>1. pc[p] = "manifest" /\ Step(p, "download") /\ UNCHANGED <<disk, loose, brought>>
      BY <2>13 DEF ManifestLost
    <3>2. "download" \in Pulling \ {"manifest"} /\ pc[p] \in Pulling
      BY <3>1 DEF Pulling
    <3>3. Others(p) /\ Along(p) /\ pc'[p] = "download"
      BY <3>1, <3>2, StepFacts
    <3> QED BY <2>2, <3>1, <3>3, Frame DEF disk
  <2>14. ASSUME NEW p \in Procs, Download(p) PROVE Pending'
    <3>1. /\ pc[p] = "download" /\ UNCHANGED <<disk, loose, brought>>
          /\ Onward(p, IF TooOld(item[p], tag[p]) THEN "end" ELSE "import")
      BY <2>14 DEF Download
    <3>2. CASE TooOld(item[p], tag[p])
      <4>1. Proceed(p)
        BY <3>1, <3>2 DEF Onward
      <4>2. Others(p) /\ Fresh(p)
        BY <2>6, <3>1, <4>1 DEF Pulling
      <4> QED BY <2>2, <3>1, <4>2, Ending DEF disk
    <3>3. CASE ~ TooOld(item[p], tag[p])
      <4>1. Step(p, "import")
        BY <3>1, <3>3 DEF Onward
      <4>2. "import" \in Pulling \ {"manifest"} /\ pc[p] \in Pulling
        BY <3>1 DEF Pulling
      <4>3. Others(p) /\ Along(p) /\ pc'[p] = "import"
        BY <4>1, <4>2, StepFacts
      <4>4. ~ TooOld(item'[p], tag'[p])
        BY <3>3, <4>3 DEF Along
      <4>5. UNCHANGED <<version, floor, recorded, brought, loose>>
        BY <3>1 DEF disk
      <4>6. (\A k \in Channels : Stands(k, recorded'[k])) /\ loose \subseteq loose'
        BY <2>2, <4>5
      <4> QED BY <3>1, <4>3, <4>4, <4>5, <4>6, Frame
    <3> QED BY <3>2, <3>3
  <2>15. ASSUME NEW p \in Procs, ReadRecords(p) PROVE Pending'
    <3>1. pc[p] = "read" /\ GoTo(p, "write") /\ UNCHANGED <<disk, item, tag, how, history>>
      BY <2>15 DEF ReadRecords
    <3>2. pc'[p] = "write" /\ \A q \in Procs \ {p} : pc'[q] = pc[q]
      BY <3>1 DEF GoTo, TypeOK
    <3>3. PICK seen \in Seen(p) :
            view' = [view EXCEPT ![p] = [seen EXCEPT ![Channel(item[p])] = tag[p]]]
      BY <2>15 DEF ReadRecords
    <3>4. Others(p)
      BY <3>1, <3>2, <3>3 DEF Others, TypeOK
    <3>5. Along(p)
      BY <3>1, <3>2 DEF Along, Pulling, Listed, history
    <3>6. ASSUME NEW k \in Channels PROVE Stands(k, view'[p][k])
      <4>1. seen \in [Channels -> {0} \cup Releases] /\ Stands(k, seen[k])
        BY <2>2, NumberFacts DEF Seen, TypeOK
      <4>2. view'[p][k] = IF k = Channel(item[p]) THEN tag[p] ELSE seen[k]
        BY <3>3, <4>1 DEF TypeOK
      <4>3. Stands(Channel(item[p]), tag[p])
        <5>1. item[p] \in Items /\ item[p] # Corpus /\ <<item[p], tag[p]>> \in brought
          BY <3>1, AtWork DEF Listed, Imported, Pulling
        <5>2. item[p] \in ItemsOf(Channel(item[p]))
          BY <5>1, ItemFacts
        <5> QED BY <5>1, <5>2 DEF Stands
      <4> QED BY <4>1, <4>2, <4>3
    <3>7. UNCHANGED <<version, floor, recorded, brought, loose>>
      BY <3>1 DEF disk, history
    <3>8. (\A k \in Channels : Stands(k, recorded'[k])) /\ loose \subseteq loose'
      BY <2>2, <3>7
    <3> QED BY <3>1, <3>2, <3>4, <3>5, <3>6, <3>7, <3>8, Frame
  <2>16. \A p \in Procs : Import(p) \/ SetFloor(p) => Pending'
    BY Importing, Flooring
  <2>17. Pending'
    BY <1>1, <2>1, <2>4, <2>5, <2>7, <2>8, <2>9, <2>10, <2>11, <2>12, <2>13, <2>14, <2>15, <2>16
    DEF Next, Work
  <2> QED BY <2>0, <2>17 DEF Pending
<1> QED BY <1>0, <1>1

\* The invariant holds for any channels, feeds, operators, releases and
\* versions.
THEOREM InvHolds == Spec => []PullInv
  BY InitInv, StepInv, PTL DEF Spec

\* Every reachable state is well typed, and only the watch can be dead.
THEOREM TypeCorrect == Spec => []TypeOK
<1>1. PullInv => TypeOK
  BY DEF PullInv
<1> QED BY InvHolds, <1>1, PTL

\* No tag counts as pulled, and neither a version row nor the floor of the
\* inventories is set, before an import that it stands for, whatever crashed,
\* raised or overlapped: record_pull, set_ioc_version_floor and
\* record_baseline_manifest_version come after the import, in `corpus fetch`, too.
THEOREM RecordsAreHonest == Spec => []RecordsHonest
<1>1. PullInv => RecordsHonest
  BY DEF PullInv
<1> QED BY InvHolds, <1>1, PTL

-----------------------------------------------------------------------------
NotOlder ==
  \A i \in Versioned \ (overtaken \cup loose') :
    installed'[i] # installed[i] /\ VersionOf[i][installed'[i]] # 0 =>
      \A r \in Releases : <<i, r>> \in brought =>
        VersionOf[i][r] <= VersionOf[i][installed'[i]]

\* Only an import changes what is installed, and the old format the seed.
LEMMA OnlyImports ==
  ASSUME [Next]_vars
  PROVE  \/ installed' = installed
         \/ \E p \in Procs : Import(p)
         \/ \E p \in Operators : LegacySeed(p)
<1> USE DEF disk
<1>1. ASSUME NEW p \in Procs, Work(p), ~ Import(p) PROVE installed' = installed
  BY <1>1 DEF Work, Manifest, ManifestRefused, ManifestLost, Download, DownloadFails,
              SetFloor, ReadRecords, WriteRecords
<1>2. ASSUME NEW p \in Procs, Locked(p) \/ FeedRaises(p) \/ Crash(p) PROVE installed' = installed
  BY <1>2 DEF Locked, FeedRaises, Crash
<1>3. ASSUME NEW k \in Channels, Publish(k) \/ Ask(k) PROVE installed' = installed
  BY <1>3 DEF Publish, Ask
<1>4. ASSUME NEW p \in Operators, ByHand(p), ~ LegacySeed(p) PROVE installed' = installed
  BY <1>4 DEF ByHand, Command, CorpusFetch, SeedFile
<1> QED BY <1>1, <1>2, <1>3, <1>4 DEF Next, vars

LEMMA ImportNotOlder ==
  ASSUME PullInv, [Next]_vars
  PROVE  NotOlder
<1> USE DEF PullInv
<1>1. CASE installed' = installed
  BY <1>1 DEF NotOlder
<1>2. ASSUME NEW p \in Procs, Import(p) PROVE NotOlder
  <2> SUFFICES ASSUME NEW i \in Versioned, i \notin overtaken, i \notin loose',
                      installed'[i] # installed[i], VersionOf[i][installed'[i]] # 0,
                      NEW r \in Releases, <<i, r>> \in brought
               PROVE  VersionOf[i][r] <= VersionOf[i][installed'[i]]
    BY DEF NotOlder
  <2>1. pc[p] = "import" /\ installed' = [installed EXCEPT ![item[p]] = tag[p]] /\ loose' = loose
    BY <1>2 DEF Import
  <2>2. i \in Items /\ i \in Strict
    BY <2>1 DEF Strict, Versioned
  <2>3. i = item[p] /\ installed'[i] = tag[p] /\ tag[p] \in Releases
    BY <2>1, <2>2, AtWork DEF TypeOK, Pulling
  <2>4. version[i] <= VersionOf[i][tag[p]]
    BY <2>1, <2>2, <2>3 DEF Checked
  <2>5. ~ \E q \in Procs : pc[q] = "floor" /\ item[q] = i
    BY <2>1, <2>2, <2>3 DEF Sole
  <2>6. VersionOf[i][r] <= version[i]
    BY <2>2, <2>5 DEF Highest
  <2>7. VersionOf[i][r] \in Nat /\ version[i] \in Nat /\ VersionOf[i][tag[p]] \in Nat
    BY <2>3, NumberFacts DEF TypeOK
  <2> QED BY <2>3, <2>4, <2>6, <2>7
<1>3. ASSUME NEW p \in Operators, LegacySeed(p) PROVE NotOlder
  <2>1. /\ Seed \in loose'
        /\ \A i \in Versioned \ {Seed} : installed'[i] = installed[i]
    BY <1>3 DEF LegacySeed, TypeOK, Versioned
  <2> QED BY <2>1 DEF NotOlder
<1> QED BY <1>1, <1>2, <1>3, OnlyImports

\* What replaces a seed or a feed has a version no lower than anything that was
\* ever imported in its place, unless it has none, two processes pulled the item
\* at once, a feed's version was lost after its import, or the seed was of the
\* old format: the checks of seed_version and ioc_version_floor hold up to the
\* import.
THEOREM NeverOlderHolds == Spec => NeverOlder
<1>1. PullInv /\ [Next]_vars => [NotOlder]_vars
  BY ImportNotOlder
<1> QED BY InvHolds, <1>1, PTL DEF Spec, NeverOlder, NotOlder
=============================================================================
