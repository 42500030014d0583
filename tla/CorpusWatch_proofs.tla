------------------------- MODULE CorpusWatch_proofs -------------------------
(***************************************************************************)
(* The corpus watcher for any set of packages, any known-bad names, any    *)
(* cap, any number of AUR changes and any crashes, stops, 304 answers and  *)
(* refreshes by `review`: the snapshot passes over nothing but for the     *)
(* reasons on record, and no alert of a cycle that lived is lost.          *)
(***************************************************************************)
EXTENDS CorpusWatch, TLAPS

\* A package whose revision in the dump is newer than its last analysis is
\* still to be analysed, was left out for a reason, is behind the snapshot
\* already, or belongs to a transition this cycle will not complete.
Owing(p) ==
  meta[p] > stored[p] => p \in todo \/ partial \/ skipped[p] # "no" \/ gap[p] # "no"

InLoop == {"prefilling", "working", "finishing"}

Pending == pc \in InLoop => \A p \in Packages : Owing(p)

\* A loop that was not stopped has had every package of its chunk.
LoopDone == pc = "finishing" => todo = {} \/ partial

\* Nothing has been found before the loop.
NothingFound == pc \in {"asleep", "fetched", "prefilling"} => over = {}

WatchInv == TypeOK /\ Pending /\ LoopDone /\ NothingFound /\ SnapshotCovered /\ AlertsNotDropped

-----------------------------------------------------------------------------
LEMMA InitInv == Init => WatchInv
<1> SUFFICES ASSUME Init PROVE WatchInv
  OBVIOUS
<1>1. TypeOK
  <2>1. 0 \in Revs /\ 1 \in Revs /\ 1 \in 1..MaxRev /\ 0 \in 0..MaxFaults
    BY WatchAssumption DEF Revs
  <2>2. listed \subseteq KnownBad /\ pc \in Places
    BY DEF Init, Places
  <2>3. aur \in [Packages -> Revs] /\ stored \in [Packages -> Revs] /\ meta \in [Packages -> Revs]
    BY <2>1 DEF Init, Nothing
  <2>4. skipped \in [Packages -> Reasons] /\ gap \in [Packages -> Reasons]
    BY DEF Init, Reasons
  <2> QED BY <2>1, <2>2, <2>3, <2>4 DEF Init, TypeOK
<1>2. Pending /\ LoopDone /\ NothingFound
  BY DEF Init, Pending, InLoop, LoopDone, NothingFound
<1>3. SnapshotCovered /\ AlertsNotDropped
  BY DEF Init, SnapshotCovered, AlertsNotDropped
<1> QED BY <1>1, <1>2, <1>3 DEF WatchInv

-----------------------------------------------------------------------------
(* What the helpers of the actions do.                                     *)

LEMMA ForgetTypes ==
  ASSUME Forget
  PROVE  /\ meta' \in [Packages -> Revs] /\ unchanged' \in BOOLEAN
         /\ todo' \in SUBSET Packages /\ missing' \in SUBSET Packages
         /\ processed' \in SUBSET Packages /\ partial' \in BOOLEAN
         /\ over' \in SUBSET (Packages \X Revs) /\ over' = {}
         /\ skipped' \in [Packages -> Reasons]
<1>1. 0 \in Revs
  BY WatchAssumption DEF Revs
<1>2. meta' \in [Packages -> Revs]
  BY <1>1 DEF Forget, Nothing
<1>3. skipped' \in [Packages -> Reasons]
  BY DEF Forget, Reasons
<1> QED BY <1>2, <1>3 DEF Forget

\* A result that is stored is no older than the one before and than the dump,
\* and settles why the package was behind if it brings it up to the snapshot.
LEMMA StoreFacts ==
  ASSUME TypeOK, SnapshotCovered, NEW p \in Packages, NEW v \in Fetched(p), Store(p, v)
  PROVE  /\ v \in Revs /\ meta[p] <= v /\ stored[p] <= v
         /\ stored' \in [Packages -> Revs] /\ gap' \in [Packages -> Reasons]
         /\ stored'[p] = v
         /\ \A q \in Packages \ {p} : stored'[q] = stored[q] /\ gap'[q] = gap[q]
         /\ snap # NoSnapshot => \A q \in Packages : snap[q] > stored'[q] => gap'[q] # "no"
<1>1. v \in Revs /\ meta[p] <= v /\ stored[p] <= v
  BY DEF Fetched, TypeOK
<1>2. stored' = [stored EXCEPT ![p] = v]
  BY DEF Store
<1>3. stored' \in [Packages -> Revs] /\ stored'[p] = v
      /\ \A q \in Packages \ {p} : stored'[q] = stored[q]
  BY <1>1, <1>2 DEF TypeOK
<1>4. gap' = gap \/ gap' = [gap EXCEPT ![p] = "no"]
  BY DEF Store
<1>5. gap' \in [Packages -> Reasons] /\ \A q \in Packages \ {p} : gap'[q] = gap[q]
  BY <1>4 DEF TypeOK, Reasons
<1>6. ASSUME snap # NoSnapshot, NEW q \in Packages, snap[q] > stored'[q] PROVE gap'[q] # "no"
  <2>1. snap[q] \in Nat /\ stored[q] \in Nat /\ v \in Nat
    BY <1>1, <1>6 DEF TypeOK, Revs
  <2>2. CASE q # p
    BY <1>3, <1>5, <1>6, <2>2 DEF SnapshotCovered
  <2>3. CASE q = p
    <3>1. ~ (v >= snap[p]) /\ snap[p] > stored[p]
      BY <1>1, <1>3, <1>6, <2>1, <2>3
    <3>2. gap' = gap
      BY <1>6, <3>1 DEF Store
    <3> QED BY <1>6, <2>3, <3>1, <3>2 DEF SnapshotCovered
  <2> QED BY <2>2, <2>3
<1> QED BY <1>1, <1>3, <1>5, <1>6

\* A stored result leaves no package owing that was not.
LEMMA StoreKeepsOwing ==
  ASSUME TypeOK, SnapshotCovered, NEW p \in Packages, NEW v \in Fetched(p), Store(p, v),
         meta' = meta,
         NEW q \in Packages, Owing(q),
         q # p => /\ q \in todo => q \in todo'
                  /\ partial => partial'
                  /\ skipped[q] # "no" => skipped'[q] # "no"
  PROVE  Owing(q)'
<1>1. meta[p] <= v /\ stored'[p] = v /\ v \in Nat /\ meta[p] \in Nat
  BY StoreFacts DEF TypeOK, Revs
<1>2. CASE q = p
  BY <1>1, <1>2 DEF Owing
<1>3. CASE q # p
  <2>1. stored'[q] = stored[q] /\ gap'[q] = gap[q]
    BY <1>3, StoreFacts
  <2> QED BY <1>3, <2>1 DEF Owing
<1> QED BY <1>2, <1>3

LEMMA PlanTypes == \A delta : TakenForDone(delta) \in [Packages -> Reasons]
  BY DEF TakenForDone, Reasons

LEMMA PersistTypes ==
  ASSUME TypeOK, Persist
  PROVE  snap' \in [Packages -> Revs] \cup {NoSnapshot} /\ gap' \in [Packages -> Reasons]
<1>1. CASE unchanged
  BY <1>1 DEF Persist, TypeOK
<1>2. CASE ~unchanged
  BY <1>2 DEF Persist, TypeOK
<1> QED BY <1>1, <1>2

-----------------------------------------------------------------------------
LEMMA TypeStep ==
  ASSUME TypeOK, SnapshotCovered, Next
  PROVE  TypeOK'
<1> USE DEF world, disk, cycle, Places
<1>0. MaxRev \in Nat \ {0} /\ MaxFaults \in Nat /\ rev \in 1..MaxRev /\ KnownBad \subseteq Packages
  BY WatchAssumption DEF TypeOK
<1>1. CASE Churn
  BY <1>1 DEF Churn, TypeOK
<1>2. ASSUME NEW p \in Packages, Publish(p) PROVE TypeOK'
  <2>1. rev + 1 \in 1..MaxRev /\ rev + 1 \in Revs
    BY <1>0, <1>2 DEF Publish, Revs
  <2> QED BY <1>2, <2>1 DEF Publish, TypeOK
<1>3. ASSUME NEW p \in Packages, Remove(p) PROVE TypeOK'
  <2>1. 0 \in Revs
    BY <1>0 DEF Revs
  <2> QED BY <1>3, <2>1 DEF Remove, TypeOK
<1>4. ASSUME NEW d \in Packages, Prefill(d) PROVE TypeOK'
  <2>1. stored' \in [Packages -> Revs] /\ gap' \in [Packages -> Reasons]
    BY <1>4, StoreFacts DEF Prefill, TypeOK
  <2> QED BY <1>4, <2>1 DEF Prefill, TypeOK
<1>5. ASSUME NEW p \in Packages, Analyse(p) PROVE TypeOK'
  <2>1. PICK v \in Fetched(p) : /\ Store(p, v) /\ over' = over \cup {<<p, v>>}
                                /\ owed' = owed \cup {<<p, v>>}
    BY <1>5 DEF Analyse
  <2>2. v \in Revs /\ stored' \in [Packages -> Revs] /\ gap' \in [Packages -> Reasons]
    BY <2>1, StoreFacts
  <2>3. skipped' \in [Packages -> Reasons]
    BY <1>5 DEF Analyse, TypeOK, Reasons
  <2>4. over' \in SUBSET (Packages \X Revs) /\ owed' \in SUBSET (Packages \X Revs)
    BY <2>1, <2>2 DEF TypeOK
  <2> QED BY <1>5, <2>2, <2>3, <2>4 DEF Analyse, Turn, TypeOK
<1>6. ASSUME NEW p \in Packages, AnalyseListed(p) PROVE TypeOK'
  <2>1. PICK v \in Fetched(p) : Store(p, v) /\ Abandon({<<p, v>>})
    BY <1>6 DEF AnalyseListed
  <2>2. v \in Revs /\ stored' \in [Packages -> Revs] /\ gap' \in [Packages -> Reasons]
    BY <2>1, StoreFacts
  <2>3. owed' \in SUBSET (Packages \X Revs) /\ pc' = "asleep" /\ Forget
    BY <2>1, <2>2 DEF Abandon, TypeOK
  <2> QED BY <1>6, <2>2, <2>3, ForgetTypes DEF AnalyseListed, TypeOK
<1>7. ASSUME NEW p \in Packages, FetchFailed(p) \/ NotVetted(p) PROVE TypeOK'
  <2>1. skipped' \in [Packages -> Reasons]
    BY <1>7 DEF FetchFailed, NotVetted, TypeOK, Reasons
  <2> QED BY <1>7, <2>1 DEF FetchFailed, NotVetted, Turn, TypeOK
<1>8. CASE Download
  BY <1>8 DEF Download, TypeOK
<1>9. CASE NotModified
  BY <1>9 DEF NotModified, TypeOK
<1>10. CASE Refuse
  BY <1>10, ForgetTypes DEF Refuse, TypeOK
<1>11. CASE NothingToDo
  BY <1>11, ForgetTypes, PersistTypes DEF NothingToDo, TypeOK
<1>12. CASE Plan
  <2>1. Resumed \in SUBSET Packages
    BY DEF Resumed, TypeOK
  <2>2. skipped' \in [Packages -> Reasons]
    BY <1>12, PlanTypes DEF Plan
  <2>3. todo' \in SUBSET Packages /\ missing' \in SUBSET Packages /\ partial' \in BOOLEAN
    BY <1>12 DEF Plan, Delta
  <2> QED BY <1>12, <2>1, <2>2, <2>3 DEF Plan, TypeOK
<1>13. CASE StartRoots \/ EndLoop \/ Checkpoint
  BY <1>13 DEF StartRoots, EndLoop, Checkpoint, TypeOK
<1>14. CASE FinishPartial \/ ClearResume
  BY <1>14 DEF FinishPartial, ClearResume, TypeOK
<1>15. CASE FinishWhole
  BY <1>15, PersistTypes DEF FinishWhole, TypeOK
<1>16. CASE Report
  <2>1. outbox' \in SUBSET (Packages \X Revs)
    BY <1>16 DEF Report, TypeOK
  <2> QED BY <1>16, <2>1, ForgetTypes DEF Report, TypeOK
<1>17. CASE EmptyReply \/ Stop
  <2>1. faults' \in 0..MaxFaults
    BY <1>0, <1>17 DEF EmptyReply, Stop, TypeOK
  <2>2. CASE EmptyReply
    BY <2>1, <2>2 DEF EmptyReply, TypeOK
  <2>3. CASE Stop
    BY <2>1, <2>3 DEF Stop, TypeOK
  <2> QED BY <1>17, <2>2, <2>3
<1>18. CASE Crash
  <2>1. faults' \in 0..MaxFaults /\ resume' \in SUBSET Packages
    BY <1>0, <1>18 DEF Crash, TypeOK
  <2>2. owed' \in SUBSET (Packages \X Revs) /\ pc' = "asleep" /\ Forget
    BY <1>18 DEF Crash, Abandon, TypeOK
  <2> QED BY <1>18, <2>1, <2>2, ForgetTypes DEF Crash, TypeOK
<1>19. CASE Review
  <2>1. gap' \in [Packages -> Reasons]
    BY <1>19 DEF Review, TypeOK, Reasons
  <2> QED BY <1>19, <2>1 DEF Review, TypeOK
<1> QED
  BY <1>1, <1>2, <1>3, <1>4, <1>5, <1>6, <1>7, <1>8, <1>9, <1>10, <1>11, <1>12, <1>13, <1>14,
     <1>15, <1>16, <1>17, <1>18, <1>19 DEF Next, Outcome, Fetch, Begin, Finish

-----------------------------------------------------------------------------
\* The cycle's debts: whatever ends a package's turn, settles it or notes why
\* not, and nothing outside the cycle takes that note back.
Debts == Pending /\ LoopDone

LEMMA DebtsStep ==
  ASSUME TypeOK, SnapshotCovered, Debts, Next
  PROVE  Debts'
<1> USE DEF world, disk, cycle, InLoop, Debts
\* Outside the loop there is nothing to show.
<1>1. CASE Download \/ NotModified
  BY <1>1 DEF Download, NotModified, Pending, LoopDone
<1>2. CASE Refuse \/ NothingToDo
  BY <1>2 DEF Refuse, NothingToDo, Pending, LoopDone
<1>3. CASE FinishPartial \/ FinishWhole \/ ClearResume \/ Report
  BY <1>3 DEF FinishPartial, FinishWhole, ClearResume, Report, Pending, LoopDone
<1>4. CASE Crash
  BY <1>4 DEF Crash, Abandon, Pending, LoopDone
<1>5. ASSUME NEW p \in Packages, AnalyseListed(p) PROVE Debts'
  BY <1>5 DEF AnalyseListed, Abandon, Pending, LoopDone
\* The AUR and the fetch do not touch the cycle.
<1>6. ASSUME NEW p \in Packages, Publish(p) \/ Remove(p) PROVE Debts'
  BY <1>6 DEF Publish, Remove, Pending, LoopDone, Owing
<1>7. CASE Churn \/ EmptyReply \/ Checkpoint
  BY <1>7 DEF Churn, EmptyReply, Checkpoint, Pending, LoopDone, Owing
<1>8. CASE Review
  <2>1. \A q \in Packages : gap[q] # "no" => gap'[q] # "no"
    BY <1>8 DEF Review
  <2> QED BY <1>8, <2>1 DEF Review, Pending, LoopDone, Owing
\* What is behind at the start is in the chunk or the rest of the delta, was
\* taken for done, or was behind before.
<1>9. CASE Plan
  <2> DEFINE delta == Delta(snap, meta)
  <2>1. PICK chunk \in SUBSET (delta \ Resumed) :
          /\ todo' = chunk /\ partial' = (chunk # delta \ Resumed)
    BY <1>9 DEF Plan
  <2>2. skipped' = TakenForDone(delta) /\ pc' = "prefilling" /\ UNCHANGED <<meta, stored, gap, snap>>
    BY <1>9 DEF Plan
  <2>3. ASSUME NEW p \in Packages, meta[p] > stored[p], p \notin todo', ~partial'
        PROVE  skipped'[p] # "no" \/ gap[p] # "no"
    <3>0. meta[p] \in Nat /\ stored[p] \in Nat
      BY DEF TypeOK, Revs
    <3>1. p \notin delta \ Resumed
      BY <2>1, <2>3
    <3>2. CASE p \in delta
      BY <2>2, <2>3, <3>0, <3>1, <3>2 DEF TakenForDone
    <3>3. CASE p \notin delta
      <4>1. snap # NoSnapshot /\ snap[p] = meta[p]
        BY <2>3, <3>0, <3>3 DEF Delta
      <4> QED BY <2>3, <4>1 DEF SnapshotCovered
    <3> QED BY <3>2, <3>3
  <2> QED BY <2>2, <2>3 DEF Pending, LoopDone, Owing
<1>10. ASSUME NEW d \in Packages, Prefill(d) PROVE Debts'
  <2>1. pc = "prefilling" /\ UNCHANGED <<pc, meta, todo, partial, skipped>>
    BY <1>10 DEF Prefill
  <2>2. CASE UNCHANGED <<stored, gap>>
    BY <2>1, <2>2 DEF Pending, LoopDone, Owing
  <2>3. ASSUME NEW v \in Fetched(d), Store(d, v) PROVE Debts'
    BY <2>1, <2>3, StoreKeepsOwing DEF Pending, LoopDone
  <2> QED BY <1>10, <2>2, <2>3 DEF Prefill
<1>11. CASE StartRoots \/ EndLoop
  BY <1>11 DEF StartRoots, EndLoop, Pending, LoopDone, Owing
<1>12. ASSUME NEW p \in Packages, Analyse(p) PROVE Debts'
  <2>1. pc = "working" /\ UNCHANGED <<pc, meta, partial>> /\ todo' = todo \ {p}
        /\ skipped' = [skipped EXCEPT ![p] = "no"]
    BY <1>12 DEF Analyse, Turn
  <2>2. PICK v \in Fetched(p) : Store(p, v)
    BY <1>12 DEF Analyse
  <2>3. \A q \in Packages \ {p} : skipped'[q] = skipped[q]
    BY <2>1 DEF TypeOK
  <2>4. \A q \in Packages : Owing(q) => Owing(q)'
    BY <2>1, <2>2, <2>3, StoreKeepsOwing
  <2> QED BY <2>1, <2>4 DEF Pending, LoopDone
<1>13. ASSUME NEW p \in Packages, FetchFailed(p) \/ NotVetted(p) PROVE Debts'
  <2>1. pc = "working" /\ UNCHANGED <<pc, meta, partial, stored, gap>> /\ todo' = todo \ {p}
    BY <1>13 DEF FetchFailed, NotVetted, Turn
  <2>2. stored[p] < meta[p] => skipped'[p] # "no"
    BY <1>13 DEF FetchFailed, NotVetted, TypeOK
  <2>3. \A q \in Packages \ {p} : skipped'[q] = skipped[q]
    BY <1>13 DEF FetchFailed, NotVetted, TypeOK
  <2>4. \A q \in Packages : meta[q] \in Nat /\ stored[q] \in Nat
    BY DEF TypeOK, Revs
  <2>5. Owing(p)'
    BY <2>1, <2>2, <2>4 DEF Owing
  <2>6. \A q \in Packages \ {p} : Owing(q) => Owing(q)'
    BY <2>1, <2>3 DEF Owing
  <2> QED BY <2>1, <2>5, <2>6 DEF Pending, LoopDone
<1>14. CASE Stop
  BY <1>14 DEF Stop, Pending, LoopDone, Owing
<1> QED
  BY <1>1, <1>2, <1>3, <1>4, <1>5, <1>6, <1>7, <1>8, <1>9, <1>10, <1>11, <1>12, <1>13, <1>14
  DEF Next, Outcome, Fetch, Begin, Finish

-----------------------------------------------------------------------------
\* The snapshot moves by Persist and by `review`, which note why they leave a
\* package behind, and a stored result takes such a note back only when the
\* package is level with the snapshot.
LEMMA CoveredStep ==
  ASSUME TypeOK, SnapshotCovered, Debts, Next
  PROVE  SnapshotCovered'
<1> USE DEF world, disk, cycle
<1>0. \A p \in Packages : meta[p] \in Nat /\ stored[p] \in Nat
  BY DEF TypeOK, Revs
<1>1. CASE UNCHANGED <<snap, stored, gap>>
  BY <1>1 DEF SnapshotCovered
<1>2. ASSUME UNCHANGED snap, NEW p \in Packages, NEW v \in Fetched(p), Store(p, v)
      PROVE  SnapshotCovered'
  BY <1>2, StoreFacts DEF SnapshotCovered
<1>3. CASE NothingToDo
  <2>1. snap # NoSnapshot /\ Delta(snap, meta) = {} /\ stored' = stored /\ Persist
    BY <1>3 DEF NothingToDo
  <2>2. CASE unchanged
    BY <1>1, <2>1, <2>2 DEF Persist
  <2>3. CASE ~unchanged
    <3> SUFFICES ASSUME NEW p \in Packages, meta[p] > stored[p] PROVE gap'[p] # "no"
      BY <2>1, <2>3 DEF Persist, SnapshotCovered
    <3>1. snap[p] = meta[p]
      BY <1>0, <2>1 DEF Delta
    <3>2. gap[p] # "no"
      BY <2>1, <3>1 DEF SnapshotCovered
    <3> QED BY <2>1, <2>3, <3>2 DEF Persist
  <2> QED BY <2>2, <2>3
<1>4. CASE FinishWhole
  <2>1. pc = "finishing" /\ ~partial /\ stored' = stored /\ Persist /\ todo = {}
    BY <1>4 DEF FinishWhole, Debts, LoopDone
  <2>2. CASE unchanged
    BY <1>1, <2>1, <2>2 DEF Persist
  <2>3. CASE ~unchanged
    <3> SUFFICES ASSUME NEW p \in Packages, meta[p] > stored[p] PROVE gap'[p] # "no"
      BY <2>1, <2>3 DEF Persist, SnapshotCovered
    <3>1. skipped[p] # "no" \/ gap[p] # "no"
      BY <2>1 DEF Debts, Pending, InLoop, Owing
    <3> QED BY <2>1, <2>3, <3>1 DEF Persist
  <2> QED BY <2>2, <2>3
<1>5. CASE Review
  <2>1. snap' = aur /\ stored' = stored
    BY <1>5 DEF Review
  <2>2. \A p \in Packages : aur[p] \in Nat /\ stored[p] \in Nat
    BY DEF TypeOK, Revs
  <2>3. ASSUME NEW p \in Packages, aur[p] > stored[p] PROVE gap'[p] # "no"
    <3>1. gap'[p] = IF p \in Delta(snap, aur) /\ stored[p] < aur[p] THEN "review" ELSE gap[p]
      BY <1>5 DEF Review
    <3>2. CASE p \in Delta(snap, aur)
      BY <2>2, <2>3, <3>1, <3>2
    <3>3. CASE p \notin Delta(snap, aur)
      <4>1. snap # NoSnapshot /\ snap[p] = aur[p]
        BY <2>2, <2>3, <3>3 DEF Delta
      <4> QED BY <2>3, <3>1, <3>3, <4>1 DEF SnapshotCovered
    <3> QED BY <3>2, <3>3
  <2> QED BY <2>1, <2>3 DEF SnapshotCovered
<1> QED
  BY <1>1, <1>2, <1>3, <1>4, <1>5
  DEF Next, Outcome, Fetch, Begin, Finish, Publish, Remove, Prefill, Analyse, AnalyseListed,
      FetchFailed, NotVetted, Download, NotModified, Refuse, Plan, StartRoots, EndLoop,
      FinishPartial, ClearResume, Report, EmptyReply, Checkpoint, Stop, Crash, Churn

-----------------------------------------------------------------------------
\* What a cycle has found is in memory from the first analysis to the report:
\* only the report and the cycle's death take it from there.
LEMMA AlertsStep ==
  ASSUME TypeOK, NothingFound, AlertsNotDropped, Next
  PROVE  NothingFound' /\ AlertsNotDropped'
<1> USE DEF world, disk, cycle
<1>1. ASSUME NEW p \in Packages, Publish(p) \/ Remove(p) PROVE NothingFound' /\ AlertsNotDropped'
  BY <1>1 DEF Publish, Remove, NothingFound, AlertsNotDropped
<1>2. CASE Churn \/ EmptyReply \/ Checkpoint \/ Review
  BY <1>2 DEF Churn, EmptyReply, Checkpoint, Review, NothingFound, AlertsNotDropped
<1>3. ASSUME NEW p \in Packages, Prefill(p) \/ FetchFailed(p) \/ NotVetted(p)
      PROVE  NothingFound' /\ AlertsNotDropped'
  BY <1>3 DEF Prefill, FetchFailed, NotVetted, Turn, NothingFound, AlertsNotDropped
<1>4. CASE Download \/ NotModified \/ Plan
  BY <1>4 DEF Download, NotModified, Plan, NothingFound, AlertsNotDropped
<1>5. CASE Refuse \/ NothingToDo
  <2>1. over = {} /\ over' = {} /\ UNCHANGED <<listed, owed, outbox>>
    BY <1>5 DEF Refuse, NothingToDo, Forget, NothingFound
  <2> QED BY <2>1 DEF NothingFound, AlertsNotDropped
<1>6. CASE StartRoots \/ EndLoop \/ Stop \/ FinishPartial \/ FinishWhole \/ ClearResume
  BY <1>6 DEF StartRoots, EndLoop, Stop, FinishPartial, FinishWhole, ClearResume, NothingFound,
              AlertsNotDropped
<1>7. ASSUME NEW p \in Packages, Analyse(p) PROVE NothingFound' /\ AlertsNotDropped'
  <2>1. PICK v \in Fetched(p) : over' = over \cup {<<p, v>>} /\ owed' = owed \cup {<<p, v>>}
    BY <1>7 DEF Analyse
  <2>2. pc = "working" /\ UNCHANGED <<pc, listed, outbox>>
    BY <1>7 DEF Analyse, Turn
  <2> QED BY <2>1, <2>2 DEF NothingFound, AlertsNotDropped
<1>8. ASSUME NEW p \in Packages, AnalyseListed(p) PROVE NothingFound' /\ AlertsNotDropped'
  <2>1. PICK v \in Fetched(p) : Abandon({<<p, v>>})
    BY <1>8 DEF AnalyseListed
  <2>2. p \in listed /\ UNCHANGED <<listed, outbox>>
    BY <1>8 DEF AnalyseListed
  <2>3. owed' = (owed \ over) \cup {<<p, v>>} /\ over' = {}
    BY <2>1 DEF Abandon, Forget
  <2>4. <<p, v>>[1] = p
    OBVIOUS
  <2> QED BY <2>2, <2>3, <2>4 DEF NothingFound, AlertsNotDropped
<1>9. CASE Report
  <2>1. outbox' = outbox \cup over /\ over' = {} /\ UNCHANGED <<listed, owed>>
    BY <1>9 DEF Report, Forget
  <2> QED BY <2>1 DEF NothingFound, AlertsNotDropped
<1>10. CASE Crash
  <2>1. owed' = owed \ over /\ over' = {} /\ UNCHANGED <<listed, outbox>>
    BY <1>10 DEF Crash, Abandon, Forget
  <2> QED BY <2>1 DEF NothingFound, AlertsNotDropped
<1> QED
  BY <1>1, <1>2, <1>3, <1>4, <1>5, <1>6, <1>7, <1>8, <1>9, <1>10
  DEF Next, Outcome, Fetch, Begin, Finish

-----------------------------------------------------------------------------
LEMMA StepInv == WatchInv /\ [Next]_vars => WatchInv'
<1>1. CASE UNCHANGED vars
  BY <1>1 DEF vars, world, disk, cycle, WatchInv, TypeOK, Pending, Owing, LoopDone, NothingFound,
              SnapshotCovered, AlertsNotDropped
<1>2. ASSUME WatchInv, Next PROVE WatchInv'
  BY <1>2, TypeStep, DebtsStep, CoveredStep, AlertsStep DEF WatchInv, Debts
<1> QED BY <1>1, <1>2

LEMMA InvHolds == Spec => []WatchInv
  BY InitInv, StepInv, PTL DEF Spec

\* The watcher's files, its locals and its records have their types whatever
\* the AUR publishes and wherever the process dies (run_watch).
THEOREM TypeCorrect == Spec => []TypeOK
<1>1. WatchInv => TypeOK
  BY DEF WatchInv
<1> QED BY <1>1, InvHolds, PTL

\* The snapshot stands past a package's last analysis only for a reason on
\* record: caps, stops, crashes, resumes, 304 answers and a resume file that
\* is too large to be read open no other gap (_finish_cycle).
THEOREM SnapshotIsCovered == Spec => []SnapshotCovered
<1>1. WatchInv => SnapshotCovered
  BY DEF WatchInv
<1> QED BY <1>1, InvHolds, PTL

\* Every alert of a cycle that did not die is in the outbox or still in
\* memory, known-bad matches excepted (_run_baseline_build, maybe_notify).
THEOREM AlertsAreKept == Spec => []AlertsNotDropped
<1>1. WatchInv => AlertsNotDropped
  BY DEF WatchInv
<1> QED BY <1>1, InvHolds, PTL
=============================================================================
