---------------------------- MODULE CorpusWatch ----------------------------
(***************************************************************************)
(* One host's corpus watcher: run_watch (full_aur/_pipeline_watch.py)      *)
(* repeating _run_baseline_build (full_aur/_baseline_build.py) over the    *)
(* AUR metadata dump of full_aur/metadata.py, beside `trustsight review`   *)
(* (review.py), which shares the snapshot file.                            *)
(*                                                                         *)
(* A revision is the number of the AUR change that made it, which stands   *)
(* for LastModified and Version.  The dump's ETag is abstracted to one     *)
(* fact: `fresh`, the validators on disk still name the dump being served. *)
(* Each write to disk is a step, and the process may die between any two.  *)
(* The --since replay (the backfill cursor) is not part of this module.    *)
(***************************************************************************)
EXTENDS Naturals, FiniteSets

CONSTANTS
  Packages,     \* names in the AUR
  KnownBad,     \* names whose recipes may match a known-bad indicator
  MaxRev,       \* bound: AUR changes
  Cap,          \* limits.corpus_max_per_cycle, 0 for none
  MaxFaults,    \* bound: crashes, stop requests and empty replies
  ResumeCap,    \* how many names a resume file that is read back can hold
  NoSnapshot    \* there is no snapshot file

ASSUME WatchAssumption ==
  /\ KnownBad \subseteq Packages
  /\ MaxRev \in Nat \ {0}
  /\ Cap \in Nat
  /\ MaxFaults \in Nat
  /\ ResumeCap \in Nat

VARIABLES
  listed,    \* the names that do match one, fixed for the run
  aur,       \* aur[p]: the revision the AUR holds, 0 when it has no p
  rev,       \* the number of the AUR's last change
  fresh,     \* the stored validators name the dump being served
  snap,      \* full-aur-meta.json: p -> revision, or NoSnapshot
  resume,    \* the resume file's "processed" names
  stored,    \* stored[p]: the revision of p's last analysis, 0 for none
  outbox,    \* alerts handed to the outbox, as <<package, revision>>
  pc,        \* where the cycle is
  meta,      \* new_meta: the dump this cycle works from
  unchanged, \* metadata_unchanged(): the fetch was answered 304
  todo,      \* the packages of this chunk not yet analysed
  missing,   \* dependencies to be prefilled before the chunk
  processed, \* processed
  partial,   \* the cycle is capped or was stopped
  over,      \* result.over_threshold and result.ioc_hits
  skipped,   \* history: why this cycle leaves a changed package unread
  gap,       \* history: why the snapshot stands past p's last analysis
  owed,      \* history: alerts found by cycles that did not die
  faults

disk   == <<snap, resume, stored, outbox>>
cycle  == <<meta, unchanged, todo, missing, processed, partial, over, skipped>>
world  == <<aur, rev, listed>>
vars   == <<world, fresh, disk, pc, cycle, gap, owed, faults>>

-----------------------------------------------------------------------------
Revs == 0..MaxRev
Nothing == [p \in Packages |-> 0]

\* diff_metadata, the names it calls added or modified.
Delta(old, new) ==
  {p \in Packages : new[p] # 0 /\ (old = NoSnapshot \/ old[p] # new[p])}

\* load_resume_state: a file over its size limit is refused, read as none.
Resumed == IF Cardinality(resume) <= ResumeCap THEN resume ELSE {}

\* Why the resume file's names are left unread in this cycle: an earlier chunk
\* could not fetch them, or analysed a revision that is superseded since.
TakenForDone(delta) ==
  [p \in Packages |->
     IF p \notin delta \cap Resumed \/ stored[p] >= meta[p] THEN "no"
     ELSE IF stored[p] > (IF snap = NoSnapshot THEN 0 ELSE snap[p]) THEN "superseded"
     ELSE "unfetchable"]

\* What the mirror may answer for p, prefetched at any time since the dump was
\* taken: never older than the dump or than an earlier answer.
Fetched(p) == {v \in {meta[p], stored[p], aur[p]} : v >= meta[p] /\ v >= stored[p]}

\* The cycle's locals when no cycle is running.
Forget ==
  /\ meta' = Nothing
  /\ unchanged' = FALSE
  /\ todo' = {}
  /\ missing' = {}
  /\ processed' = {}
  /\ partial' = FALSE
  /\ over' = {}
  /\ skipped' = [p \in Packages |-> "no"]

\* The cycle ends early and what it found so far goes with it.
Abandon(alert) ==
  /\ pc' = "asleep"
  /\ owed' = (owed \ over) \cup alert
  /\ Forget

Init ==
  /\ listed \in SUBSET KnownBad
  /\ aur = [p \in Packages |-> 1]
  /\ rev = 1
  /\ fresh = FALSE
  /\ snap = NoSnapshot
  /\ resume = {}
  /\ stored = Nothing
  /\ outbox = {}
  /\ pc = "asleep"
  /\ meta = Nothing
  /\ unchanged = FALSE
  /\ todo = {}
  /\ missing = {}
  /\ processed = {}
  /\ partial = FALSE
  /\ over = {}
  /\ skipped = [p \in Packages |-> "no"]
  /\ gap = [p \in Packages |-> "no"]
  /\ owed = {}
  /\ faults = 0

-----------------------------------------------------------------------------
(* Plausible bugs, each checked to break a property when it stands in for  *)
(* the action its comment names.                                           *)

\* NotModified: the validators are sent although there is no snapshot.
NotModifiedBlind ==
  /\ pc = "asleep"
  /\ fresh
  /\ meta' = snap
  /\ unchanged' = TRUE
  /\ pc' = "fetched"
  /\ UNCHANGED <<world, fresh, disk, todo, missing, processed, partial, over, skipped, gap, owed, faults>>

\* Plan: the cap is applied before the resumed names are subtracted.
PlanCapsFirst ==
  /\ pc = "fetched"
  /\ LET delta == Delta(snap, meta)
     IN  /\ delta # {}
         /\ \E chunk \in SUBSET delta :
              /\ IF Cap = 0 \/ Cardinality(delta) <= Cap
                 THEN chunk = delta ELSE Cardinality(chunk) = Cap
              /\ todo' = chunk \ Resumed
              /\ partial' = (chunk # delta)
         /\ missing' = {}
         /\ skipped' = TakenForDone(delta)
  /\ processed' = Resumed
  /\ pc' = "prefilling"
  /\ UNCHANGED <<world, fresh, disk, meta, unchanged, over, gap, owed, faults>>

\* FinishPartial: a capped or stopped cycle returns before the report.
FinishUnreported ==
  /\ pc = "finishing"
  /\ partial
  /\ pc' = "asleep"
  /\ Forget
  /\ UNCHANGED <<world, fresh, disk, gap, owed, faults>>

\* FinishWhole: the snapshot advances although the cycle was stopped.
FinishStopped ==
  /\ pc = "finishing"
  /\ IF unchanged THEN UNCHANGED <<snap, gap>>
     ELSE /\ snap' = meta
          /\ gap' = [p \in Packages |-> IF skipped[p] # "no" THEN skipped[p] ELSE gap[p]]
  /\ pc' = "clearing"
  /\ UNCHANGED <<world, fresh, resume, stored, outbox, cycle, owed, faults>>

-----------------------------------------------------------------------------
(* The AUR.                                                                *)

Publish(p) ==
  /\ rev < MaxRev
  /\ rev' = rev + 1
  /\ aur' = [aur EXCEPT ![p] = rev + 1]
  /\ fresh' = FALSE
  /\ UNCHANGED <<listed, disk, pc, cycle, gap, owed, faults>>

Remove(p) ==
  /\ aur[p] # 0
  /\ \E q \in Packages \ {p} : aur[q] # 0
  /\ aur' = [aur EXCEPT ![p] = 0]
  /\ fresh' = FALSE
  /\ UNCHANGED <<rev, listed, disk, pc, cycle, gap, owed, faults>>

\* Votes and popularity move: another dump, the same revisions.
Churn ==
  /\ fresh' = FALSE
  /\ UNCHANGED <<world, disk, pc, cycle, gap, owed, faults>>

-----------------------------------------------------------------------------
(* fetch_metadata.  The validators are written with the download, whatever *)
(* becomes of the cycle it was for.                                        *)

Download ==
  /\ pc = "asleep"
  /\ ~fresh \/ snap = NoSnapshot
  /\ meta' = aur
  /\ unchanged' = FALSE
  /\ fresh' = TRUE
  /\ pc' = "fetched"
  /\ UNCHANGED <<world, disk, todo, missing, processed, partial, over, skipped, gap, owed, faults>>

NotModified ==
  /\ pc = "asleep"
  /\ fresh
  /\ snap # NoSnapshot
  /\ meta' = snap
  /\ unchanged' = TRUE
  /\ pc' = "fetched"
  /\ UNCHANGED <<world, fresh, disk, todo, missing, processed, partial, over, skipped, gap, owed, faults>>

\* An empty reply: the cycle refuses, the validators are already written.
EmptyReply ==
  /\ pc = "asleep"
  /\ ~fresh \/ snap = NoSnapshot
  /\ faults < MaxFaults
  /\ faults' = faults + 1
  /\ fresh' = TRUE
  /\ UNCHANGED <<world, disk, pc, cycle, gap, owed>>

-----------------------------------------------------------------------------
(* The head of the cycle: what there is to do.                             *)

\* No snapshot, no --bootstrap and no bootstrap in progress.
Refuse ==
  /\ pc = "fetched"
  /\ snap = NoSnapshot
  /\ Resumed = {}
  /\ pc' = "asleep"
  /\ Forget
  /\ UNCHANGED <<world, fresh, disk, gap, owed, faults>>

\* _persist_metadata, and what it does to the history variables: a package
\* the cycle left unread is now behind the snapshot for the reason recorded.
Persist ==
  IF unchanged
  THEN UNCHANGED <<snap, gap>>
  ELSE /\ snap' = meta
       /\ gap' = [p \in Packages |-> IF skipped[p] # "no" THEN skipped[p] ELSE gap[p]]

\* "Nothing to process": the snapshot and the resume file are settled.
NothingToDo ==
  /\ pc = "fetched"
  /\ snap # NoSnapshot
  /\ Delta(snap, meta) = {}
  /\ Persist
  /\ resume' = {}
  /\ pc' = "asleep"
  /\ Forget
  /\ UNCHANGED <<world, fresh, stored, outbox, owed, faults>>

\* Subtract what the resume file says is done, take at most Cap of the rest
\* and list the dependencies to prefill.  Which Cap names come first is the
\* code's sort order, which dependency a name has is the AUR's: both open.
Plan ==
  /\ pc = "fetched"
  /\ LET delta   == Delta(snap, meta)
         pending == delta \ Resumed
     IN  /\ delta # {}
         /\ \E chunk \in SUBSET pending :
              /\ IF Cap = 0 \/ Cardinality(pending) <= Cap
                 THEN chunk = pending ELSE Cardinality(chunk) = Cap
              /\ todo' = chunk
              /\ partial' = (chunk # pending)
         /\ missing' \in SUBSET {d \in Packages \ delta : meta[d] # 0 /\ stored[d] = 0}
         /\ skipped' = TakenForDone(delta)
  /\ processed' = Resumed
  /\ pc' = "prefilling"
  /\ UNCHANGED <<world, fresh, disk, meta, unchanged, over, gap, owed, faults>>

-----------------------------------------------------------------------------
(* The analysis of one package, and the loop around it.                    *)

\* _analyse_and_store's success: one committed batch.
Store(p, v) ==
  /\ stored' = [stored EXCEPT ![p] = v]
  /\ gap' = IF snap = NoSnapshot \/ v >= snap[p] THEN [gap EXCEPT ![p] = "no"] ELSE gap

\* A dependency is baselined, or is not: no alert either way.
Prefill(d) ==
  /\ pc = "prefilling"
  /\ d \in missing
  /\ missing' = missing \ {d}
  /\ \/ \E v \in Fetched(d) : Store(d, v)
     \/ UNCHANGED <<stored, gap>>
  /\ UNCHANGED <<world, fresh, snap, resume, outbox, pc, meta, unchanged, todo,
                 processed, partial, over, skipped, owed, faults>>

StartRoots ==
  /\ pc = "prefilling"
  /\ missing = {}
  /\ pc' = "working"
  /\ UNCHANGED <<world, fresh, disk, cycle, gap, owed, faults>>

Turn(p) ==
  /\ pc = "working"
  /\ p \in todo
  /\ todo' = todo \ {p}

\* The package is analysed, stored, and its findings kept for the report.
Analyse(p) ==
  /\ Turn(p)
  /\ p \notin listed
  /\ \E v \in Fetched(p) :
       /\ Store(p, v)
       /\ over' = over \cup {<<p, v>>}
       /\ owed' = owed \cup {<<p, v>>}
  /\ processed' = processed \cup {p}
  /\ skipped' = [skipped EXCEPT ![p] = "no"]
  /\ UNCHANGED <<world, fresh, snap, resume, outbox, pc, meta, unchanged, missing,
                 partial, faults>>

\* The same for a recipe on the known-bad list: the result is committed and
\* the unseeded ioc_hits[name] raises KeyError, which ends the cycle.
AnalyseListed(p) ==
  /\ pc = "working"
  /\ p \in todo \cap listed
  /\ \E v \in Fetched(p) :
       /\ Store(p, v)
       /\ Abandon({<<p, v>>})
  /\ UNCHANGED <<world, fresh, snap, resume, outbox, faults>>

\* No fetchable PKGBUILD: counted as done.
FetchFailed(p) ==
  /\ Turn(p)
  /\ processed' = processed \cup {p}
  /\ skipped' = [skipped EXCEPT ![p] = IF stored[p] < meta[p] THEN "unfetchable" ELSE "no"]
  /\ UNCHANGED <<world, fresh, disk, pc, meta, unchanged, missing, partial, over,
                 gap, owed, faults>>

\* The tokenizer did not answer: nothing is stored, the name is not done.
NotVetted(p) ==
  /\ Turn(p)
  /\ skipped' = [skipped EXCEPT ![p] = IF stored[p] < meta[p] THEN "not vetted" ELSE "no"]
  /\ UNCHANGED <<world, fresh, disk, pc, meta, unchanged, missing, processed, partial,
                 over, gap, owed, faults>>

\* The resume file is also saved inside the loop, every thousand packages;
\* here after any of them.
Checkpoint ==
  /\ pc = "working"
  /\ resume # processed
  /\ resume' = processed
  /\ UNCHANGED <<world, fresh, snap, stored, outbox, pc, cycle, gap, owed, faults>>

\* SIGTERM or SIGINT between two packages: the rest stays for the next cycle.
Stop ==
  /\ pc = "working"
  /\ todo # {}
  /\ faults < MaxFaults
  /\ faults' = faults + 1
  /\ resume' = processed
  /\ partial' = TRUE
  /\ pc' = "finishing"
  /\ UNCHANGED <<world, fresh, snap, stored, outbox, meta, unchanged, todo, missing,
                 processed, over, skipped, gap, owed>>

EndLoop ==
  /\ pc = "working"
  /\ todo = {}
  /\ resume' = processed
  /\ pc' = "finishing"
  /\ UNCHANGED <<world, fresh, snap, stored, outbox, cycle, gap, owed, faults>>

-----------------------------------------------------------------------------
(* _finish_cycle, then the report.                                         *)

\* A capped or stopped cycle reports what it found and advances nothing.
FinishPartial ==
  /\ pc = "finishing"
  /\ partial
  /\ pc' = "reporting"
  /\ UNCHANGED <<world, fresh, disk, cycle, gap, owed, faults>>

FinishWhole ==
  /\ pc = "finishing"
  /\ ~partial
  /\ Persist
  /\ pc' = "clearing"
  /\ UNCHANGED <<world, fresh, resume, stored, outbox, cycle, owed, faults>>

ClearResume ==
  /\ pc = "clearing"
  /\ resume' = {}
  /\ pc' = "reporting"
  /\ UNCHANGED <<world, fresh, snap, stored, outbox, cycle, gap, owed, faults>>

\* maybe_notify hands the cycle's alerts to the outbox.
Report ==
  /\ pc = "reporting"
  /\ outbox' = outbox \cup over
  /\ pc' = "asleep"
  /\ Forget
  /\ UNCHANGED <<world, fresh, snap, resume, stored, gap, owed, faults>>

-----------------------------------------------------------------------------
\* The process dies and its supervisor starts it again.  Inside
\* save_resume_state it leaves a torn file, which is read as none.
Crash ==
  /\ pc # "asleep"
  /\ faults < MaxFaults
  /\ faults' = faults + 1
  /\ resume' \in {resume} \cup (IF pc = "working" THEN {{}} ELSE {})
  /\ Abandon({})
  /\ UNCHANGED <<world, fresh, snap, stored, outbox, gap>>

\* `trustsight review` finds its snapshot stale: it downloads the dump and
\* saves it under the watcher's feet, with nothing analysed.
Review ==
  /\ ~fresh \/ snap = NoSnapshot
  /\ snap' = aur
  /\ fresh' = TRUE
  /\ gap' = [p \in Packages |->
       IF p \in Delta(snap, aur) /\ stored[p] < aur[p] THEN "review" ELSE gap[p]]
  /\ UNCHANGED <<world, resume, stored, outbox, pc, cycle, owed, faults>>

-----------------------------------------------------------------------------
Outcome(p) == Analyse(p) \/ AnalyseListed(p) \/ FetchFailed(p) \/ NotVetted(p)

Fetch == Download \/ NotModified
Begin == Refuse \/ NothingToDo \/ Plan
Finish == FinishPartial \/ FinishWhole \/ ClearResume \/ Report

Next ==
  \/ Churn
  \/ \E p \in Packages : Publish(p) \/ Remove(p) \/ Prefill(p) \/ Outcome(p)
  \/ Fetch \/ Begin \/ StartRoots \/ EndLoop \/ Finish
  \/ EmptyReply \/ Checkpoint \/ Stop \/ Crash \/ Review

Spec == Init /\ [][Next]_vars

\* The watch loop keeps running and a cycle that is started goes on; the
\* served dump keeps changing, if only in its votes; the mirror and the
\* tokenizer do not fail one package for ever; an operator who sees no
\* snapshot bootstraps.
Fairness ==
  /\ WF_vars(Churn) /\ WF_vars(Fetch) /\ SF_vars(Download)
  /\ WF_vars(Begin) /\ SF_vars(Plan)
  /\ \A p \in Packages :
       WF_vars(Prefill(p)) /\ WF_vars(Outcome(p)) /\ SF_vars(Analyse(p))
  /\ WF_vars(StartRoots) /\ WF_vars(EndLoop) /\ WF_vars(Finish)

FairSpec == Spec /\ Fairness

-----------------------------------------------------------------------------
Reasons == {"no", "superseded", "unfetchable", "not vetted", "review"}

Places == {"asleep", "fetched", "prefilling", "working", "finishing", "clearing", "reporting"}

TypeOK ==
  /\ listed \subseteq KnownBad
  /\ aur \in [Packages -> Revs]
  /\ rev \in 1..MaxRev
  /\ fresh \in BOOLEAN
  /\ snap \in [Packages -> Revs] \cup {NoSnapshot}
  /\ resume \in SUBSET Packages
  /\ stored \in [Packages -> Revs]
  /\ outbox \in SUBSET (Packages \X Revs)
  /\ pc \in Places
  /\ meta \in [Packages -> Revs]
  /\ unchanged \in BOOLEAN
  /\ todo \in SUBSET Packages
  /\ missing \in SUBSET Packages
  /\ processed \in SUBSET Packages
  /\ partial \in BOOLEAN
  /\ over \in SUBSET (Packages \X Revs)
  /\ skipped \in [Packages -> Reasons]
  /\ gap \in [Packages -> Reasons]
  /\ owed \in SUBSET (Packages \X Revs)
  /\ faults \in 0..MaxFaults

\* What the snapshot says was seen was analysed: it stands past a package's
\* last analysis only where the mirror had nothing, the tokenizer did not
\* answer, an earlier chunk took the package for done, or `review` moved it.
\* Caps, stops, crashes, resumes and 304 answers open no other gap.
SnapshotCovered ==
  snap # NoSnapshot =>
    \A p \in Packages : snap[p] > stored[p] => gap[p] # "no"

\* Every alert of a cycle that did not die reaches the outbox, from capped
\* and stopped cycles too, and is in memory until then (all but the known-bad
\* matches, whose cycle dies of them).
AlertsNotDropped ==
  \A a \in owed : a[1] \notin listed => a \in outbox \cup over

\* "A known-bad match pages at maximum priority whatever the score".
KnownBadPages ==
  \A a \in owed : a[1] \in listed => a \in outbox \cup over

\* "a not-vetted package is the opposite case: ... the tokenizer may answer on
\* a later pass, so it is left out of the resume set and retried": the
\* snapshot does not move past it.
NotVettedRetried == \A p \in Packages : gap[p] # "not vetted"

\* "Nothing is lost by stopping: each cycle writes its metadata snapshot and
\* resume file before it returns, so the next run picks up from there": a cycle
\* whose fetch was answered 304 does not remove the resume file while the dump
\* that was downloaded last still differs from the snapshot.
ResumeKept ==
  [][unchanged /\ fresh /\ resume # {} /\ resume' = {} => Delta(snap', aur) = {}]_vars

\* "The bootstrap is capped per cycle and resumes automatically, so run the
\* command repeatedly to finish it in gentle chunks".
BootstrapFinishes == <>(snap # NoSnapshot)

\* Progress already made is thrown away by a 304.
Discards == NothingToDo /\ unchanged /\ resume # {}

\* Once the AUR is quiet the watcher catches up with it, whatever happened
\* before and however small the cap (and with a resume file that holds every
\* name, see BootstrapFinishes), unless a 304 discards the progress again
\* and again or a known-bad recipe ends every cycle.
CatchesUp ==
  <>[][~Discards]_vars =>
    []<>(snap = aur \/ \E p \in listed : snap = NoSnapshot \/ snap[p] # aur[p])
=============================================================================
