---------------------------- MODULE ReviewBatch ----------------------------
(***************************************************************************)
(* A batch of reviews and the dependency walk of each: review.py           *)
(* (analyze_outdated_batch), analysis/pipeline/_analyze.py (where a        *)
(* package's walk starts) and depth.py (walk_dependencies).  A pool of     *)
(* threads takes the packages under review; every walk goes level by level *)
(* through the AUR dependencies and passes over what depth_seen holds,     *)
(* which all walks of the batch share without a lock.                      *)
(*                                                                         *)
(* The dependency graph is whatever the recipes say, apart from a package  *)
(* that names itself, which its own walk passes over; the metadata         *)
(* provider answers.  -1, "every level", is any depth beyond MaxLevels: the code    *)
(* treats both alike.                                                      *)
(***************************************************************************)
EXTENDS Naturals, FiniteSets

CONSTANTS
  Packages,
  Nobody,     \* no package
  Depths,     \* the depths a batch may be asked for
  PoolSizes,  \* the numbers of threads tried
  Ceilings,   \* the pairs <<MAX_DEPTH_LEVELS, MAX_DEPTH_NODES>> tried
  MaxDeps,    \* bound: dependencies a recipe declares
  MaxFailures \* bound: analyses that fail

ASSUME BatchAssumption ==
  /\ IsFiniteSet(Packages)
  /\ Nobody \notin Packages
  /\ Depths \subseteq Nat \ {0}
  /\ PoolSizes \subseteq Nat \ {0}
  /\ Ceilings \subseteq (Nat \ {0}) \X (Nat \ {0})
  /\ MaxDeps \in Nat
  /\ MaxFailures \in Nat

VARIABLES
  deps,      \* deps[p]: the AUR packages p's recipe declares
  roots,     \* the packages under review
  depth,     \* the depth asked for
  ceiling,   \* the ceilings of every walk
  workers,   \* default_workers()
  seen,      \* depth_seen
  phase,     \* phase[r]: "waiting", "own", "walk", "claim", "analyse", "rest",
             \* and at the end "vetted", "served" (without a walk) or "failed"
  level,     \* level[r]: the level r's walk is at
  frontier,  \* frontier[r]: names of this level not looked at yet
  nxt,       \* nxt[r]: names found for the next
  at,        \* at[r]: the dependency r's walk is busy with, or Nobody
  reports,   \* reports[r]: the dependencies r's walk has a report of
  truncated, \* roots whose walk was cut short
  lost,      \* roots whose review failed after its walk
  failures

input == <<deps, roots, depth, ceiling, workers>>
walk  == <<level, frontier, nxt, at, reports, truncated>>
vars  == <<input, seen, phase, walk, lost, failures>>

-----------------------------------------------------------------------------
MaxLevels == ceiling[1]
MaxNodes  == ceiling[2]

Ended  == {"vetted", "served", "failed"}
Active == {r \in roots : phase[r] \notin Ended \cup {"waiting"}}
Over   == \A r \in roots : phase[r] \in Ended

\* Plausible bug in Wanted: one level too many.
WantedOneMore(l) == l <= depth /\ l <= MaxLevels + 1

\* _wanted
Wanted(l) == l <= depth /\ l <= MaxLevels

\* _aur_children
Children(p) == deps[p] \ seen

To(r, ph) == phase' = [phase EXCEPT ![r] = ph]

Init ==
  /\ deps \in [Packages -> {d \in SUBSET Packages : Cardinality(d) <= MaxDeps}]
  /\ \A p \in Packages : p \notin deps[p]
  /\ roots \in SUBSET Packages \ {{}}
  /\ depth \in Depths
  /\ ceiling \in Ceilings
  /\ workers \in PoolSizes
  /\ seen = {}
  /\ phase = [r \in Packages |-> "waiting"]
  /\ level = [r \in Packages |-> 0]
  /\ frontier = [r \in Packages |-> {}]
  /\ nxt = [r \in Packages |-> {}]
  /\ at = [r \in Packages |-> Nobody]
  /\ reports = [r \in Packages |-> {}]
  /\ truncated = {}
  /\ lost = {}
  /\ failures = 0

Fails == failures < MaxFailures /\ failures' = failures + 1

-----------------------------------------------------------------------------
\* Plausible bugs, each checked to break a property when it stands in for the
\* definition its comment names.

\* Analysed: what the dependency needs is not noted.
AnalysedLeaf(r) ==
  /\ phase[r] = "analyse"
  /\ reports' = [reports EXCEPT ![r] = @ \cup {at[r]}]
  /\ at' = [at EXCEPT ![r] = Nobody]
  /\ To(r, "walk")
  /\ UNCHANGED <<input, seen, level, frontier, nxt, truncated, lost, failures>>

\* Unread: a dependency that could not be read is no gap.
UnreadSilently(r) ==
  /\ phase[r] = "analyse"
  /\ Fails
  /\ at' = [at EXCEPT ![r] = Nobody]
  /\ To(r, "walk")
  /\ UNCHANGED <<input, seen, level, frontier, nxt, reports, truncated, lost>>

\* Claim: the name is added to a set of the walk's own.
ClaimAlone(r) ==
  /\ phase[r] = "claim"
  /\ To(r, "analyse")
  /\ UNCHANGED <<input, seen, walk, lost, failures>>

\* NextLevel: the level is not counted, and its names are kept.
NextLevelAgain(r) ==
  /\ phase[r] = "walk"
  /\ frontier[r] = {}
  /\ nxt[r] # {}
  /\ Wanted(level[r] + 1)
  /\ frontier' = [frontier EXCEPT ![r] = nxt[r]]
  /\ UNCHANGED <<input, seen, phase, level, nxt, at, reports, truncated, lost, failures>>

-----------------------------------------------------------------------------
\* A thread takes the next package and analyses it ...
Start(r) ==
  /\ phase[r] = "waiting"
  /\ Cardinality(Active) < workers
  /\ To(r, "own")
  /\ UNCHANGED <<input, seen, walk, lost, failures>>

\* ... is served a recorded analysis, or has nothing to compare ...
Served(r) ==
  /\ phase[r] = "own"
  /\ To(r, "served")
  /\ UNCHANGED <<input, seen, walk, lost, failures>>

\* ... fails ...
OwnFails(r) ==
  /\ phase[r] = "own"
  /\ Fails
  /\ To(r, "failed")
  /\ UNCHANGED <<input, seen, walk, lost>>

\* ... or begins its walk.
BeginWalk(r) ==
  /\ phase[r] = "own"
  /\ seen' = seen \cup {r}
  /\ frontier' = [frontier EXCEPT ![r] = Children(r) \ {r}]
  /\ level' = [level EXCEPT ![r] = 1]
  /\ To(r, "walk")
  /\ UNCHANGED <<input, nxt, at, reports, truncated, lost, failures>>

\* The next name of the level: one that is in depth_seen is passed over,
PassOver(r, p) ==
  /\ phase[r] = "walk"
  /\ p \in frontier[r] \cap seen
  /\ frontier' = [frontier EXCEPT ![r] = @ \ {p}]
  /\ UNCHANGED <<input, seen, phase, level, nxt, at, reports, truncated, lost, failures>>

\* at the ceiling of names the walk stops,
Ceiling(r, p) ==
  /\ phase[r] = "walk"
  /\ p \in frontier[r] \ seen
  /\ Cardinality(reports[r]) >= MaxNodes
  /\ truncated' = truncated \cup {r}
  /\ To(r, "rest")
  /\ UNCHANGED <<input, seen, level, frontier, nxt, at, reports, lost, failures>>

\* any other is taken.  Another walk may take it before this one has said so.
Take(r, p) ==
  /\ phase[r] = "walk"
  /\ p \in frontier[r] \ seen
  /\ Cardinality(reports[r]) < MaxNodes
  /\ frontier' = [frontier EXCEPT ![r] = @ \ {p}]
  /\ at' = [at EXCEPT ![r] = p]
  /\ To(r, "claim")
  /\ UNCHANGED <<input, seen, level, nxt, reports, truncated, lost, failures>>

Claim(r) ==
  /\ phase[r] = "claim"
  /\ seen' = seen \cup {at[r]}
  /\ To(r, "analyse")
  /\ UNCHANGED <<input, walk, lost, failures>>

\* _analyse_one: the dependency is analysed and its own are noted for the next
\* level, or it could not be read.
Analysed(r) ==
  /\ phase[r] = "analyse"
  /\ reports' = [reports EXCEPT ![r] = @ \cup {at[r]}]
  /\ nxt' = [nxt EXCEPT ![r] = @ \cup Children(at[r])]
  /\ at' = [at EXCEPT ![r] = Nobody]
  /\ To(r, "walk")
  /\ UNCHANGED <<input, seen, level, frontier, truncated, lost, failures>>

Unread(r) ==
  /\ phase[r] = "analyse"
  /\ Fails
  /\ reports' = [reports EXCEPT ![r] = @ \cup {at[r]}]
  /\ truncated' = truncated \cup {r}
  /\ at' = [at EXCEPT ![r] = Nobody]
  /\ To(r, "walk")
  /\ UNCHANGED <<input, seen, level, frontier, nxt, lost>>

\* The next level, or the end of the walk.
NextLevel(r) ==
  /\ phase[r] = "walk"
  /\ frontier[r] = {}
  /\ nxt[r] # {}
  /\ Wanted(level[r] + 1)
  /\ frontier' = [frontier EXCEPT ![r] = nxt[r]]
  /\ nxt' = [nxt EXCEPT ![r] = {}]
  /\ level' = [level EXCEPT ![r] = @ + 1]
  /\ UNCHANGED <<input, seen, phase, at, reports, truncated, lost, failures>>

CutAtLevel(r) == nxt[r] # {} /\ level[r] + 1 > MaxLevels /\ depth > MaxLevels

EndWalk(r) ==
  /\ phase[r] = "walk"
  /\ frontier[r] = {}
  /\ nxt[r] = {} \/ ~Wanted(level[r] + 1)
  /\ truncated' = IF CutAtLevel(r) THEN truncated \cup {r} ELSE truncated
  /\ To(r, "rest")
  /\ UNCHANGED <<input, seen, level, frontier, nxt, at, reports, lost, failures>>

\* The rest of the review, and its verdict.
Finish(r) ==
  /\ phase[r] = "rest"
  /\ To(r, "vetted")
  /\ UNCHANGED <<input, seen, walk, lost, failures>>

RestFails(r) ==
  /\ phase[r] = "rest"
  /\ Fails
  /\ lost' = lost \cup {r}
  /\ To(r, "failed")
  /\ UNCHANGED <<input, seen, walk>>

Idle == Over /\ UNCHANGED vars

Step(r) ==
  \/ Start(r) \/ Served(r) \/ OwnFails(r) \/ BeginWalk(r) \/ Claim(r) \/ Analysed(r)
  \/ Unread(r) \/ NextLevel(r) \/ EndWalk(r) \/ Finish(r) \/ RestFails(r)
  \/ \E p \in Packages : PassOver(r, p) \/ Ceiling(r, p) \/ Take(r, p)

Work == \E r \in roots : Step(r)

Next == Work \/ Idle

Spec == Init /\ [][Next]_vars

\* While a thread of the pool can do something, some thread does.
FairSpec == Spec /\ WF_vars(Work)

-----------------------------------------------------------------------------
TypeOK ==
  /\ deps \in [Packages -> SUBSET Packages]
  /\ roots \in SUBSET Packages
  /\ depth \in Nat \ {0}
  /\ ceiling \in (Nat \ {0}) \X (Nat \ {0})
  /\ workers \in Nat \ {0}
  /\ seen \in SUBSET Packages
  /\ phase \in [Packages -> Ended \cup {"waiting", "own", "walk", "claim", "analyse", "rest"}]
  /\ level \in [Packages -> 0..MaxLevels]
  /\ frontier \in [Packages -> SUBSET Packages]
  /\ nxt \in [Packages -> SUBSET Packages]
  /\ at \in [Packages -> Packages \cup {Nobody}]
  /\ \A r \in Packages : at[r] # Nobody <=> phase[r] \in {"claim", "analyse"}
  /\ reports \in [Packages -> SUBSET Packages]
  /\ truncated \in SUBSET roots
  /\ lost \in SUBSET roots
  /\ failures \in 0..MaxFailures

\* What the results of the batch speak of: every root, as vetted, served or
\* NOT vetted, and the dependencies in the reports that were kept.
Examined == roots \cup UNION {reports[r] : r \in roots \ lost}

\* Every result came without a gap and without a failure after its walk.
NoGapTold == Over /\ truncated = {} /\ lost = {}

\* The packages at most n dependencies away from r.
Path(f, k) == \A j \in 1..k : f[j] \in deps[f[j - 1]]

Within(r, n) ==
  {p \in Packages :
     \E k \in 0..n : \E f \in [0..k -> Packages] : f[0] = r /\ f[k] = p /\ Path(f, k)}

Reach(r) == Within(r, IF depth < MaxLevels THEN depth ELSE MaxLevels)

\* "Only a walk cut short by a ceiling, or a dependency whose own analysis
\* failed, leaves something unexamined that the reader was not told about":
\* when no result tells of a gap, what lies within the depth of a root that
\* was walked is in the results.
NothingMissed ==
  NoGapTold => \A r \in roots : phase[r] = "vetted" => Reach(r) \subseteq Examined

\* The same for the depths at which it does hold: the default, every level,
\* and any depth when the batch has a single root.
NothingMissedAtDepth ==
  depth = 1 \/ depth > MaxLevels \/ Cardinality(roots) = 1 => NothingMissed

\* Asked for every level, a batch that tells of no gap has examined all the
\* dependencies of all it examined by a walk, whoever of its threads met them.
ClosureExamined ==
  NoGapTold /\ depth > MaxLevels =>
    \A r \in roots : phase[r] = "vetted" =>
      \A p \in reports[r] \cup {r} : deps[p] \subseteq Examined

\* "the check-then-add race is a performance issue (double analysis)": however
\* many roots need a dependency, at most one analysis per thread is made of it.
FewRepeats == \A p \in Packages : Cardinality({r \in roots : p \in reports[r]}) <= workers

\* The batch comes to its end, however the graph loops.
EveryReviewEnds == <>Over
=============================================================================
