------------------------- MODULE ReviewBatch_proofs -------------------------
(***************************************************************************)
(* The batch of reviews for any graph of dependencies, any roots, ceilings *)
(* and number of threads: nothing is lost to the set the walks share, and  *)
(* the race on it costs at most one analysis per thread.                   *)
(***************************************************************************)
EXTENDS ReviewBatch, FiniteSetTheorems, WellFoundedInduction, TLAPS

Walking == {"walk", "claim", "analyse"}

Begun(r) == phase[r] \in Walking \cup {"rest", "vetted"} \/ r \in lost

\* What depth_seen holds, and which walks have a report.
Shape ==
  /\ \A r \in lost : phase[r] = "failed"
  /\ \A r \in Packages : reports[r] # {} => Begun(r)
  /\ \A r \in Packages : reports[r] \subseteq seen
  /\ \A r \in Packages : phase[r] = "analyse" => at[r] \in seen
  /\ \A p \in seen : \/ p \in roots /\ Begun(p)
                    \/ \E r \in roots : p \in reports[r] \/ (phase[r] = "analyse" /\ at[r] = p)

\* What one walk still owes: the dependencies of what it has examined are in
\* depth_seen or on its lists, and in depth_seen when it is over.
Owes(r, p) ==
  \A d \in deps[p] : d \in seen \cup frontier[r] \cup nxt[r] \/ (phase[r] = "claim" /\ at[r] = d)

Covered ==
  \A r \in roots \ truncated : \A p \in reports[r] \cup {r} :
    /\ phase[r] \in Walking => Owes(r, p)
    /\ phase[r] \in {"rest", "vetted"} /\ depth > MaxLevels => deps[p] \subseteq seen

Holders(p) == {r \in roots : p \in reports[r] \/ at[r] = p}

\* The threads are the pool's, and those that hold p met it before it was
\* in depth_seen.
Pool ==
  /\ Cardinality(Active) <= workers
  /\ \A p \in Packages : Cardinality(Holders(p)) <= workers

\* The first level of a walk at depth 1, and all levels of a walk no other
\* shares depth_seen with, are where such a walk left them.
Own(r) == depth = 1 \/ roots = {r}

Held(r) == seen \cup frontier[r] \cup (IF phase[r] = "claim" THEN {at[r]} ELSE {})

Depth(r) ==
  /\ phase[r] \in Walking => level[r] >= 1 /\ level[r] <= depth /\ level[r] <= MaxLevels
  /\ phase[r] \in Walking /\ Own(r) => Within(r, level[r]) \subseteq Held(r)
  /\ phase[r] \in {"rest", "vetted"} /\ Own(r) => Reach(r) \subseteq seen

Reached == \A r \in roots \ truncated : Depth(r)

BatchInv == TypeOK /\ Shape /\ Covered /\ Reached /\ Pool

-----------------------------------------------------------------------------
(* What lies within so many steps of a package.                            *)

\* Nat is well founded, so any set of numbers that is not empty has a least.
LEMMA Least ==
  ASSUME NEW T \in SUBSET Nat, T # {}
  PROVE  \E n \in T : \A m \in T : n <= m
<1> DEFINE Below == {ss \in Nat \X Nat : ss[1] < ss[2]}
<1>1. IsWellFoundedOn(Below, Nat)
  BY NatLessThanWellFounded DEF OpToRel
<1>2. PICK n \in T : \A m \in T : ~ (<<m, n>> \in Below)
  BY <1>1, WFMin
<1>3. ASSUME NEW m \in T PROVE n <= m
  <2>1. m \in Nat /\ n \in Nat
    OBVIOUS
  <2>2. m < n => <<m, n>> \in Below
    BY <2>1
  <2> QED BY <1>2, <2>1, <2>2
<1> QED BY <1>3

\* A path that starts in a set which holds the dependencies of all its members
\* never leaves it.
LEMMA WithinClosed ==
  ASSUME NEW S, NEW r \in S, \A p \in S : deps[p] \subseteq S, NEW n \in Nat
  PROVE  Within(r, n) \subseteq S
<1> SUFFICES ASSUME NEW p \in Within(r, n), p \notin S PROVE FALSE
  OBVIOUS
<1>1. PICK k \in 0..n : \E f \in [0..k -> Packages] : f[0] = r /\ f[k] = p /\ Path(f, k)
  BY DEF Within
<1>2. PICK f \in [0..k -> Packages] : f[0] = r /\ f[k] = p /\ Path(f, k)
  BY <1>1
<1> DEFINE T == {j \in 0..k : f[j] \notin S}
<1>3. k \in T /\ T \in SUBSET Nat
  BY <1>2
<1>4. PICK j \in T : \A i \in T : j <= i
  BY <1>3, Least
<1>5. j \in 1..k /\ j - 1 \in 0..k /\ j - 1 \notin T
  BY <1>2, <1>4
<1>6. f[j - 1] \in S /\ f[j] \in deps[f[j - 1]]
  BY <1>2, <1>5 DEF Path
<1> QED BY <1>4, <1>6

LEMMA WithinNone ==
  ASSUME NEW r
  PROVE  Within(r, 0) \subseteq {r}
<1>1. \A k \in 0..0 : k = 0
  OBVIOUS
<1> QED BY <1>1 DEF Within

\* One more step leads to the dependencies of what was within reach.
LEMMA WithinOneMore ==
  ASSUME NEW r, NEW n \in Nat, NEW p \in Within(r, n + 1)
  PROVE  p \in Within(r, n) \/ \E q \in Within(r, n) : p \in deps[q]
<1>1. PICK k \in 0..(n + 1) : \E f \in [0..k -> Packages] : f[0] = r /\ f[k] = p /\ Path(f, k)
  BY DEF Within
<1>2. PICK f \in [0..k -> Packages] : f[0] = r /\ f[k] = p /\ Path(f, k)
  BY <1>1
<1>3. CASE k \in 0..n
  BY <1>2, <1>3 DEF Within
<1>4. CASE k = n + 1
  <2> DEFINE g == [j \in 0..n |-> f[j]]
  <2>1. n \in 0..k /\ k \in 1..k /\ k - 1 = n /\ 0..n \subseteq 0..k /\ 1..n \subseteq 1..k
    BY <1>4
  <2>2. g \in [0..n -> Packages] /\ g[0] = r /\ g[n] = f[n]
    BY <1>2, <2>1
  <2>3. Path(g, n)
    <3> SUFFICES ASSUME NEW j \in 1..n PROVE g[j] \in deps[g[j - 1]]
      BY DEF Path
    <3>1. j \in 0..n /\ j - 1 \in 0..n /\ j \in 1..k
      BY <2>1
    <3> QED BY <1>2, <3>1 DEF Path
  <2>4. n \in 0..n /\ f[n] \in Packages
    BY <2>1
  <2>5. f[n] \in Within(r, n)
    BY <2>2, <2>3, <2>4 DEF Within
  <2>6. p \in deps[f[n]]
    BY <1>2, <2>1 DEF Path
  <2> QED BY <2>5, <2>6
<1> QED BY <1>3, <1>4

LEMMA WithinSelf ==
  ASSUME NEW r \in Packages, NEW n \in Nat
  PROVE  r \in Within(r, n)
<1> DEFINE f == [j \in 0..0 |-> r]
<1>1. 0 \in 0..n /\ 0 \in 0..0
  OBVIOUS
<1>2. f \in [0..0 -> Packages] /\ f[0] = r
  BY <1>1
<1>3. Path(f, 0)
  BY DEF Path
<1> QED BY <1>1, <1>2, <1>3 DEF Within

LEMMA WithinGrows ==
  ASSUME NEW r, NEW m \in Nat, NEW n \in Nat, m <= n
  PROVE  Within(r, m) \subseteq Within(r, n)
<1>1. 0..m \subseteq 0..n
  OBVIOUS
<1> QED BY <1>1 DEF Within

-----------------------------------------------------------------------------
LEMMA InitInv == Init => BatchInv
<1> SUFFICES ASSUME Init PROVE BatchInv
  OBVIOUS
<1>1. TypeOK
  <2>1. ceiling \in (Nat \ {0}) \X (Nat \ {0}) /\ workers \in Nat \ {0} /\ depth \in Nat \ {0}
    BY BatchAssumption DEF Init
  <2>2. MaxLevels \in Nat \ {0}
    BY <2>1 DEF MaxLevels
  <2>3. 0 \in 0..MaxLevels /\ 0 \in 0..MaxFailures
    BY <2>2, BatchAssumption
  <2>4. deps \in [Packages -> SUBSET Packages] /\ roots \in SUBSET Packages
    BY DEF Init
  <2> QED BY <2>1, <2>3, <2>4, BatchAssumption DEF Init, TypeOK, Ended
<1>2. Shape /\ Covered /\ Reached
  BY DEF Init, Shape, Begun, Covered, Reached, Depth, Walking
<1>3. Active = {} /\ \A p \in Packages : Holders(p) = {}
  BY BatchAssumption DEF Init, Active, Holders
<1>4. Pool
  <2>1. Cardinality({}) = 0
    BY FS_EmptySet
  <2>2. workers \in Nat
    BY <1>1 DEF TypeOK
  <2>3. Cardinality(Active) <= workers
    BY <1>3, <2>1, <2>2
  <2>4. \A p \in Packages : Cardinality(Holders(p)) <= workers
    BY <1>3, <2>1, <2>2
  <2> QED BY <2>3, <2>4 DEF Pool
<1> QED BY <1>1, <1>2, <1>4 DEF BatchInv

\* What every step leaves alone.
LEMMA InputKept == Next => UNCHANGED input
  BY DEF Next, Work, Idle, Step, vars, Start, Served, OwnFails, BeginWalk, PassOver, Ceiling,
         Take, Claim, Analysed, Unread, NextLevel, EndWalk, Finish, RestFails

LEMMA TypeStep ==
  ASSUME TypeOK, NEW r \in roots, Step(r)
  PROVE  TypeOK'
<1>1. MaxLevels \in Nat \ {0} /\ level[r] \in 0..MaxLevels /\ r \in Packages
  BY DEF TypeOK, MaxLevels
<1>2. CASE Start(r) \/ Served(r) \/ Finish(r)
  BY <1>2 DEF Start, Served, Finish, TypeOK, To, Ended, input, walk, MaxLevels
<1>3. CASE OwnFails(r) \/ RestFails(r)
  BY <1>3, BatchAssumption DEF OwnFails, RestFails, Fails, TypeOK, To, Ended, input, walk, MaxLevels
<1>4. CASE BeginWalk(r)
  BY <1>1, <1>4 DEF BeginWalk, TypeOK, To, Ended, input, MaxLevels, Children
<1>5. ASSUME NEW p \in Packages, PassOver(r, p) PROVE TypeOK'
  BY <1>5 DEF PassOver, TypeOK, input, MaxLevels
<1>6. ASSUME NEW p \in Packages, Ceiling(r, p) PROVE TypeOK'
  BY <1>6 DEF Ceiling, TypeOK, To, Ended, input, MaxLevels
<1>7. ASSUME NEW p \in Packages, Take(r, p) PROVE TypeOK'
  BY <1>7, BatchAssumption DEF Take, TypeOK, To, Ended, input, MaxLevels
<1>8. CASE Claim(r)
  BY <1>8 DEF Claim, TypeOK, To, Ended, input, walk, MaxLevels
<1>9. CASE Analysed(r)
  BY <1>9, BatchAssumption DEF Analysed, TypeOK, To, Ended, input, MaxLevels, Children
<1>10. CASE Unread(r)
  BY <1>10, BatchAssumption DEF Unread, Fails, TypeOK, To, Ended, input, MaxLevels
<1>11. CASE NextLevel(r)
  <2>1. level[r] + 1 \in 0..MaxLevels
    BY <1>1, <1>11 DEF NextLevel, Wanted
  <2> QED BY <1>11, <2>1 DEF NextLevel, TypeOK, input, MaxLevels
<1>12. CASE EndWalk(r)
  BY <1>12 DEF EndWalk, TypeOK, To, Ended, input, MaxLevels
<1> QED
  BY <1>2, <1>3, <1>4, <1>5, <1>6, <1>7, <1>8, <1>9, <1>10, <1>11, <1>12 DEF Step

-----------------------------------------------------------------------------
LEMMA ShapeStep ==
  ASSUME TypeOK, Shape, NEW r \in roots, Step(r)
  PROVE  Shape'
<1>1. CASE Start(r) \/ Served(r) \/ OwnFails(r) \/ Finish(r) \/ RestFails(r)
  BY <1>1 DEF Start, Served, OwnFails, Finish, RestFails, Fails, TypeOK, Shape, Begun, Walking, To, input, walk
<1>2. CASE BeginWalk(r)
  BY <1>2 DEF BeginWalk, TypeOK, Shape, Begun, Walking, To, input
<1>3. ASSUME NEW p \in Packages, PassOver(r, p) PROVE Shape'
  BY <1>3 DEF PassOver, Shape, Begun, Walking, input
<1>4. ASSUME NEW p \in Packages, Ceiling(r, p) PROVE Shape'
  BY <1>4 DEF Ceiling, TypeOK, Shape, Begun, Walking, To, input
<1>5. ASSUME NEW p \in Packages, Take(r, p) PROVE Shape'
  BY <1>5 DEF Take, TypeOK, Shape, Begun, Walking, To, input
<1>6. CASE Claim(r)
  BY <1>6 DEF Claim, TypeOK, Shape, Begun, Walking, To, input, walk
<1>7. CASE Analysed(r)
  BY <1>7 DEF Analysed, TypeOK, Shape, Begun, Walking, To, input
<1>8. CASE Unread(r)
  BY <1>8 DEF Unread, Fails, TypeOK, Shape, Begun, Walking, To, input
<1>9. CASE NextLevel(r)
  BY <1>9 DEF NextLevel, Shape, Begun, Walking, input
<1>10. CASE EndWalk(r)
  BY <1>10 DEF EndWalk, TypeOK, Shape, Begun, Walking, To, input
<1> QED
  BY <1>1, <1>2, <1>3, <1>4, <1>5, <1>6, <1>7, <1>8, <1>9, <1>10 DEF Step

-----------------------------------------------------------------------------
\* A step of r leaves the lists of the other walks as they are, and
\* depth_seen only grows.
LEMMA OthersKept ==
  ASSUME TypeOK, NEW r \in roots, Step(r)
  PROVE  /\ seen \subseteq seen'
         /\ truncated \subseteq truncated' /\ truncated' \subseteq truncated \cup {r}
         /\ \A q \in Packages \ {r} :
              /\ phase'[q] = phase[q] /\ frontier'[q] = frontier[q] /\ nxt'[q] = nxt[q]
              /\ at'[q] = at[q] /\ reports'[q] = reports[q] /\ level'[q] = level[q]
  BY DEF Step, TypeOK, Start, Served, OwnFails, BeginWalk, PassOver, Ceiling, Take, Claim, Analysed,
         Unread, NextLevel, EndWalk, Finish, RestFails, To, walk

LEMMA CoveredStep ==
  ASSUME TypeOK, Shape, Covered, NEW r \in roots, Step(r), UNCHANGED input
  PROVE  Covered'
<1>1. r \in Packages /\ MaxLevels \in Nat /\ depth \in Nat /\ level[r] \in Nat
  BY DEF TypeOK, MaxLevels
<1>2. roots' = roots /\ deps' = deps /\ depth' = depth /\ MaxLevels' = MaxLevels
  BY DEF input, MaxLevels
<1> DEFINE Fine(q) == \A p \in reports[q] \cup {q} :
             /\ phase[q] \in Walking => Owes(q, p)
             /\ phase[q] \in {"rest", "vetted"} /\ depth > MaxLevels => deps[p] \subseteq seen
<1>3. ASSUME NEW q \in roots \ truncated', q # r PROVE Fine(q)'
  <2>1. q \in Packages \ {r} /\ q \in roots \ truncated
    BY <1>3, OthersKept DEF TypeOK
  <2>2. Fine(q)
    BY <2>1 DEF Covered
  <2> QED BY <1>2, <2>1, <2>2, OthersKept DEF Owes
<1>4. ASSUME r \notin truncated' PROVE Fine(r)'
  <2>1. r \notin truncated /\ Fine(r)
    BY <1>4, OthersKept DEF Covered
  <2>2. CASE Start(r) \/ Served(r) \/ OwnFails(r) \/ RestFails(r)
    BY <1>1, <2>2 DEF Start, Served, OwnFails, RestFails, To, TypeOK, Walking
  <2>3. CASE BeginWalk(r)
    <3>1. reports'[r] = {} /\ phase'[r] = "walk" /\ seen' = seen \cup {r}
          /\ frontier'[r] = (deps[r] \ seen) \ {r}
      BY <1>1, <2>3 DEF BeginWalk, To, TypeOK, Shape, Begun, Walking, Children
    <3> QED BY <1>2, <3>1 DEF Owes, Walking
  <2>4. ASSUME NEW p \in Packages, PassOver(r, p) PROVE Fine(r)'
    <3>1. /\ phase[r] = "walk" /\ UNCHANGED <<reports, phase, seen, nxt, at>>
          /\ frontier'[r] = frontier[r] \ {p} /\ p \in seen
      BY <1>1, <2>4 DEF PassOver, TypeOK
    <3> QED BY <1>2, <2>1, <3>1 DEF Owes, Walking
  <2>5. ASSUME NEW p \in Packages, Ceiling(r, p) PROVE Fine(r)'
    BY <1>4, <2>5 DEF Ceiling
  <2>6. ASSUME NEW p \in Packages, Take(r, p) PROVE Fine(r)'
    <3>1. /\ phase[r] = "walk" /\ phase'[r] = "claim" /\ UNCHANGED <<reports, seen, nxt>>
          /\ frontier'[r] = frontier[r] \ {p} /\ at'[r] = p
      BY <1>1, <2>6 DEF Take, To, TypeOK
    <3> QED BY <1>2, <2>1, <3>1 DEF Owes, Walking
  <2>7. CASE Claim(r)
    <3>1. /\ phase[r] = "claim" /\ phase'[r] = "analyse" /\ UNCHANGED <<reports, frontier, nxt>>
          /\ seen' = seen \cup {at[r]}
      BY <1>1, <2>7 DEF Claim, To, TypeOK, walk
    <3> QED BY <1>2, <2>1, <3>1 DEF Owes, Walking
  <2>8. CASE Analysed(r)
    <3>1. /\ phase[r] = "analyse" /\ phase'[r] = "walk" /\ UNCHANGED <<frontier, seen>>
          /\ nxt'[r] = nxt[r] \cup (deps[at[r]] \ seen)
          /\ reports'[r] = reports[r] \cup {at[r]}
      BY <1>1, <2>8 DEF Analysed, To, TypeOK, Children
    <3>2. ASSUME NEW p \in reports[r] \cup {r} PROVE Owes(r, p)'
      BY <1>2, <2>1, <3>1 DEF Owes, Walking
    <3>3. ASSUME NEW p \in Packages, p = at[r] PROVE Owes(r, p)'
      BY <1>2, <3>1, <3>3 DEF Owes
    <3>4. \A p \in reports'[r] \cup {r} : p = at[r] \/ p \in reports[r] \cup {r}
      BY <3>1
    <3>5. at[r] \in Packages
      BY <1>1, <3>1 DEF TypeOK
    <3>6. \A p \in reports'[r] \cup {r} : Owes(r, p)'
      BY <3>2, <3>3, <3>4, <3>5
    <3> QED BY <3>1, <3>6 DEF Walking
  <2>9. CASE Unread(r)
    BY <1>4, <2>9 DEF Unread
  <2>10. CASE NextLevel(r)
    <3>1. /\ phase[r] = "walk" /\ UNCHANGED <<reports, phase, seen, at>>
          /\ frontier[r] = {} /\ frontier'[r] = nxt[r] /\ nxt'[r] = {}
      BY <1>1, <2>10 DEF NextLevel, TypeOK
    <3> QED BY <1>2, <2>1, <3>1 DEF Owes, Walking
  <2>11. CASE EndWalk(r)
    <3>1. /\ phase[r] = "walk" /\ phase'[r] = "rest" /\ UNCHANGED <<reports, seen>>
          /\ frontier[r] = {}
      BY <1>1, <2>11 DEF EndWalk, To, TypeOK
    <3>2. depth > MaxLevels => nxt[r] = {}
      BY <1>1, <1>4, <2>11 DEF EndWalk, CutAtLevel, Wanted
    <3> QED BY <1>2, <2>1, <3>1, <3>2 DEF Owes, Walking
  <2>12. CASE Finish(r)
    <3>1. phase[r] = "rest" /\ phase'[r] = "vetted" /\ UNCHANGED <<reports, seen>>
      BY <1>1, <2>12 DEF Finish, To, TypeOK, walk
    <3> QED BY <1>2, <2>1, <3>1 DEF Walking
  <2> QED
    BY <2>2, <2>3, <2>4, <2>5, <2>6, <2>7, <2>8, <2>9, <2>10, <2>11, <2>12 DEF Step
<1> QED BY <1>2, <1>3, <1>4 DEF Covered
-----------------------------------------------------------------------------
\* The walk of a batch of one: depth_seen holds what the walk has reported.
LEMMA AloneSeen ==
  ASSUME Shape, NEW r, roots = {r}, phase[r] # "analyse"
  PROVE  seen \subseteq reports[r] \cup {r}
  BY DEF Shape

\* One walk's own step keeps track of what lies within its level.
LEMMA DepthStep ==
  ASSUME TypeOK, Shape, Covered, NEW r \in roots, Depth(r), Step(r), UNCHANGED input, r \notin truncated'
  PROVE  Depth(r)'
<1>1. /\ r \in Packages /\ MaxLevels \in Nat \ {0} /\ depth \in Nat \ {0} /\ level[r] \in Nat
      /\ r \notin truncated
  BY OthersKept DEF TypeOK, MaxLevels
<1>2. roots' = roots /\ deps' = deps /\ depth' = depth /\ MaxLevels' = MaxLevels
  BY DEF input, MaxLevels
<1>3. /\ Own(r)' <=> Own(r)
      /\ Reach(r)' = Reach(r)
      /\ Within(r, level[r])' = Within(r, level'[r])
  BY <1>2 DEF Own, Reach, Within, Path
<1>4. CASE Start(r) \/ Served(r) \/ OwnFails(r) \/ RestFails(r)
  <2>1. phase'[r] \notin Walking \cup {"rest", "vetted"}
    BY <1>1, <1>4 DEF Start, Served, OwnFails, RestFails, To, TypeOK, Walking
  <2> QED BY <2>1 DEF Depth
<1>5. CASE BeginWalk(r)
  <2>1. /\ phase'[r] = "walk" /\ seen' = seen \cup {r} /\ level'[r] = 1
        /\ frontier'[r] = (deps[r] \ seen) \ {r}
    BY <1>1, <1>5 DEF BeginWalk, To, TypeOK, Children
  <2>2. ASSUME NEW p \in Within(r, 1) PROVE p \in Held(r)'
    <3>1. p \in {r} \cup deps[r]
      <4>1. p \in Within(r, 0 + 1)
        BY <2>2
      <4> QED BY <4>1, WithinOneMore, WithinNone
    <3> QED BY <2>1, <3>1 DEF Held
  <2> QED BY <1>1, <1>2, <1>3, <2>1, <2>2 DEF Depth, Walking
<1>6. ASSUME phase[r] \in Walking, phase'[r] \in Walking, level'[r] = level[r], Held(r) \subseteq Held(r)'
      PROVE  Depth(r)'
  BY <1>2, <1>3, <1>6 DEF Depth, Walking
<1>7. ASSUME NEW p \in Packages, PassOver(r, p) PROVE Depth(r)'
  <2>1. /\ phase[r] = "walk" /\ UNCHANGED <<phase, seen, level>>
        /\ frontier'[r] = frontier[r] \ {p} /\ p \in seen
    BY <1>1, <1>7 DEF PassOver, TypeOK
  <2> QED BY <1>6, <2>1 DEF Held, Walking
<1>8. ASSUME NEW p \in Packages, Ceiling(r, p) PROVE Depth(r)'
  BY <1>8 DEF Ceiling
<1>9. ASSUME NEW p \in Packages, Take(r, p) PROVE Depth(r)'
  <2>1. /\ phase[r] = "walk" /\ phase'[r] = "claim" /\ UNCHANGED <<seen, level>>
        /\ frontier'[r] = frontier[r] \ {p} /\ at'[r] = p
    BY <1>1, <1>9 DEF Take, To, TypeOK
  <2> QED BY <1>6, <2>1 DEF Held, Walking
<1>10. CASE Claim(r)
  <2>1. /\ phase[r] = "claim" /\ phase'[r] = "analyse" /\ UNCHANGED <<frontier, level>>
        /\ seen' = seen \cup {at[r]}
    BY <1>1, <1>10 DEF Claim, To, TypeOK, walk
  <2> QED BY <1>6, <2>1 DEF Held, Walking
<1>11. CASE Analysed(r)
  <2>1. /\ phase[r] = "analyse" /\ phase'[r] = "walk" /\ UNCHANGED <<frontier, seen, level>>
    BY <1>1, <1>11 DEF Analysed, To, TypeOK
  <2> QED BY <1>6, <2>1 DEF Held, Walking
<1>12. CASE Unread(r)
  BY <1>12 DEF Unread
<1>13. CASE NextLevel(r)
  <2>1. /\ phase[r] = "walk" /\ UNCHANGED <<phase, seen>> /\ level'[r] = level[r] + 1
        /\ frontier[r] = {} /\ frontier'[r] = nxt[r] /\ Wanted(level[r] + 1)
    BY <1>1, <1>13 DEF NextLevel, TypeOK
  <2>2. level[r] >= 1 /\ depth # 1 /\ level'[r] >= 1 /\ level'[r] <= depth /\ level'[r] <= MaxLevels
    BY <1>1, <2>1 DEF Depth, Walking, Wanted
  <2>3. ASSUME roots = {r}, NEW p \in Within(r, level[r] + 1) PROVE p \in Held(r)'
    <3>1. Within(r, level[r]) \subseteq seen
      BY <2>1, <2>3 DEF Depth, Held, Own, Walking
    <3>2. p \in Within(r, level[r]) \/ \E q \in Within(r, level[r]) : p \in deps[q]
      BY <1>1, <2>3, WithinOneMore
    <3>3. CASE p \in Within(r, level[r])
      BY <2>1, <3>1, <3>3 DEF Held
    <3>4. ASSUME NEW q \in Within(r, level[r]), p \in deps[q] PROVE p \in Held(r)'
      <4>1. q \in reports[r] \cup {r}
        BY <2>1, <2>3, <3>1, AloneSeen
      <4>2. Owes(r, q)
        BY <1>1, <2>1, <4>1 DEF Covered, Walking
      <4> QED BY <2>1, <3>4, <4>2 DEF Owes, Held
    <3> QED BY <3>2, <3>3, <3>4
  <2>4. Own(r)' => Within(r, level[r])' \subseteq Held(r)'
    BY <1>3, <2>1, <2>2, <2>3 DEF Own
  <2> QED BY <1>2, <2>1, <2>2, <2>4 DEF Depth, Walking
<1>14. CASE EndWalk(r)
  <2>1. /\ phase[r] = "walk" /\ phase'[r] = "rest" /\ seen' = seen /\ frontier[r] = {}
        /\ nxt[r] = {} \/ ~Wanted(level[r] + 1)
    BY <1>1, <1>14 DEF EndWalk, To, TypeOK
  <2>2. ASSUME Own(r) PROVE Reach(r) \subseteq seen
    <3> DEFINE m == IF depth < MaxLevels THEN depth ELSE MaxLevels
    <3>1. m \in Nat /\ Reach(r) = Within(r, m) /\ level[r] >= 1
      BY <1>1, <2>1 DEF Reach, Depth, Walking
    <3>2. Within(r, level[r]) \subseteq seen
      BY <2>1, <2>2 DEF Depth, Held, Walking
    <3>3. CASE m <= level[r]
      BY <1>1, <3>1, <3>2, <3>3, WithinGrows
    <3>4. CASE ~ (m <= level[r])
      <4>1. nxt[r] = {} /\ roots = {r}
        BY <1>1, <2>1, <2>2, <3>1, <3>4 DEF Wanted, Own
      <4>2. r \in seen
        BY <1>1, <3>2, WithinSelf
      <4>3. \A p \in seen : deps[p] \subseteq seen
        <5> SUFFICES ASSUME NEW p \in seen PROVE deps[p] \subseteq seen
          OBVIOUS
        <5>1. p \in reports[r] \cup {r}
          BY <2>1, <4>1, AloneSeen
        <5>2. Owes(r, p)
          BY <1>1, <2>1, <5>1 DEF Covered, Walking
        <5> QED BY <2>1, <4>1, <5>2 DEF Owes
      <4> HIDE DEF m
      <4> QED BY <3>1, <4>2, <4>3, WithinClosed
    <3> QED BY <3>3, <3>4
  <2> QED BY <1>3, <2>1, <2>2 DEF Depth, Walking
<1>15. CASE Finish(r)
  <2>1. phase[r] = "rest" /\ phase'[r] = "vetted" /\ seen' = seen
    BY <1>1, <1>15 DEF Finish, To, TypeOK
  <2> QED BY <1>3, <2>1 DEF Depth, Walking
<1> QED
  BY <1>4, <1>5, <1>7, <1>8, <1>9, <1>10, <1>11, <1>12, <1>13, <1>14, <1>15 DEF Step

LEMMA ReachedStep ==
  ASSUME TypeOK, Shape, Covered, Reached, NEW r \in roots, Step(r), UNCHANGED input
  PROVE  Reached'
<1>1. roots' = roots /\ deps' = deps /\ depth' = depth /\ MaxLevels' = MaxLevels
  BY DEF input, MaxLevels
<1>2. ASSUME NEW q \in roots \ truncated', q # r PROVE Depth(q)'
  <2>1. q \in Packages \ {r} /\ q \in roots \ truncated
    BY <1>2, OthersKept DEF TypeOK
  <2>2. Depth(q) /\ phase'[q] = phase[q] /\ level'[q] = level[q] /\ Held(q) \subseteq Held(q)'
        /\ seen \subseteq seen'
    BY <2>1, OthersKept DEF Reached, Held
  <2>3. (Own(q)' <=> Own(q)) /\ Reach(q)' = Reach(q) /\ Within(q, level[q])' = Within(q, level[q])
    BY <1>1, <2>2 DEF Own, Reach, Within, Path
  <2> QED BY <1>1, <2>2, <2>3 DEF Depth
<1>3. r \notin truncated' => Depth(r)'
  BY DepthStep, OthersKept DEF Reached
<1> QED BY <1>1, <1>2, <1>3 DEF Reached

-----------------------------------------------------------------------------
\* A walk that takes p does so with every other that holds it under way: the
\* holders of a name that is not in depth_seen are threads of the pool.
LEMMA HoldersActive ==
  ASSUME TypeOK, Shape, NEW p \in Packages, p \notin seen
  PROVE  Holders(p) \subseteq Active
<1> SUFFICES ASSUME NEW q \in Holders(p) PROVE q \in Active
  OBVIOUS
<1>1. q \in roots /\ q \in Packages
  BY DEF Holders, TypeOK
<1>2. p \notin reports[q]
  BY <1>1 DEF Shape
<1>3. at[q] = p /\ p # Nobody
  BY <1>2, BatchAssumption DEF Holders
<1>4. phase[q] \in {"claim", "analyse"}
  BY <1>1, <1>3 DEF TypeOK
<1> QED BY <1>1, <1>4 DEF Active, Ended

LEMMA PoolStep ==
  ASSUME TypeOK, Shape, Pool, NEW r \in roots, Step(r), UNCHANGED input
  PROVE  Pool'
<1>1. r \in Packages /\ roots' = roots /\ workers' = workers /\ workers \in Nat
  BY DEF TypeOK, input
<1>2. IsFiniteSet(roots)
  BY BatchAssumption, FS_Subset DEF TypeOK
<1>3. IsFiniteSet(Active) /\ Cardinality(Active) \in Nat
  BY <1>2, FS_Subset, FS_CardinalityType DEF Active
<1>4. Cardinality(Active') <= workers
  <2>1. CASE Start(r)
    <3>1. Active' = Active \cup {r} /\ r \notin Active
      BY <1>1, <2>1 DEF Start, To, Active, Ended, TypeOK
    <3>2. Cardinality(Active') = Cardinality(Active) + 1
      BY <1>3, <3>1, FS_AddElement
    <3>3. Cardinality(Active) < workers
      BY <2>1 DEF Start
    <3> QED BY <1>1, <1>3, <3>2, <3>3
  <2>2. CASE ~Start(r)
    <3>1. r \in Active
      BY <1>1, <2>2 DEF Step, Served, OwnFails, BeginWalk, PassOver, Ceiling, Take, Claim, Analysed,
                       Unread, NextLevel, EndWalk, Finish, RestFails, Active, Ended
    <3>2. Active' \subseteq Active
      BY <1>1, <3>1, OthersKept DEF Active, TypeOK
    <3>3. Cardinality(Active') <= Cardinality(Active) /\ Cardinality(Active') \in Nat
      BY <1>3, <3>2, FS_Subset, FS_CardinalityType
    <3> QED BY <1>1, <1>3, <3>3 DEF Pool
  <2> QED BY <2>1, <2>2
<1>5. ASSUME NEW p \in Packages PROVE Cardinality(Holders(p)') <= workers
  <2>1. IsFiniteSet(Holders(p)) /\ Cardinality(Holders(p)) \in Nat
    BY <1>2, FS_Subset, FS_CardinalityType DEF Holders
  <2>2. CASE Take(r, p)
    <3>1. p \notin seen /\ r \in Active
      BY <2>2 DEF Take, Active, Ended
    <3>2. at'[r] = p /\ reports' = reports /\ \A q \in Packages \ {r} : at'[q] = at[q]
      BY <1>1, <2>2 DEF Take, TypeOK
    <3>3. Holders(p) \subseteq Active
      BY <3>1, HoldersActive
    <3>4. Holders(p)' \subseteq Holders(p) \cup {r}
      <4> SUFFICES ASSUME NEW q \in roots, q # r, p \in reports'[q] \/ at'[q] = p
                   PROVE  p \in reports[q] \/ at[q] = p
        BY <1>1 DEF Holders
      <4>1. q \in Packages \ {r}
        BY DEF TypeOK
      <4> QED BY <3>2, <4>1
    <3>5. Holders(p)' \subseteq Active
      BY <3>1, <3>3, <3>4
    <3>6. Cardinality(Holders(p)') <= Cardinality(Active) /\ Cardinality(Holders(p)') \in Nat
      BY <1>3, <3>5, FS_Subset, FS_CardinalityType
    <3> QED BY <1>1, <1>3, <3>6 DEF Pool
  <2>3. CASE ~Take(r, p)
    <3>1. p \in reports'[r] \/ at'[r] = p => p \in reports[r] \/ at[r] = p
      <4>1. CASE Analysed(r) \/ Unread(r)
        BY <1>1, <4>1, BatchAssumption DEF Analysed, Unread, TypeOK
      <4>2. ASSUME NEW q \in Packages, Take(r, q)
            PROVE  p \in reports'[r] \/ at'[r] = p => p \in reports[r] \/ at[r] = p
        BY <1>1, <2>3, <4>2 DEF Take, TypeOK
      <4>3. CASE UNCHANGED <<reports, at>>
        BY <4>3
      <4> QED
        BY <4>1, <4>2, <4>3 DEF Step, Start, Served, OwnFails, BeginWalk, PassOver, Ceiling, Claim,
                                NextLevel, EndWalk, Finish, RestFails, walk
    <3>2. Holders(p)' \subseteq Holders(p)
      <4> SUFFICES ASSUME NEW q \in roots, q # r, p \in reports'[q] \/ at'[q] = p
                   PROVE  p \in reports[q] \/ at[q] = p
        BY <1>1, <3>1 DEF Holders
      <4>1. q \in Packages \ {r}
        BY DEF TypeOK
      <4> QED BY <4>1, OthersKept
    <3>3. Cardinality(Holders(p)') <= Cardinality(Holders(p)) /\ Cardinality(Holders(p)') \in Nat
      BY <2>1, <3>2, FS_Subset, FS_CardinalityType
    <3> QED BY <1>1, <2>1, <3>3 DEF Pool
  <2> QED BY <2>2, <2>3
<1> QED BY <1>1, <1>4, <1>5 DEF Pool

-----------------------------------------------------------------------------
LEMMA StepInv == BatchInv /\ [Next]_vars => BatchInv'
<1>1. ASSUME BatchInv, UNCHANGED vars PROVE BatchInv'
  <2> USE DEF vars, input, walk, BatchInv, MaxLevels
  <2>1. TypeOK' /\ Shape'
    BY <1>1 DEF TypeOK, Shape, Begun
  <2>2. Covered' /\ Pool'
    BY <1>1 DEF Covered, Owes, Pool, Active, Holders
  <2>3. Reached'
    BY <1>1 DEF Reached, Depth, Own, Held, Reach, Within, Path
  <2> QED BY <2>1, <2>2, <2>3
<1>2. ASSUME BatchInv, NEW r \in roots, Step(r), UNCHANGED input PROVE BatchInv'
  BY <1>2, TypeStep, ShapeStep, CoveredStep, ReachedStep, PoolStep DEF BatchInv
<1> QED BY <1>1, <1>2, InputKept DEF Next, Work, Idle

LEMMA BatchInvariant == Spec => []BatchInv
  BY InitInv, StepInv, PTL DEF Spec

\* At the end of a batch that tells of no gap, every name in depth_seen is a
\* vetted root or in a report of one.
LEMMA SeenVetted ==
  ASSUME BatchInv, NoGapTold, NEW p \in seen
  PROVE  \E q \in roots : phase[q] = "vetted" /\ p \in reports[q] \cup {q}
<1>1. PICK q \in roots : p \in reports[q] \cup {q} /\ Begun(q)
  <2>1. \A q \in roots : phase[q] # "analyse" /\ q \in Packages
    BY DEF NoGapTold, Over, Ended, BatchInv, TypeOK
  <2> QED BY <2>1 DEF BatchInv, Shape
<1>2. phase[q] = "vetted"
  BY <1>1 DEF NoGapTold, Over, Ended, Begun, Walking
<1> QED BY <1>1, <1>2

LEMMA SeenExamined ==
  ASSUME BatchInv, NoGapTold
  PROVE  seen \subseteq Examined
  BY SeenVetted DEF NoGapTold, Examined

\* Every walk's lists have their types, and its level stays within the ceiling
\* (walk_dependencies).
THEOREM TypeCorrect == Spec => []TypeOK
<1>1. BatchInv => TypeOK
  BY DEF BatchInv
<1> QED BY <1>1, BatchInvariant, PTL

\* A batch asked for every level that tells of no gap has examined the
\* dependencies of all that its walks examined, although they share
\* depth_seen without a lock (analyze_outdated_batch).
THEOREM ClosuresExamined == Spec => []ClosureExamined
<1>1. BatchInv => ClosureExamined
  <2> SUFFICES ASSUME BatchInv, NoGapTold, depth > MaxLevels,
                      NEW r \in roots, phase[r] = "vetted",
                      NEW p \in reports[r] \cup {r}
               PROVE  deps[p] \subseteq Examined
    BY DEF ClosureExamined
  <2>1. deps[p] \subseteq seen
    BY DEF BatchInv, Covered, NoGapTold
  <2> QED BY <2>1, SeenExamined
<1> QED BY <1>1, BatchInvariant, PTL

\* What lies within the depth of a root that was walked is in the results of a
\* batch that tells of no gap, at the default depth, at every level and in a
\* batch of one, whatever the graph of dependencies (walk_dependencies).
THEOREM NothingIsMissedAtDepth == Spec => []NothingMissedAtDepth
<1>1. BatchInv => NothingMissedAtDepth
  <2> SUFFICES ASSUME BatchInv, NoGapTold, NEW r \in roots, phase[r] = "vetted",
                      depth = 1 \/ depth > MaxLevels \/ Cardinality(roots) = 1
               PROVE  Reach(r) \subseteq Examined
    BY DEF NothingMissedAtDepth, NothingMissed
  <2>1. CASE depth = 1 \/ Cardinality(roots) = 1
    <3>1. Own(r)
      <4>1. IsFiniteSet(roots)
        BY BatchAssumption, FS_Subset DEF BatchInv, TypeOK
      <4>2. Cardinality(roots) = 1 => roots = {r}
        BY <4>1, FS_Singleton
      <4> QED BY <2>1, <4>2 DEF Own
    <3>2. Reach(r) \subseteq seen
      BY <3>1 DEF BatchInv, Reached, Depth, NoGapTold
    <3> QED BY <3>2, SeenExamined
  <2>2. CASE depth > MaxLevels
    <3> DEFINE Z == seen \cup {q \in roots : phase[q] = "vetted"}
    <3>1. \A p \in Z : deps[p] \subseteq Z
      <4> SUFFICES ASSUME NEW p \in Z PROVE deps[p] \subseteq seen
        OBVIOUS
      <4>1. \A q \in roots : q \notin truncated /\ q \notin lost /\ phase[q] \in Ended
        BY DEF NoGapTold, Over
      <4>2. PICK q \in roots : phase[q] = "vetted" /\ p \in reports[q] \cup {q}
        BY <4>1, SeenVetted
      <4> QED BY <2>2, <4>1, <4>2 DEF BatchInv, Covered
    <3>2. MaxLevels \in Nat /\ depth \in Nat
      BY DEF BatchInv, TypeOK, MaxLevels
    <3>3. Reach(r) = Within(r, MaxLevels)
      BY <2>2, <3>2 DEF Reach
    <3>4. r \in Z
      OBVIOUS
    <3>5. Within(r, MaxLevels) \subseteq Z
      <4> HIDE DEF Z
      <4> QED BY <3>1, <3>2, <3>4, WithinClosed
    <3> QED BY <3>3, <3>5, SeenExamined DEF Examined
  <2> QED BY <2>1, <2>2
<1> QED BY <1>1, BatchInvariant, PTL

\* However many roots need a dependency, the race on depth_seen makes at most
\* one analysis of it per thread (analyze_outdated_batch).
THEOREM RepeatsBounded == Spec => []FewRepeats
<1>1. BatchInv => FewRepeats
  <2> SUFFICES ASSUME BatchInv, NEW p \in Packages
               PROVE  Cardinality({r \in roots : p \in reports[r]}) <= workers
    BY DEF FewRepeats
  <2> DEFINE R == {r \in roots : p \in reports[r]}
  <2>1. IsFiniteSet(Holders(p))
    BY BatchAssumption, FS_Subset DEF BatchInv, TypeOK, Holders
  <2>2. R \subseteq Holders(p)
    BY DEF Holders
  <2>3. Cardinality(R) <= Cardinality(Holders(p)) /\ Cardinality(R) \in Nat
        /\ Cardinality(Holders(p)) \in Nat
    BY <2>1, <2>2, FS_Subset, FS_CardinalityType
  <2>4. Cardinality(Holders(p)) <= workers /\ workers \in Nat
    BY DEF BatchInv, TypeOK, Pool
  <2> QED BY <2>3, <2>4
<1> QED BY <1>1, BatchInvariant, PTL

-----------------------------------------------------------------------------
(* The batch cannot go on for ever.                                        *)

\* What one level costs at most: three steps for each of its names, and one
\* to go on to the next.
Width == 3 * Cardinality(Packages) + 3

\* A bound on the steps r's thread can still take.
StepsLeft(r) ==
  CASE phase[r] \in Ended   -> 0
    [] phase[r] = "rest"    -> 1
    [] phase[r] \in Walking ->
         2 + (MaxLevels - level[r]) * Width + 3 * Cardinality(frontier[r])
           + (IF phase[r] = "walk" THEN 0 ELSE IF phase[r] = "analyse" THEN 1 ELSE 2)
    [] phase[r] = "own"     -> 2 + MaxLevels * Width
    [] phase[r] = "waiting" -> 3 + MaxLevels * Width

LEMMA OneLevel ==
  ASSUME NEW a \in Nat, NEW b \in Nat, NEW w \in Nat, a = b + 1
  PROVE  a * w = b * w + w /\ a * w \in Nat /\ b * w \in Nat
  OBVIOUS

LEMMA ListsFinite ==
  ASSUME TypeOK, NEW r \in Packages
  PROVE  /\ IsFiniteSet(frontier[r])
         /\ Cardinality(frontier[r]) \in Nat /\ Cardinality(nxt[r]) \in Nat /\ Cardinality(Packages) \in Nat
         /\ Cardinality(frontier[r]) <= Cardinality(Packages)
         /\ Cardinality(nxt[r]) <= Cardinality(Packages)
         /\ Width \in Nat
<1>1. frontier[r] \subseteq Packages /\ nxt[r] \subseteq Packages
  BY DEF TypeOK
<1>2. IsFiniteSet(Packages) /\ Cardinality(Packages) \in Nat
  BY BatchAssumption, FS_CardinalityType
<1>3. IsFiniteSet(frontier[r]) /\ Cardinality(frontier[r]) <= Cardinality(Packages)
  BY <1>1, <1>2, FS_Subset
<1>4. IsFiniteSet(nxt[r]) /\ Cardinality(nxt[r]) <= Cardinality(Packages)
  BY <1>1, <1>2, FS_Subset
<1>5. Cardinality(frontier[r]) \in Nat /\ Cardinality(nxt[r]) \in Nat
  BY <1>3, <1>4, FS_CardinalityType
<1> QED BY <1>2, <1>3, <1>4, <1>5 DEF Width

LEMMA StepsLeftNat ==
  ASSUME TypeOK, NEW r \in Packages
  PROVE  StepsLeft(r) \in Nat
<1>1. MaxLevels \in Nat /\ MaxLevels - level[r] \in Nat /\ Width \in Nat
      /\ Cardinality(frontier[r]) \in Nat
  BY ListsFinite DEF TypeOK, MaxLevels
<1>2. MaxLevels * Width \in Nat /\ (MaxLevels - level[r]) * Width \in Nat
  BY <1>1
<1>3. phase[r] \in Ended \cup {"waiting", "own", "rest"} \cup Walking
  BY DEF TypeOK, Walking
<1> HIDE DEF Width
<1> QED BY <1>1, <1>2, <1>3 DEF StepsLeft, Ended, Walking

\* A step of a thread leaves it fewer to take.
LEMMA StepsLeftFall ==
  ASSUME TypeOK, UNCHANGED input, NEW r \in roots, Step(r)
  PROVE  StepsLeft(r)' < StepsLeft(r)
<1> DEFINE W == Width
           F == Cardinality(frontier[r])
           A == MaxLevels - level[r]
           X == A * W
<1>1. /\ r \in Packages /\ MaxLevels \in Nat \ {0} /\ level[r] \in Nat /\ A \in Nat
      /\ W \in Nat /\ F \in Nat /\ IsFiniteSet(frontier[r])
  BY ListsFinite DEF TypeOK, MaxLevels
<1>2. MaxLevels' = MaxLevels /\ Width' = W
  BY DEF input, MaxLevels, Width
<1>3. X \in Nat /\ MaxLevels * W \in Nat
  BY <1>1
<1>4. \A S \in SUBSET Packages : Cardinality(S) \in Nat /\ 3 * Cardinality(S) + 3 <= W
  <2>1. IsFiniteSet(Packages) /\ Cardinality(Packages) \in Nat
    BY BatchAssumption, FS_CardinalityType
  <2> QED BY <2>1, FS_Subset, FS_CardinalityType DEF Width
<1>5. \A p \in frontier[r] : Cardinality(frontier[r] \ {p}) = F - 1
  BY <1>1, FS_RemoveElement
\* The walk's bound, in which only the list and the phase change in a level.
<1>6. /\ phase[r] = "walk" => StepsLeft(r) = 2 + X + 3 * F
      /\ phase[r] = "analyse" => StepsLeft(r) = 3 + X + 3 * F
      /\ phase[r] = "claim" => StepsLeft(r) = 4 + X + 3 * F
  BY <1>1, <1>3 DEF StepsLeft, Ended, Walking
<1>7. phase'[r] \in Walking =>
        StepsLeft(r)' = 2 + (MaxLevels - level'[r]) * W + 3 * Cardinality(frontier'[r])
          + (IF phase'[r] = "walk" THEN 0 ELSE IF phase'[r] = "analyse" THEN 1 ELSE 2)
  BY <1>2 DEF StepsLeft, Ended, Walking
<1>8. /\ phase'[r] \in Ended => StepsLeft(r)' = 0
      /\ phase'[r] = "rest" => StepsLeft(r)' = 1
      /\ phase'[r] = "own" => StepsLeft(r)' = 2 + MaxLevels * W
  BY <1>2 DEF StepsLeft, Ended, Walking
<1>9. /\ phase[r] = "rest" => StepsLeft(r) = 1
      /\ phase[r] = "own" => StepsLeft(r) = 2 + MaxLevels * W
      /\ phase[r] = "waiting" => StepsLeft(r) = 3 + MaxLevels * W
  BY DEF StepsLeft, Ended, Walking
<1> HIDE DEF W, X
<1>10. CASE Start(r)
  <2>1. phase[r] = "waiting" /\ phase'[r] = "own"
    BY <1>1, <1>10 DEF Start, To, TypeOK
  <2> QED BY <1>3, <1>8, <1>9, <2>1
<1>11. CASE Served(r) \/ OwnFails(r)
  <2>1. phase[r] = "own" /\ phase'[r] \in Ended
    BY <1>1, <1>11 DEF Served, OwnFails, To, TypeOK, Ended
  <2> QED BY <1>3, <1>8, <1>9, <2>1
<1>12. CASE BeginWalk(r)
  <2>1. /\ phase[r] = "own" /\ phase'[r] = "walk" /\ level'[r] = 1
        /\ frontier'[r] \subseteq Packages
    BY <1>1, <1>12 DEF BeginWalk, To, TypeOK, Children
  <2>2. /\ MaxLevels * W = (MaxLevels - 1) * W + W
        /\ (MaxLevels - 1) * W \in Nat
    <3>1. W \in Nat /\ MaxLevels - 1 \in Nat /\ MaxLevels = (MaxLevels - 1) + 1
      BY <1>1 DEF W
    <3> QED BY <1>1, <3>1, OneLevel
  <2>3. StepsLeft(r)' = 2 + (MaxLevels - 1) * W + 3 * Cardinality(frontier'[r])
    BY <1>4, <1>7, <2>1, <2>2 DEF Walking
  <2>4. Cardinality(frontier'[r]) \in Nat /\ 3 * Cardinality(frontier'[r]) + 3 <= W /\ W \in Nat
    BY <1>1, <1>4, <2>1 DEF W
  <2> QED BY <1>9, <2>1, <2>2, <2>3, <2>4
<1>13. ASSUME phase'[r] \in Walking, level'[r] = level[r]
       PROVE  StepsLeft(r)' = 2 + X + 3 * Cardinality(frontier'[r])
                + (IF phase'[r] = "walk" THEN 0 ELSE IF phase'[r] = "analyse" THEN 1 ELSE 2)
  BY <1>7, <1>13 DEF X
<1>14. ASSUME NEW p \in Packages, PassOver(r, p) PROVE StepsLeft(r)' < StepsLeft(r)
  <2>1. /\ phase[r] = "walk" /\ UNCHANGED <<phase, level>>
        /\ frontier'[r] = frontier[r] \ {p} /\ p \in frontier[r]
    BY <1>1, <1>14 DEF PassOver, TypeOK
  <2>2. StepsLeft(r)' = 2 + X + 3 * (F - 1) + 0
    BY <1>5, <1>13, <2>1 DEF Walking
  <2> QED BY <1>1, <1>3, <1>6, <2>1, <2>2
<1>15. ASSUME NEW p \in Packages, Ceiling(r, p) PROVE StepsLeft(r)' < StepsLeft(r)
  <2>1. phase[r] = "walk" /\ phase'[r] = "rest"
    BY <1>1, <1>15 DEF Ceiling, To, TypeOK
  <2> QED BY <1>1, <1>3, <1>6, <1>8, <2>1
<1>16. ASSUME NEW p \in Packages, Take(r, p) PROVE StepsLeft(r)' < StepsLeft(r)
  <2>1. /\ phase[r] = "walk" /\ phase'[r] = "claim" /\ UNCHANGED level
        /\ frontier'[r] = frontier[r] \ {p} /\ p \in frontier[r]
    BY <1>1, <1>16 DEF Take, To, TypeOK
  <2>2. StepsLeft(r)' = 2 + X + 3 * (F - 1) + 2
    BY <1>5, <1>13, <2>1 DEF Walking
  <2> QED BY <1>1, <1>3, <1>6, <2>1, <2>2
<1>17. CASE Claim(r)
  <2>1. phase[r] = "claim" /\ phase'[r] = "analyse" /\ UNCHANGED <<frontier, level>>
    BY <1>1, <1>17 DEF Claim, To, TypeOK, walk
  <2>2. StepsLeft(r)' = 2 + X + 3 * F + 1
    BY <1>13, <2>1 DEF Walking
  <2> QED BY <1>1, <1>3, <1>6, <2>1, <2>2
<1>18. CASE Analysed(r) \/ Unread(r)
  <2>1. phase[r] = "analyse" /\ phase'[r] = "walk" /\ UNCHANGED <<frontier, level>>
    BY <1>1, <1>18 DEF Analysed, Unread, To, TypeOK
  <2>2. StepsLeft(r)' = 2 + X + 3 * F + 0
    BY <1>13, <2>1 DEF Walking
  <2> QED BY <1>1, <1>3, <1>6, <2>1, <2>2
<1>19. CASE NextLevel(r)
  <2>1. /\ phase[r] = "walk" /\ UNCHANGED phase /\ level'[r] = level[r] + 1
        /\ frontier'[r] = nxt[r] /\ level[r] + 1 <= MaxLevels
    BY <1>1, <1>19 DEF NextLevel, TypeOK, Wanted
  <2> DEFINE B == MaxLevels - level'[r]
  <2>2. B \in Nat /\ A = B + 1
    BY <1>1, <2>1
  <2>3. X = B * W + W /\ B * W \in Nat
    <3> HIDE DEF A, B
    <3> QED BY <1>1, <2>2, OneLevel DEF W, X
  <2>4. Cardinality(nxt[r]) \in Nat /\ 3 * Cardinality(nxt[r]) + 3 <= W /\ W \in Nat
    BY <1>1, <1>4 DEF TypeOK, W
  <2>5. StepsLeft(r)' = 2 + B * W + 3 * Cardinality(nxt[r]) + 0
    BY <1>7, <2>1 DEF Walking
  <2> HIDE DEF B, F
  <2> QED BY <1>1, <1>6, <2>1, <2>3, <2>4, <2>5
<1>20. CASE EndWalk(r)
  <2>1. phase[r] = "walk" /\ phase'[r] = "rest"
    BY <1>1, <1>20 DEF EndWalk, To, TypeOK
  <2> QED BY <1>1, <1>3, <1>6, <1>8, <2>1
<1>21. CASE Finish(r) \/ RestFails(r)
  <2>1. phase[r] = "rest" /\ phase'[r] \in Ended
    BY <1>1, <1>21 DEF Finish, RestFails, To, TypeOK, Ended
  <2> QED BY <1>8, <1>9, <2>1
<1> QED
  BY <1>10, <1>11, <1>12, <1>14, <1>15, <1>16, <1>17, <1>18, <1>19, <1>20, <1>21 DEF Step

Advance ==
  \E r \in roots :
    /\ StepsLeft(r) \in Nat /\ StepsLeft(r)' \in Nat /\ StepsLeft(r)' < StepsLeft(r)
    /\ \A q \in roots \ {r} : StepsLeft(q)' = StepsLeft(q)

\* Every step of a batch brings one thread nearer to its end and puts none
\* back, however the graph loops and the walks meet in depth_seen: no batch
\* works for ever (analyze_outdated_batch, walk_dependencies).
THEOREM WorkRunsOut == Spec => [][Advance]_vars
<1> DEFINE Numbers == \A r \in Packages : StepsLeft(r) \in Nat
<1>0. TypeOK => Numbers
  BY StepsLeftNat
<1>1. ASSUME TypeOK, Numbers', [Next]_vars PROVE [Advance]_vars
  <2> SUFFICES ASSUME NEW r \in roots, Step(r), UNCHANGED input PROVE Advance
    BY <1>1, InputKept DEF Next, Work, Idle
  <2>1. r \in Packages /\ roots \subseteq Packages
    BY <1>1 DEF TypeOK
  <2>2. StepsLeft(r)' < StepsLeft(r) /\ StepsLeft(r) \in Nat
    BY <1>1, <2>1, StepsLeftFall, StepsLeftNat
  <2>3. StepsLeft(r)' \in Nat
    <3>1. Packages' = Packages
      OBVIOUS
    <3> QED BY <1>1, <2>1, <3>1
  <2>4. ASSUME NEW q \in roots \ {r} PROVE StepsLeft(q)' = StepsLeft(q)
    <3>1. q \in Packages \ {r}
      BY <2>1
    <3>2. phase'[q] = phase[q] /\ level'[q] = level[q] /\ frontier'[q] = frontier[q]
      BY <1>1, <3>1, OthersKept
    <3> QED BY <3>2 DEF StepsLeft, input, MaxLevels, Width
  <2> QED BY <2>2, <2>3, <2>4 DEF Advance
<1> QED BY <1>0, <1>1, TypeCorrect, PTL DEF Spec
=============================================================================
