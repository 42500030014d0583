----------------------------- MODULE CloneCache -----------------------------
(***************************************************************************)
(* The cached clone of one package and the run's transfer budget:          *)
(* clone_or_fetch (fetcher.py), the session that asks an isolated child    *)
(* (sandbox/git_client.py) and what the child does (_open_fetch of         *)
(* sandbox/git_worker.py).  Several callers may be at work in the          *)
(* package's directory: a prefetch thread that was abandoned at its        *)
(* deadline (review.py) and the analysis that fetches again.               *)
(*                                                                         *)
(* Revisions are numbered by the AUR's pushes, and so is time: a second is *)
(* the number of pushes until then, read off this machine's clock with an  *)
(* error of up to Skew.  A commit's own date is what its committer wrote.  *)
(* Not here: offline mode, a cached clone whose origin is not the AUR's.   *)
(***************************************************************************)
EXTENDS Naturals, FiniteSets

CONSTANTS
  Callers,    \* threads that call clone_or_fetch for the package
  MaxRev,     \* bound: pushes
  CommitTime, \* the date that each revision's commit carries
  Skew,       \* how far the local clock may be from the AUR's
  Ceiling,    \* MAX_TRANSFER_BYTES, the most one transfer may bring
  Budget,     \* MAX_TOTAL_TRANSFER_BYTES, for all transfers of a run
  MaxFaults,  \* bound: children that die or time out
  NoHint      \* the caller does not know when the package last changed

ASSUME CloneAssumption ==
  /\ MaxRev \in Nat \ {0}
  /\ CommitTime \in [1..MaxRev -> Nat]
  /\ Skew \in Nat
  /\ Ceiling \in Nat
  /\ Budget \in Nat
  /\ MaxFaults \in Nat
  /\ NoHint \notin Nat

VARIABLES
  aur,      \* the newest revision of the package
  dir,      \* the clone's directory
  pc,       \* where each call is
  hint,     \* upstream_mtime: when the caller believes it last changed
  seen,     \* the revision the call's transfer brings
  held,     \* the directory the call opened or made is still there
  clean,    \* history: nothing was pushed since the call's transfer began
  got,      \* received_bytes of the answer
  spent,    \* _transferred_bytes, saturating one above the budget
  accepted, \* history: bytes of the transfers whose project was returned
  strayed,  \* history: a live child was left to the interpreter's exit
  faults

local == <<pc, hint, seen, held, clean, got>>
books == <<spent, accepted, strayed>>
vars  == <<aur, local, dir, books, faults>>

-----------------------------------------------------------------------------
Revs  == 1..MaxRev
Times == 1..(MaxRev + Skew)

\* What the local clock may show.
Now == {t \in Times : t <= aur + Skew /\ aur <= t + Skew}

Absent  == [st |-> "absent", head |-> 0, marker |-> 0, clean |-> TRUE]
Partial == [Absent EXCEPT !.st = "partial"]

\* The steps that touch the directory or the network.
Transfers == {"cloning", "fetching", "marking"}
Working   == Transfers \cup {"looking", "removing", "creating"}
Places    == Working \cup {"idle", "answered", "erred", "reading"}

Least(i, j) == IF i <= j THEN i ELSE j

\* A plausible bug, for Charged: what one transfer brought is judged alone.
ChargedAlone(n) == Least(n, Budget + 1)

Charged(n) == Least(spent + n, Budget + 1)

Init ==
  /\ aur = 1
  /\ dir = Absent
  /\ pc = [c \in Callers |-> "idle"]
  /\ hint = [c \in Callers |-> NoHint]
  /\ seen = [c \in Callers |-> 0]
  /\ held = [c \in Callers |-> FALSE]
  /\ clean = [c \in Callers |-> TRUE]
  /\ got = [c \in Callers |-> 0]
  /\ spent = 0
  /\ accepted = 0
  /\ strayed = FALSE
  /\ faults = 0

\* _is_current: by the marker, or without one by the date HEAD's commit carries.
Current(m) == (IF dir.marker # 0 THEN dir.marker ELSE CommitTime[dir.head]) >= m

\* The directory is removed, under whoever works in it.
Unlink(left) == dir' = left /\ held' = [c \in Callers |-> FALSE]

\* The call is over, and forgets what it knew.
Leave(c) ==
  /\ pc' = [pc EXCEPT ![c] = "idle"]
  /\ hint' = [hint EXCEPT ![c] = NoHint]
  /\ seen' = [seen EXCEPT ![c] = 0]
  /\ held' = [held EXCEPT ![c] = FALSE]
  /\ clean' = [clean EXCEPT ![c] = TRUE]
  /\ got' = [got EXCEPT ![c] = 0]

\* The child's answer: the bytes it received, with a result or an error.
Answer(c, place, n) ==
  /\ pc' = [pc EXCEPT ![c] = place]
  /\ got' = [got EXCEPT ![c] = n]

-----------------------------------------------------------------------------
(* Plausible bugs, each checked to break a property when it stands in for  *)
(* the definition its comment names.                                       *)

\* LookPartial: a directory without a commit is reported, not replaced.
LookPartialError(c) ==
  /\ pc[c] = "looking"
  /\ dir.st = "partial"
  /\ Answer(c, "erred", 0)
  /\ UNCHANGED <<aur, dir, hint, seen, held, clean, books, faults>>

\* Create: the clone is made over whatever is there.
CreateOver(c) ==
  /\ pc[c] = "creating"
  /\ dir' = Partial
  /\ pc' = [pc EXCEPT ![c] = "cloning"]
  /\ seen' = [seen EXCEPT ![c] = aur]
  /\ held' = [held EXCEPT ![c] = TRUE]
  /\ UNCHANGED <<aur, hint, clean, got, books, faults>>

\* FetchLost: the marker is written whether or not the fetch succeeded.
FetchLostMarked(c) ==
  /\ pc[c] = "fetching"
  /\ \E n \in 0..Ceiling : Answer(c, "erred", n)
  /\ \E t \in Now : dir' = IF held[c] THEN [dir EXCEPT !.marker = t] ELSE dir
  /\ UNCHANGED <<aur, hint, seen, held, clean, books, faults>>

\* ChargeError: the session of a failed request is not closed.
ChargeErrorOpen(c) ==
  /\ pc[c] = "erred"
  /\ spent' = Charged(got[c])
  /\ strayed' = TRUE
  /\ Leave(c)
  /\ UNCHANGED <<aur, dir, accepted, faults>>

\* Accept: the budget is looked at before the bytes are added.
AcceptBefore(c) ==
  /\ pc[c] = "answered"
  /\ got[c] = 0 \/ spent <= Budget
  /\ spent' = Charged(got[c])
  /\ accepted' = accepted + got[c]
  /\ pc' = [pc EXCEPT ![c] = "reading"]
  /\ UNCHANGED <<aur, dir, hint, seen, held, clean, got, strayed, faults>>

-----------------------------------------------------------------------------
(* The AUR, and the caller.                                                *)

Push ==
  /\ aur < MaxRev
  /\ aur' = aur + 1
  /\ clean' = [c \in Callers |-> clean[c] /\ pc[c] \notin Transfers]
  /\ UNCHANGED <<dir, pc, hint, seen, held, got, books, faults>>

\* clone_or_fetch starts a session and sends open_fetch.  The hint is the AUR's
\* LastModified, or a marker that prefetch() read when the AUR gave none.
Call(c) ==
  /\ pc[c] = "idle"
  /\ \E m \in {NoHint} \cup 1..(aur + Skew) : hint' = [hint EXCEPT ![c] = m]
  /\ pc' = [pc EXCEPT ![c] = "looking"]
  /\ UNCHANGED <<aur, dir, seen, held, clean, got, books, faults>>

-----------------------------------------------------------------------------
(* _open_fetch, in the child.                                              *)

\* The hint is not read again.
Decided(c) == hint' = [hint EXCEPT ![c] = NoHint]

LookAbsent(c) ==
  /\ pc[c] = "looking"
  /\ dir.st = "absent"
  /\ pc' = [pc EXCEPT ![c] = "creating"]
  /\ Decided(c)
  /\ UNCHANGED <<aur, dir, seen, held, clean, got, books, faults>>

\* There is a directory and no commit in it: a clone that was cut short, or
\* one that another caller is making.
LookPartial(c) ==
  /\ pc[c] = "looking"
  /\ dir.st = "partial"
  /\ pc' = [pc EXCEPT ![c] = "removing"]
  /\ Decided(c)
  /\ UNCHANGED <<aur, dir, seen, held, clean, got, books, faults>>

\* The clone is fetched since the package last changed: no transfer.
LookCurrent(c) ==
  /\ pc[c] = "looking"
  /\ dir.st = "whole"
  /\ hint[c] # NoHint
  /\ Current(hint[c])
  /\ Answer(c, "answered", 0)
  /\ Decided(c)
  /\ UNCHANGED <<aur, dir, seen, held, clean, books, faults>>

LookBehind(c) ==
  /\ pc[c] = "looking"
  /\ dir.st = "whole"
  /\ hint[c] # NoHint => ~Current(hint[c])
  /\ pc' = [pc EXCEPT ![c] = "fetching"]
  /\ seen' = [seen EXCEPT ![c] = aur]
  /\ held' = [held EXCEPT ![c] = TRUE]
  /\ Decided(c)
  /\ UNCHANGED <<aur, dir, clean, got, books, faults>>

\* rmtree works file by file: a whole clone loses its refs before it is gone.
RemoveSome(c) ==
  /\ pc[c] = "removing"
  /\ dir.st = "whole"
  /\ Unlink(Partial)
  /\ UNCHANGED <<aur, pc, hint, seen, clean, got, books, faults>>

Remove(c) ==
  /\ pc[c] = "removing"
  /\ Unlink(Absent)
  /\ pc' = [pc EXCEPT ![c] = "creating"]
  /\ UNCHANGED <<aur, hint, seen, clean, got, books, faults>>

\* The clone makes its directory; it refuses one that is not empty.
Create(c) ==
  /\ pc[c] = "creating"
  /\ IF dir.st = "absent"
     THEN /\ dir' = Partial
          /\ pc' = [pc EXCEPT ![c] = "cloning"]
          /\ seen' = [seen EXCEPT ![c] = aur]
          /\ held' = [held EXCEPT ![c] = TRUE]
     ELSE /\ pc' = [pc EXCEPT ![c] = "erred"]
          /\ UNCHANGED <<dir, seen, held>>
  /\ UNCHANGED <<aur, hint, clean, got, books, faults>>

CloneDone(c) ==
  /\ pc[c] = "cloning"
  /\ held[c]
  /\ \E n \in 0..Ceiling : Answer(c, "marking", n)
  /\ dir' = [st |-> "whole", head |-> seen[c], marker |-> 0, clean |-> clean[c]]
  /\ UNCHANGED <<aur, hint, seen, held, clean, books, faults>>

\* A clone that fails, because of the network, its ceiling, its deadline or
\* a caller that removed its directory, removes what is there by that name.
CloneLost(c) ==
  /\ pc[c] = "cloning"
  /\ \E n \in 0..Ceiling : Answer(c, "erred", n)
  /\ Unlink(Absent)
  /\ UNCHANGED <<aur, hint, seen, clean, books, faults>>

\* fetch, and _advance_to_fetched_head, which returns without moving HEAD when
\* it finds no remote ref for it (or one that the remote no longer has).
FetchDone(c) ==
  /\ pc[c] = "fetching"
  /\ held[c]
  /\ \E n \in 0..Ceiling : Answer(c, "marking", n)
  /\ \E h \in {seen[c], dir.head} :
       dir' = [dir EXCEPT !.head = h, !.clean = clean[c] /\ h = seen[c]]
  /\ UNCHANGED <<aur, hint, seen, held, clean, books, faults>>

FetchLost(c) ==
  /\ pc[c] = "fetching"
  /\ \E n \in 0..Ceiling : Answer(c, "erred", n)
  /\ UNCHANGED <<aur, dir, hint, seen, held, clean, books, faults>>

\* HEAD is read and the marker written; one that cannot be is left empty or as
\* it was.  With the directory gone the read raises, and the answer does not say
\* what was received.
Mark(c) ==
  /\ pc[c] = "marking"
  /\ IF held[c]
     THEN /\ \E t \in Now \cup {0, dir.marker} :
               dir' = [dir EXCEPT !.marker = t, !.clean = @ /\ clean[c]]
          /\ Answer(c, "answered", got[c])
     ELSE /\ Answer(c, "erred", 0)
          /\ UNCHANGED dir
  /\ UNCHANGED <<aur, hint, seen, held, clean, books, faults>>

-----------------------------------------------------------------------------
(* Back in the caller.                                                     *)

\* The child is killed at its deadline or dies: the session is closed,
\* nothing is charged, and the directory stays as it is.
Unavailable(c) ==
  /\ pc[c] \in Working
  /\ faults < MaxFaults
  /\ faults' = faults + 1
  /\ Leave(c)
  /\ UNCHANGED <<aur, dir, books>>

\* An error: the session is closed, then the bytes are charged; either way
\* the fetch did not complete.
ChargeError(c) ==
  /\ pc[c] = "erred"
  /\ spent' = Charged(got[c])
  /\ Leave(c)
  /\ UNCHANGED <<aur, dir, accepted, strayed, faults>>

\* An answer within the budget, or one that brought nothing: a project.
Accept(c) ==
  /\ pc[c] = "answered"
  /\ got[c] = 0 \/ Charged(got[c]) <= Budget
  /\ spent' = IF got[c] = 0 THEN spent ELSE Charged(got[c])
  /\ accepted' = accepted + got[c]
  /\ pc' = [pc EXCEPT ![c] = "reading"]
  /\ UNCHANGED <<aur, dir, hint, seen, held, clean, got, strayed, faults>>

\* One that goes over it: charged and refused.  Nobody closes the session,
\* unless the request spent the child's CPU allowance and retired it.
Refuse(c) ==
  /\ pc[c] = "answered"
  /\ got[c] > 0
  /\ Charged(got[c]) > Budget
  /\ spent' = Charged(got[c])
  /\ strayed' \in {strayed, TRUE}
  /\ Leave(c)
  /\ UNCHANGED <<aur, dir, accepted, faults>>

\* The caller has read what it wanted and closes the project.
Close(c) ==
  /\ pc[c] = "reading"
  /\ Leave(c)
  /\ UNCHANGED <<aur, dir, books, faults>>

-----------------------------------------------------------------------------
Look(c) == LookAbsent(c) \/ LookPartial(c) \/ LookCurrent(c) \/ LookBehind(c)
Transfer(c) == CloneDone(c) \/ CloneLost(c) \/ FetchDone(c) \/ FetchLost(c)
Settle(c) == ChargeError(c) \/ Accept(c) \/ Refuse(c) \/ Close(c)

Work(c) ==
  \/ Look(c) \/ RemoveSome(c) \/ Remove(c) \/ Create(c)
  \/ Transfer(c) \/ Mark(c) \/ Settle(c)

Next == Push \/ \E c \in Callers : Call(c) \/ Work(c) \/ Unavailable(c)

Spec == Init /\ [][Next]_vars

\* Every request has a deadline, reviews keep being run, and the network does
\* not fail one package for ever.
Fairness ==
  /\ \A c \in Callers : WF_vars(Work(c)) /\ SF_vars(CloneDone(c))
  /\ WF_vars(\E c \in Callers : Call(c))

FairSpec == Spec /\ Fairness

-----------------------------------------------------------------------------
Dirs == [st : {"absent", "partial", "whole"}, head : 0..MaxRev,
         marker : {0} \cup Times, clean : BOOLEAN]

TypeOK ==
  /\ aur \in Revs
  /\ dir \in Dirs
  /\ pc \in [Callers -> Places]
  /\ hint \in [Callers -> {NoHint} \cup Times]
  /\ seen \in [Callers -> 0..MaxRev]
  /\ held \in [Callers -> BOOLEAN]
  /\ clean \in [Callers -> BOOLEAN]
  /\ got \in [Callers -> 0..Ceiling]
  /\ spent \in 0..(Budget + 1)
  /\ accepted \in 0..Budget
  /\ strayed \in BOOLEAN
  /\ faults \in 0..MaxFaults

\* What the projects of a run were given was charged, and within the budget,
\* however many transfers were in flight when it ran out (_charge_transfer
\* adds under the lock, after the bytes arrived, and judges the total).
AcceptedWithinBudget == accepted <= spent /\ accepted <= Budget

\* A clone that is taken for current lacks a revision for one of four reasons:
\* it was pushed while the transfer that set the clone's HEAD or marker ran; the
\* fetch did not move HEAD (both end dir.clean); it was pushed within the error
\* of the clock; or no marker is left and HEAD's committer dated it ahead.
\* Overlapping fetches, crashes between HEAD and marker, markers that cannot be
\* written and removed directories hide nothing else.
MissedForAReason ==
  dir.st = "whole" /\ dir.clean /\ (dir.marker = 0 => CommitTime[dir.head] <= dir.head)
    => \A m \in 1..aur : Current(m) => dir.head + Skew >= m

\* A directory has a HEAD or it has none, and a clone or fetch that still
\* holds the directory finds in it what it left there.
DirectoryKept ==
  \A c \in Callers :
    held[c] => dir.st = IF pc[c] = "cloning" THEN "partial" ELSE "whole"

\* "Retire the worker when this handle is collected, so a caller that forgets
\* close() cannot accumulate children": a session nobody holds is closed.
NoChildLeft == ~strayed

\* ... and one is left open only when its transfer went over the budget.
StraysOverBudget == strayed => spent > Budget

\* "when the cached clone already holds a commit that recent the worker skips
\* the fetch": a call that skips the fetch finds the revision it asked for.
SkippedIsCurrent ==
  [][\A c \in Callers : LookCurrent(c) => dir.head >= hint[c]]_vars

\* A directory that a killed child left half made does not stay: once callers
\* no longer overlap, a complete clone is there again and again.
Alone == \A c, d \in Callers : pc[c] \in Working /\ pc[d] \in Working => c = d

CacheHeals == <>[]Alone => []<>(dir.st = "whole")
=============================================================================
