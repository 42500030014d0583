---------------------------- MODULE AlertOutbox ----------------------------
(***************************************************************************)
(* The durable alert queue: db/_outbox.py, and the two functions of        *)
(* notify.py that fill and drain it, maybe_notify and flush_outbox, with   *)
(* _deliver_sinks.  One watcher process uses it (watch_lock.py); it may    *)
(* die between any two commits, the receivers may be down, or take a       *)
(* document and lose the answer, and the operator may change which sinks   *)
(* are configured.                                                         *)
(*                                                                         *)
(* Rows are numbered in the order they are inserted.  Clock readings are   *)
(* abstracted: `due` says next_attempt_at has come, `old` that a row has   *)
(* reached MAX_AGE.                                                        *)
(***************************************************************************)
EXTENDS Naturals, FiniteSets

CONSTANTS
  MaxRows,      \* bound: documents queued
  Limit,        \* pending_alert_payloads' limit
  MaxAttempts,  \* MAX_ATTEMPTS
  MaxCrashes,   \* bound: crashes of the watcher
  MaxChanges    \* bound: changes of the sinks' configuration

ASSUME OutboxAssumption ==
  /\ MaxRows \in Nat \ {0}
  /\ Limit \in Nat \ {0}
  /\ MaxAttempts \in Nat \ {0}
  /\ MaxCrashes \in Nat
  /\ MaxChanges \in Nat

Sinks == {"ntfy", "feed"}
Rows  == 1..MaxRows
None  == 0

VARIABLES
  size,       \* rows inserted so far: their ids are 1..size
  delivered,  \* delivered[r]: sinks whose flag is set in row r
  attempts,   \* attempts[r]
  due,        \* due[r]: next_attempt_at is NULL or in the past
  old,        \* old[r]: created_at is MAX_AGE ago
  parked,     \* rows with parked_at
  configured, \* sinks with a URL (and, for the feed, a readable key)
  sinks,      \* the configuration flush_outbox read when it started
  batch,      \* rows flush_outbox read and has not tried yet
  row,        \* the row it is working on, or None
  answer,     \* per sink: "off", "ok" or "failed" in this attempt
  pc,         \* "idle", "queued", "posting", "ntfy", "feed" or "attempt"
  received,   \* history: received[s], the rows sink s has taken
  rounds,     \* history: rounds[r], how often row r was sent anywhere
  crashes, changes

table == <<size, delivered, attempts, due, old, parked>>
flush == <<sinks, batch, row, answer, pc>>
vars  == <<table, flush, configured, received, rounds, crashes, changes>>

-----------------------------------------------------------------------------
Done(r) == delivered[r] = Sinks

(* Plausible bugs, each checked to break a property when it stands in for  *)
(* the definition its comment names.                                       *)

\* Pending: the query forgets parked_at.
PendingParked(r) == r <= size /\ ~Done(r)

\* Mark: the flag is set whatever the sink answered.
MarkUnasked(s, next) ==
  /\ pc = s
  /\ delivered' = [delivered EXCEPT ![row] = @ \cup {s}]
  /\ pc' = next
  /\ UNCHANGED <<size, attempts, due, old, parked, sinks, batch, row, answer, configured,
                 received, rounds, crashes, changes>>

\* Mark: a flag is set only when no sink failed.
MarkTogether(s, next) ==
  /\ pc = s
  /\ delivered' = IF \E q \in Sinks : answer[q] = "failed" THEN delivered
                  ELSE [delivered EXCEPT ![row] = @ \cup {s}]
  /\ pc' = next
  /\ UNCHANGED <<size, attempts, due, old, parked, sinks, batch, row, answer, configured,
                 received, rounds, crashes, changes>>

\* MarkAttempt: parks one attempt too late.
MarkAttemptLate ==
  /\ pc = "attempt"
  /\ \A s \in Sinks : answer[s] # "ok"
  /\ attempts' = [attempts EXCEPT ![row] = @ + 1]
  /\ IF old[row] \/ attempts[row] >= MaxAttempts
     THEN parked' = parked \cup {row} /\ UNCHANGED due
     ELSE due' = [due EXCEPT ![row] = FALSE] /\ UNCHANGED parked
  /\ pc' = "posting"
  /\ row' = None
  /\ answer' = [s \in Sinks |-> "off"]
  /\ UNCHANGED <<size, delivered, old, sinks, batch, configured, received, rounds,
                 crashes, changes>>

Pending(r) == r <= size /\ r \notin parked /\ ~Done(r)

\* pending_alert_payloads: the oldest Limit rows due for delivery.
DueRows ==
  LET d == {r \in Rows : Pending(r) /\ due[r]}
  IN  {r \in d : Cardinality({q \in d : q < r}) < Limit}

Off == [s \in Sinks |-> "off"]

Init ==
  /\ size = 0
  /\ delivered = [r \in Rows |-> {}]
  /\ attempts = [r \in Rows |-> 0]
  /\ due = [r \in Rows |-> TRUE]
  /\ old = [r \in Rows |-> FALSE]
  /\ parked = {}
  /\ configured \in SUBSET Sinks
  /\ sinks = {}
  /\ batch = {}
  /\ row = None
  /\ answer = Off
  /\ pc = "idle"
  /\ received = [s \in Sinks |-> {}]
  /\ rounds = [r \in Rows |-> 0]
  /\ crashes = 0
  /\ changes = 0

-----------------------------------------------------------------------------
\* flush_outbox reads the configuration and the due rows.
ReadBatch(rows) ==
  /\ pc' = "posting"
  /\ sinks' = configured
  /\ batch' = rows
  /\ UNCHANGED <<row, answer>>

\* maybe_notify with something to say: the document is committed (nothing
\* happens when no sink is configured) and the queue flushed.
Notify ==
  /\ pc = "idle"
  /\ configured # {}
  /\ size < MaxRows
  /\ size' = size + 1
  /\ pc' = "queued"
  /\ UNCHANGED <<delivered, attempts, due, old, parked, sinks, batch, row, answer,
                 configured, received, rounds, crashes, changes>>

\* flush_outbox, after an insertion, on a quiet cycle or at start-up.
Flush ==
  /\ pc \in {"idle", "queued"}
  /\ ReadBatch(DueRows)
  /\ UNCHANGED <<table, configured, received, rounds, crashes, changes>>

\* _deliver_sinks for the oldest row left: each configured sink that has not
\* taken it gets a POST, which may arrive although it is seen to fail.
Post ==
  /\ pc = "posting"
  /\ \E r \in batch :
       /\ \A q \in batch : r <= q
       /\ row' = r
       /\ batch' = batch \ {r}
       /\ LET to == sinks \ delivered[r]
          IN  /\ \E ok \in SUBSET to, took \in SUBSET to :
                   /\ ok \subseteq took
                   /\ answer' = [s \in Sinks |-> IF s \notin to THEN "off"
                                                 ELSE IF s \in ok THEN "ok" ELSE "failed"]
                   /\ received' = [s \in Sinks |->
                                     IF s \in took THEN received[s] \cup {r} ELSE received[s]]
              /\ rounds' = IF to = {} THEN rounds ELSE [rounds EXCEPT ![r] = @ + 1]
  /\ pc' = "ntfy"
  /\ UNCHANGED <<table, configured, sinks, crashes, changes>>

\* mark_alert_sink, one commit per sink.  A sink that is not configured, or
\* was already done, counts as done.
Mark(s, next) ==
  /\ pc = s
  /\ LET flags == IF answer[s] = "failed" THEN delivered[row] ELSE delivered[row] \cup {s}
     IN  /\ delivered' = [delivered EXCEPT ![row] = flags]
         /\ due' = IF answer[s] # "failed" /\ flags = Sinks
                   THEN [due EXCEPT ![row] = TRUE] ELSE due
  /\ pc' = next
  /\ UNCHANGED <<size, attempts, old, parked, sinks, batch, row, answer, configured,
                 received, rounds, crashes, changes>>

MarkNtfy == Mark("ntfy", "feed")
MarkFeed == Mark("feed", "attempt")

\* A round that some sink answered leaves the row as it is ...
RoundOk ==
  /\ pc = "attempt"
  /\ \E s \in Sinks : answer[s] = "ok"
  /\ pc' = "posting"
  /\ row' = None
  /\ answer' = Off
  /\ UNCHANGED <<table, sinks, batch, configured, received, rounds, crashes, changes>>

\* ... any other is counted by mark_alert_attempt, which parks the row at
\* its last attempt or when it is too old, and otherwise backs off.
MarkAttempt ==
  /\ pc = "attempt"
  /\ \A s \in Sinks : answer[s] # "ok"
  /\ attempts' = [attempts EXCEPT ![row] = @ + 1]
  /\ IF old[row] \/ attempts[row] + 1 >= MaxAttempts
     THEN parked' = parked \cup {row} /\ UNCHANGED due
     ELSE due' = [due EXCEPT ![row] = FALSE] /\ UNCHANGED parked
  /\ pc' = "posting"
  /\ row' = None
  /\ answer' = Off
  /\ UNCHANGED <<size, delivered, old, sinks, batch, configured, received, rounds,
                 crashes, changes>>

EndFlush ==
  /\ pc = "posting"
  /\ batch = {}
  /\ pc' = "idle"
  /\ sinks' = {}
  /\ UNCHANGED <<table, batch, row, answer, configured, received, rounds, crashes, changes>>

-----------------------------------------------------------------------------
\* A back-off runs out; a row reaches MAX_AGE.
ComesDue(r) ==
  /\ ~due[r]
  /\ due' = [due EXCEPT ![r] = TRUE]
  /\ UNCHANGED <<size, delivered, attempts, old, parked, flush, configured, received,
                 rounds, crashes, changes>>

GrowsOld(r) ==
  /\ Pending(r)
  /\ ~old[r]
  /\ old' = [old EXCEPT ![r] = TRUE]
  /\ UNCHANGED <<size, delivered, attempts, due, parked, flush, configured, received,
                 rounds, crashes, changes>>

\* The process dies; what is committed stays.
Crash ==
  /\ pc # "idle"
  /\ crashes < MaxCrashes
  /\ crashes' = crashes + 1
  /\ pc' = "idle"
  /\ sinks' = {}
  /\ batch' = {}
  /\ row' = None
  /\ answer' = Off
  /\ UNCHANGED <<table, configured, received, rounds, changes>>

\* An operator edits the sinks, or the feed's key file cannot be read.
Configure ==
  /\ changes < MaxChanges
  /\ changes' = changes + 1
  /\ \E c \in SUBSET Sinks : c # configured /\ configured' = c
  /\ UNCHANGED <<table, flush, received, rounds, crashes>>

-----------------------------------------------------------------------------
Work == Flush \/ Post \/ MarkNtfy \/ MarkFeed \/ RoundOk \/ MarkAttempt \/ EndFlush

Next ==
  \/ Notify \/ Work \/ Crash \/ Configure
  \/ \E r \in Rows : ComesDue(r) \/ GrowsOld(r)

Spec == Init /\ [][Next]_vars

\* The watch loop flushes the queue once per cycle for ever and a back-off
\* ends; nothing is assumed of the receivers.
FairSpec == Spec /\ WF_vars(Work) /\ \A r \in Rows : WF_vars(ComesDue(r))

-----------------------------------------------------------------------------
TypeOK ==
  /\ size \in 0..MaxRows
  /\ delivered \in [Rows -> SUBSET Sinks]
  /\ attempts \in [Rows -> 0..MaxAttempts]
  /\ due \in [Rows -> BOOLEAN]
  /\ old \in [Rows -> BOOLEAN]
  /\ parked \in SUBSET Rows
  /\ configured \in SUBSET Sinks
  /\ sinks \in SUBSET Sinks
  /\ batch \in SUBSET Rows
  /\ row \in Rows \cup {None}
  /\ answer \in [Sinks -> {"off", "ok", "failed"}]
  /\ pc \in {"idle", "queued", "posting", "ntfy", "feed", "attempt"}
  /\ received \in [Sinks -> SUBSET Rows]
  /\ rounds \in [Rows -> Nat]
  /\ crashes \in 0..MaxCrashes
  /\ changes \in 0..MaxChanges

\* While the configuration stands, a document leaves the queue as delivered
\* only when every configured sink has it: a crash between a POST and its
\* commit, or an answer that is lost, can repeat it and never drop it.
DeliveredMeansReceived ==
  changes = 0 => \A r \in Rows : Done(r) => \A s \in configured : r \in received[s]

\* A receiver that is down is not hammered: whatever the other one does, a
\* document is sent out at most once more than MAX_ATTEMPTS, apart from the
\* rounds a crash made the queue forget.
RoundsBounded ==
  \A r \in Rows : rounds[r] <= MaxAttempts + 1 + crashes

\* The status AlertPromise speaks of.
Status ==
  [r \in Rows |-> IF r > size THEN "new"
                  ELSE IF Done(r) THEN "delivered"
                  ELSE IF r \in parked THEN "parked" ELSE "queued"]

\* The queue keeps its promise: what is accepted is settled exactly once and
\* in the end, with the receivers down, the watcher dying and backing off.
Promise == INSTANCE AlertPromise WITH Documents <- Rows, status <- Status
KeepsPromise == Promise!Spec
=============================================================================
