--------------------------- MODULE ClusterAlerts ---------------------------
(***************************************************************************)
(* From a cycle's clusters to what the operator is told: the end of a      *)
(* whole watch cycle (full_aur/_baseline_build.py, _finish_cycle) and      *)
(* record_alerts (db/_profiles.py), on top of the campaigns the same cycle *)
(* primes (CampaignState).  alert_state remembers the pairs (package,      *)
(* rule) recorded, alert_refractory the windows of a campaign in which an  *)
(* alert was emitted; both are written in one transaction, and only then   *)
(* does the watch loop report what was new.                                *)
(*                                                                         *)
(* A campaign's id names its rule, and rules share no row: the campaigns   *)
(* are taken to be of one rule, and None stands for the clusters of a rule *)
(* that primes no campaign.                                                *)
(***************************************************************************)
EXTENDS CampaignState

CONSTANT Packages

Clusters == Campaigns \cup {None}

VARIABLES
  stage,     \* "idle", "sweep" (CampaignState's pc says where), "record", "report"
  members,   \* members[c]: the packages of the cluster c found this cycle
  left,      \* record_alerts: clusters whose pairs are still to be recorded
  seq,       \* record_alerts: the observation counter it read
  recorded,  \* alert_state: pairs <<package, is its rule the campaigns'>>
  refractory,\* alert_refractory: <<campaign, window_start_obs>>
  txRecorded, txRefractory, \* the two tables as the open transaction sees them
  fresh,     \* record_alerts' result so far: <<package, cluster, window>>
  told,      \* history: told[pair], how often it was reported
  alerts,    \* history: the <<package, cluster, window>> reported
  deaths     \* watchers that died, or cycles that failed, after the sweep

tables == <<recorded, refractory>>
tx     == <<left, seq, txRecorded, txRefractory, fresh>>
history == <<told, alerts, deaths>>
alertVars == <<vars, stage, members, tables, tx, history>>

-----------------------------------------------------------------------------
Pair(p, c) == <<p, c # None>>

\* The start of the window an alert of c falls in.
Window(c) ==
  IF c \notin rows THEN 0 ELSE IF seq >= armed[c] + TTL THEN seq ELSE armed[c]

AlertInit ==
  /\ Init
  /\ stage = "idle"
  /\ members = [c \in Clusters |-> {}]
  /\ left = {}
  /\ seq = 0
  /\ recorded = {}
  /\ refractory = {}
  /\ txRecorded = {}
  /\ txRefractory = {}
  /\ fresh = {}
  /\ told = [q \in Packages \X BOOLEAN |-> 0]
  /\ alerts = {}
  /\ deaths = 0

\* Plausible bugs, each checked to break a property when it stands in for the
\* definition its comment names.

\* Commit: the cycle is reported from a transaction that is rolled back.
CommitLost ==
  /\ stage = "record"
  /\ left = {}
  /\ txRecorded' = recorded
  /\ txRefractory' = refractory
  /\ stage' = "report"
  /\ UNCHANGED <<vars, members, tables, left, seq, fresh, history>>

\* Speakers: every new member of a campaign is announced.
SpeakersAll(c, w) ==
  LET new == {p \in members[c] : Pair(p, c) \notin txRecorded}
  IN  IF c # None /\ <<c, w>> \in txRefractory THEN {{}} ELSE {new}

\* Speakers: the clusters that prime no campaign have a refractory row too.
SpeakersDebounced(c, w) ==
  LET new == {p \in members[c] : Pair(p, c) \notin txRecorded}
  IN  IF <<c, w>> \in txRefractory THEN {{}}
      ELSE {{first} \cap new : first \in members[c]}

\* The members whose pairs come back as new: each new one of a rule without
\* campaigns; of a campaign the first one handed over, if it is new and the
\* window has had no alert.
Speakers(c, w) ==
  LET new == {p \in members[c] : Pair(p, c) \notin txRecorded}
  IN  IF c = None THEN {new}
      ELSE IF <<c, w>> \in txRefractory THEN {{}}
      ELSE {{first} \cap new : first \in members[c]}

-----------------------------------------------------------------------------
\* The sweep of a whole cycle, with the members of each cluster.
Detect ==
  /\ stage = "idle"
  /\ Sweep
  /\ members' \in [Clusters -> SUBSET Packages]
  /\ \A c \in Campaigns : members'[c] # {} <=> c \in findings'
  /\ stage' = "sweep"
  /\ UNCHANGED <<tables, tx, history>>

\* Campaigns are primed and lapses named, as CampaignState has it.
Prime ==
  /\ stage = "sweep"
  /\ ReadLapsed \/ Mark \/ \E c \in Campaigns : Activate(c) \/ Say(c)
  /\ UNCHANGED <<stage, members, tables, tx, history>>

Elsewhere ==
  /\ Observe
  /\ UNCHANGED <<stage, members, tables, tx, history>>

\* The events are recorded, the snapshot advances, and record_alerts starts.
Begin ==
  /\ stage = "sweep"
  /\ EndCycle
  /\ stage' = "record"
  /\ seq' = now
  /\ left' = {c \in Clusters : members[c] # {}}
  /\ fresh' = {}
  /\ UNCHANGED <<members, tables, txRecorded, txRefractory, history>>

\* Plausible bug in Record: every pair gets a refractory row.
RecordUnguarded(c) ==
  /\ stage = "record"
  /\ c \in left
  /\ left' = left \ {c}
  /\ LET w == Window(c)
     IN  /\ \E some \in Speakers(c, w) : fresh' = fresh \cup {<<p, c, w>> : p \in some}
         /\ txRefractory' = txRefractory \cup {<<c, w>>}
  /\ txRecorded' = txRecorded \cup {Pair(p, c) : p \in members[c]}
  /\ UNCHANGED <<vars, stage, members, tables, seq, history>>

\* The pairs of one cluster.
Record(c) ==
  /\ stage = "record"
  /\ c \in left
  /\ left' = left \ {c}
  /\ LET w == Window(c)
     IN  /\ \E some \in Speakers(c, w) : fresh' = fresh \cup {<<p, c, w>> : p \in some}
         /\ txRefractory' = IF c = None THEN txRefractory ELSE txRefractory \cup {<<c, w>>}
  /\ txRecorded' = txRecorded \cup {Pair(p, c) : p \in members[c]}
  /\ UNCHANGED <<vars, stage, members, tables, seq, history>>

Commit ==
  /\ stage = "record"
  /\ left = {}
  /\ recorded' = txRecorded
  /\ refractory' = txRefractory
  /\ stage' = "report"
  /\ UNCHANGED <<vars, members, tx, history>>

\* The watch loop logs result.new_alerts and hands them to maybe_notify.
Report ==
  /\ stage = "report"
  /\ told' = [q \in DOMAIN told |->
                told[q] + IF \E a \in fresh : Pair(a[1], a[2]) = q THEN 1 ELSE 0]
  /\ alerts' = alerts \cup fresh
  /\ fresh' = {}
  /\ members' = [c \in Clusters |-> {}]
  /\ seq' = 0
  /\ stage' = "idle"
  /\ UNCHANGED <<vars, tables, left, txRecorded, txRefractory, deaths>>

\* What an open transaction and the cycle's memory are reset to.
Forget ==
  /\ stage' = "idle"
  /\ members' = [c \in Clusters |-> {}]
  /\ left' = {}
  /\ txRecorded' = recorded
  /\ txRefractory' = refractory
  /\ fresh' = {}
  /\ seq' = 0
  /\ UNCHANGED <<tables, told, alerts>>

\* The watcher dies, or the cycle raises, while campaigns are primed ...
DieInSweep == stage = "sweep" /\ Crash /\ Forget /\ UNCHANGED deaths

\* ... or later, the export of the corpus after record_alerts included.
DieAfter ==
  /\ stage \in {"record", "report"}
  /\ deaths < MaxCrashes
  /\ deaths' = deaths + 1
  /\ Forget
  /\ UNCHANGED vars

-----------------------------------------------------------------------------
AlertNext ==
  \/ Detect \/ Prime \/ Elsewhere \/ Begin \/ Commit \/ Report \/ DieInSweep \/ DieAfter
  \/ \E c \in Clusters : Record(c)

AlertSpec == AlertInit /\ [][AlertNext]_alertVars

-----------------------------------------------------------------------------
Windows == Campaigns \X (0..MaxNow)

AlertTypeOK ==
  /\ stage \in {"idle", "sweep", "record", "report"}
  /\ stage = "sweep" <=> pc # "idle"
  /\ members \in [Clusters -> SUBSET Packages]
  /\ left \in SUBSET Clusters
  /\ seq \in 0..MaxNow
  /\ recorded \in SUBSET (Packages \X BOOLEAN)
  /\ refractory \in SUBSET Windows
  /\ txRecorded \in SUBSET (Packages \X BOOLEAN)
  /\ txRefractory \in SUBSET Windows
  /\ fresh \in SUBSET (Packages \X Clusters \X (0..MaxNow))
  /\ told \in [Packages \X BOOLEAN -> Nat]
  /\ alerts \in SUBSET (Packages \X Clusters \X (0..MaxNow))
  /\ deaths \in 0..MaxCrashes

\* "the operator sees each finding once": no pair (package, rule) is reported
\* by two cycles, whatever dies in between (record_alerts).
ReportedOnce == \A q \in Packages \X BOOLEAN : told[q] <= 1

\* "one alert per (rule, campaign) per window": of a campaign at most one
\* member is announced for one arming of it, however many cycles meet it
\* before it is armed again (alert_refractory).
OncePerArming ==
  \A a, b \in alerts : a[2] # None /\ a[2] = b[2] /\ a[3] = b[3] => a = b

\* A pair of a rule without campaigns that alert_state holds has been
\* reported, or is about to be: it is never new again, so unless a cycle died
\* between the commit and the report nobody would hear of it.
RecordedIsReported ==
  deaths = 0 =>
    \A p \in Packages : <<p, FALSE>> \in recorded =>
      told[<<p, FALSE>>] = 1 \/ (stage = "report" /\ \E a \in fresh : a[1] = p /\ a[2] = None)

\* "per-(rule, campaign) emission audit: the window start and whether the
\* alert was emitted or debounced": the audit calls a window emitted when its
\* refractory row is inserted, and then an alert for it was reported.
EmittedMeansAlerted ==
  stage = "idle" /\ deaths = 0 =>
    \A r \in refractory : \E a \in alerts : a[2] = r[1] /\ a[3] = r[2]
=============================================================================
