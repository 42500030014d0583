--------------------------- MODULE CampaignState ---------------------------
(***************************************************************************)
(* Campaign alert mode: the rows of campaign_alerts (db/_campaigns.py),    *)
(* primed by a watch cycle's corroborated clusters and reported when they  *)
(* lapse (full_aur/_pipeline_helpers.py).                                  *)
(*                                                                         *)
(* Time is the observation counter, which every analysis of every process  *)
(* moves.  Only the watcher, of which there is one, writes the rows; it    *)
(* may die between any two commits.                                        *)
(***************************************************************************)
EXTENDS Naturals, FiniteSets

CONSTANTS
  Campaigns,  \* campaign ids
  None,       \* no campaign
  MaxActive,  \* [alerts] max_active_campaigns, 0 for no cap
  TTL,        \* [alerts] campaign_ttl_observations
  MaxNow,     \* bound: the observation counter
  MaxCrashes  \* bound: crashes of the watcher

ASSUME CampaignAssumption ==
  /\ None \notin Campaigns
  /\ MaxActive \in Nat
  /\ TTL \in Nat \ {0}
  /\ MaxNow \in Nat
  /\ MaxCrashes \in Nat

VARIABLES
  now,       \* observation_seq()
  rows,      \* the campaigns that have a row
  armed,     \* armed[c]: activated_at_obs of c's row
  announced, \* rows with expiry_announced
  pc,        \* "idle", "sweep" or "report"
  findings,  \* campaigns this sweep has yet to activate
  lapsed,    \* what expired_unannounced returned, less what was reported
  saying,    \* the campaign reported and not yet marked, or None
  said,      \* history: said[c], reports of c's lapse since it was armed
  crashes

table == <<rows, armed, announced>>
cycle == <<pc, findings, lapsed, saying>>
vars  == <<now, table, cycle, said, crashes>>

-----------------------------------------------------------------------------
Live == {c \in rows : armed[c] + TTL > now}

Full == MaxActive > 0 /\ Cardinality(Live) >= MaxActive

Init ==
  /\ now = 0
  /\ rows = {}
  /\ armed = [c \in Campaigns |-> 0]
  /\ announced = {}
  /\ pc = "idle"
  /\ findings = {}
  /\ lapsed = {}
  /\ saying = None
  /\ said = [c \in Campaigns |-> 0]
  /\ crashes = 0

\* Plausible bugs, each checked to break a property when it stands in for the
\* definition its comment names.

\* Evictable: the oldest row, lapsed or not.
EvictableOldest == {c \in rows : \A d \in rows : armed[c] <= armed[d]}

\* Mark: the flag is not committed.
MarkLost ==
  /\ saying # None
  /\ saying' = None
  /\ UNCHANGED <<now, table, pc, findings, lapsed, said, crashes>>

\* EndCycle: the cycle ends with the last lapse logged and not marked.
EndCycleEarly ==
  /\ pc = "report"
  /\ lapsed = {}
  /\ pc' = "idle"
  /\ UNCHANGED <<now, table, findings, lapsed, saying, said, crashes>>

\* The lapsed rows activate_campaign may delete: its SELECT takes the oldest,
\* and any of those as old.
Evictable ==
  {c \in rows \ Live : \A d \in rows \ Live : armed[c] <= armed[d]}

\* c's row is written, in the place of the rows in gone; a campaign without
\* a row is as it was at first.
Put(c, gone) ==
  /\ rows' = (rows \ gone) \cup {c}
  /\ armed' = [d \in Campaigns |-> IF d = c THEN now ELSE IF d \in gone THEN 0 ELSE armed[d]]
  /\ announced' = announced \ (gone \cup {c})
  /\ said' = [d \in Campaigns |-> IF d \in gone \cup {c} THEN 0 ELSE said[d]]

-----------------------------------------------------------------------------
\* An analysis is stored, by the watcher or beside it.
Observe ==
  /\ now < MaxNow
  /\ now' = now + 1
  /\ UNCHANGED <<table, cycle, said, crashes>>

\* The sweep of a whole cycle found these corroborated clusters.
Sweep ==
  /\ pc = "idle"
  /\ findings' \in SUBSET Campaigns
  /\ pc' = "sweep"
  /\ UNCHANGED <<now, table, lapsed, saying, said, crashes>>

Turn(c) ==
  /\ pc = "sweep"
  /\ c \in findings
  /\ findings' = findings \ {c}
  /\ UNCHANGED <<now, pc, lapsed, saying, crashes>>

\* activate_campaign on a campaign that has a row, live or lapsed.
Rearm(c) ==
  /\ Turn(c)
  /\ c \in rows
  /\ Put(c, {})

\* A new campaign, below the cap ...
Admit(c) ==
  /\ Turn(c)
  /\ c \notin rows
  /\ ~Full
  /\ Put(c, {})

\* ... at the cap, in the place of a lapsed row ...
Replace(c) ==
  /\ Turn(c)
  /\ c \notin rows
  /\ Full
  /\ \E old \in Evictable : Put(c, {old})

\* ... at the cap with nothing lapsed.
Refuse(c) ==
  /\ Turn(c)
  /\ c \notin rows
  /\ Full
  /\ Evictable = {}
  /\ UNCHANGED <<table, said>>

-----------------------------------------------------------------------------
\* expired_unannounced, read once.
ReadLapsed ==
  /\ pc = "sweep"
  /\ findings = {}
  /\ lapsed' = rows \ (Live \cup announced)
  /\ pc' = "report"
  /\ UNCHANGED <<now, table, findings, saying, said, crashes>>

\* The lapse is logged ...
Say(c) ==
  /\ pc = "report"
  /\ saying = None
  /\ c \in lapsed
  /\ saying' = c
  /\ lapsed' = lapsed \ {c}
  /\ said' = [said EXCEPT ![c] = @ + 1]
  /\ UNCHANGED <<now, table, pc, findings, crashes>>

\* ... and mark_expiry_announced commits it.
Mark ==
  /\ saying # None
  /\ announced' = announced \cup {saying}
  /\ saying' = None
  /\ UNCHANGED <<now, rows, armed, pc, findings, lapsed, said, crashes>>

EndCycle ==
  /\ pc = "report"
  /\ lapsed = {}
  /\ saying = None
  /\ pc' = "idle"
  /\ UNCHANGED <<now, table, findings, lapsed, saying, said, crashes>>

Crash ==
  /\ pc # "idle"
  /\ crashes < MaxCrashes
  /\ crashes' = crashes + 1
  /\ pc' = "idle"
  /\ findings' = {}
  /\ lapsed' = {}
  /\ saying' = None
  /\ UNCHANGED <<now, table, said>>

-----------------------------------------------------------------------------
Activate(c) == Rearm(c) \/ Admit(c) \/ Replace(c) \/ Refuse(c)

Next ==
  \/ Observe \/ Sweep \/ ReadLapsed \/ Mark \/ EndCycle \/ Crash
  \/ \E c \in Campaigns : Activate(c) \/ Say(c)

Spec == Init /\ [][Next]_vars

-----------------------------------------------------------------------------
TypeOK ==
  /\ now \in 0..MaxNow
  /\ rows \in SUBSET Campaigns
  /\ armed \in [Campaigns -> 0..MaxNow]
  /\ announced \in SUBSET rows
  /\ pc \in {"idle", "sweep", "report"}
  /\ findings \in SUBSET Campaigns
  /\ lapsed \in SUBSET Campaigns
  /\ saying \in Campaigns \cup {None}
  /\ saying # None => pc = "report"
  /\ said \in [Campaigns -> Nat]
  /\ crashes \in 0..MaxCrashes

\* "a live TTL is never shortened": whatever newcomers there are, a campaign
\* that is live keeps its row and loses none of its window.
LiveKept ==
  [][\A c \in Live : c \in rows' /\ armed'[c] >= armed[c]]_vars

\* "the caller reports each once": a lapse is named once, and once more only
\* for each crash that took the mark with it.
NamedOnce == \A c \in rows : said[c] <= 1 + crashes

\* "How many campaigns may be active at once": no activation takes the number
\* of live campaigns past the cap.
CapHolds == MaxActive > 0 => Cardinality(Live) <= MaxActive
=============================================================================
