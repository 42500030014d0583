------------------------ MODULE ClusterAlerts_proofs ------------------------
(***************************************************************************)
(* What the end of a watch cycle announces, for any campaigns, packages,   *)
(* cap, window and number of crashes; and that composing record_alerts     *)
(* with the campaigns leaves the campaigns' behaviour as CampaignState has *)
(* it, so that what is proved there holds here.                            *)
(***************************************************************************)
EXTENDS ClusterAlerts, TLAPS

-----------------------------------------------------------------------------
(* The campaigns by themselves: a live window is never shortened, a lapse is *)
(* reported once.                                                            *)

USE CampaignAssumption

\* A lapse to be reported is not marked, and every report made is marked,
\* about to be, or lost to a crash.
Inv ==
  /\ TypeOK
  /\ \A c \in Campaigns : armed[c] <= now
  /\ lapsed \cap announced = {}
  /\ saying # None => saying \in rows \ lapsed
  /\ lapsed \subseteq rows
  /\ lapsed # {} => pc = "report"
  /\ \A c \in rows : said[c] <= (IF c \in announced \/ c = saying THEN 1 ELSE 0) + crashes

LEMMA InitInv == Init => Inv
  BY DEF Init, Inv, TypeOK

\* What Put leaves of the invariant: everything about the other rows.
LEMMA PutKeepsInv ==
  ASSUME Inv, NEW c \in Campaigns, NEW gone \in SUBSET rows, c \notin gone, Turn(c), Put(c, gone)
  PROVE  Inv'
<1>1. UNCHANGED <<now, pc, lapsed, saying, crashes>> /\ findings' = findings \ {c} /\ pc = "sweep"
  BY DEF Turn
<1>2. saying = None /\ lapsed = {}
  BY <1>1 DEF Inv, TypeOK
<1>3. armed' \in [Campaigns -> 0..MaxNow]
  BY DEF Put, Inv, TypeOK
<1>4. said' \in [Campaigns -> Nat]
  BY DEF Put, Inv, TypeOK
<1>5. rows' = (rows \ gone) \cup {c} /\ announced' = announced \ (gone \cup {c})
  BY DEF Put
<1>6. TypeOK'
  BY <1>1, <1>2, <1>3, <1>4, <1>5 DEF Inv, TypeOK
<1>7. \A d \in Campaigns : armed'[d] <= now'
  BY <1>1 DEF Put, Inv, TypeOK
<1>8. \A d \in rows' : said'[d] <= (IF d \in announced' \/ d = saying' THEN 1 ELSE 0) + crashes'
  <2>1. \A d \in rows' : said'[d] = IF d = c THEN 0 ELSE said[d]
    BY <1>5 DEF Put, Inv, TypeOK
  <2>2. \A d \in rows' \ {c} : d \in rows /\ (d \in announced' <=> d \in announced)
    BY <1>5
  <2> QED BY <1>1, <2>1, <2>2 DEF Inv, TypeOK
<1> QED BY <1>1, <1>2, <1>6, <1>7, <1>8 DEF Inv

LEMMA StepInv == Inv /\ [Next]_vars => Inv'
<1> SUFFICES ASSUME Inv, [Next]_vars PROVE Inv'
  OBVIOUS
<1>1. CASE Observe
  BY <1>1 DEF Observe, Inv, TypeOK, table, cycle
<1>2. CASE Sweep
  BY <1>2 DEF Sweep, Inv, TypeOK, table
<1>3. ASSUME NEW c \in Campaigns, Rearm(c) PROVE Inv'
  BY <1>3, PutKeepsInv DEF Rearm
<1>4. ASSUME NEW c \in Campaigns, Admit(c) PROVE Inv'
  BY <1>4, PutKeepsInv DEF Admit
<1>5. ASSUME NEW c \in Campaigns, Replace(c) PROVE Inv'
  <2>1. PICK old \in Evictable : Put(c, {old})
    BY <1>5 DEF Replace
  <2> QED BY <1>5, <2>1, PutKeepsInv DEF Replace, Evictable
<1>6. ASSUME NEW c \in Campaigns, Refuse(c) PROVE Inv'
  BY <1>6 DEF Refuse, Turn, Inv, TypeOK, table
<1>7. CASE ReadLapsed
  BY <1>7 DEF ReadLapsed, Inv, TypeOK, table
<1>8. ASSUME NEW c \in Campaigns, Say(c) PROVE Inv'
  <2>1. said' \in [Campaigns -> Nat] /\ said'[c] = said[c] + 1
        /\ \A d \in Campaigns \ {c} : said'[d] = said[d]
    BY <1>8 DEF Say, Inv, TypeOK
  <2> QED BY <1>8, <2>1 DEF Say, Inv, TypeOK, table
<1>9. CASE Mark
  BY <1>9 DEF Mark, Inv, TypeOK
<1>10. CASE EndCycle
  BY <1>10 DEF EndCycle, Inv, TypeOK, table
<1>11. CASE Crash
  BY <1>11 DEF Crash, Inv, TypeOK, table
<1>12. CASE UNCHANGED vars
  BY <1>12 DEF vars, table, cycle, Inv, TypeOK
<1> QED
  BY <1>1, <1>2, <1>3, <1>4, <1>5, <1>6, <1>7, <1>8, <1>9, <1>10, <1>11, <1>12
     DEF Next, Activate

-----------------------------------------------------------------------------
\* The table and the cycle's locals have their types in every reachable state
\* (activate_campaign, mark_expiry_announced).
THEOREM TypeCorrect == Spec => []TypeOK
<1>1. Inv => TypeOK
  BY DEF Inv
<1> QED BY <1>1, InitInv, StepInv, PTL DEF Spec

\* A lapse is reported once, and once more for each crash between the report
\* and the mark (_report_expired_campaigns).
THEOREM LapseNamedOnce == Spec => []NamedOnce
<1>1. Inv => NamedOnce
  BY DEF Inv, NamedOnce, TypeOK
<1> QED BY <1>1, InitInv, StepInv, PTL DEF Spec

\* No activation, eviction or refusal shortens a live campaign's window
\* (activate_campaign).
THEOREM LiveWindowsKept == Spec => LiveKept
<1> DEFINE Kept == \A c \in Live : c \in rows' /\ armed'[c] >= armed[c]
<1>1. Inv /\ [Next]_vars => [Kept]_vars
  <2> SUFFICES ASSUME Inv, Next, NEW c \in Live PROVE c \in rows' /\ armed'[c] >= armed[c]
    OBVIOUS
  <2>1. c \in rows /\ c \in Campaigns /\ armed[c] \in Nat /\ now \in Nat /\ armed[c] <= now
    BY DEF Live, Inv, TypeOK
  <2>2. ASSUME NEW d \in Campaigns, NEW gone \in SUBSET (rows \ Live), Put(d, gone)
        PROVE  c \in rows' /\ armed'[c] >= armed[c]
    BY <2>1, <2>2 DEF Put
  <2>3. ASSUME NEW d \in Campaigns, Activate(d) PROVE c \in rows' /\ armed'[c] >= armed[c]
    <3>1. CASE Rearm(d) \/ Admit(d)
      BY <2>2, <3>1 DEF Rearm, Admit
    <3>2. CASE Replace(d)
      <4>1. PICK old \in Evictable : Put(d, {old})
        BY <3>2 DEF Replace
      <4> QED BY <2>2, <4>1 DEF Evictable
    <3>3. CASE Refuse(d)
      BY <2>1, <3>3 DEF Refuse, table
    <3> QED BY <2>3, <3>1, <3>2, <3>3 DEF Activate
  <2>4. CASE Observe \/ Sweep \/ ReadLapsed \/ Mark \/ EndCycle \/ Crash
    BY <2>1, <2>4 DEF Observe, Sweep, ReadLapsed, Mark, EndCycle, Crash, table
  <2>5. ASSUME NEW d \in Campaigns, Say(d) PROVE c \in rows' /\ armed'[c] >= armed[c]
    BY <2>1, <2>5 DEF Say, table
  <2> QED BY <2>3, <2>4, <2>5 DEF Next
<1> QED BY <1>1, InitInv, StepInv, PTL DEF Spec, LiveKept

-----------------------------------------------------------------------------
(* The campaigns with the record of alerts.                                  *)

\* A reported pair has its row; the rows of the open transaction are those of
\* the tables and the ones of this cycle; what is fresh was never reported,
\* has its row in the transaction, and names each pair and window once.
Key(a) == Pair(a[1], a[2])

Announcement ==
  /\ recorded \subseteq txRecorded
  /\ refractory \subseteq txRefractory
  /\ stage # "record" => recorded = txRecorded /\ refractory = txRefractory
  /\ \A q \in Packages \X BOOLEAN : told[q] <= IF q \in recorded THEN 1 ELSE 0
  /\ \A a \in fresh : Key(a) \in txRecorded /\ told[Key(a)] = 0
  /\ \A a \in alerts : a[2] # None => <<a[2], a[3]>> \in refractory

Once ==
  /\ \A a \in fresh : a[2] # None => <<a[2], a[3]>> \in txRefractory
  /\ \A a \in fresh, b \in fresh \cup alerts :
       a[2] # None /\ a[2] = b[2] /\ a[3] = b[3] => a = b

AlertInv == Inv /\ AlertTypeOK /\ Announcement /\ Once /\ OncePerArming

-----------------------------------------------------------------------------
LEMMA AlertInitInv == AlertInit => AlertInv
<1> SUFFICES ASSUME AlertInit PROVE AlertInv
  OBVIOUS
<1>1. Inv
  BY InitInv DEF AlertInit
<1>2. AlertTypeOK
  BY CampaignAssumption DEF AlertInit, AlertTypeOK, Init
<1> QED BY <1>1, <1>2 DEF AlertInit, AlertInv, Announcement, Once, OncePerArming

\* Every step is a step of CampaignState, or leaves the campaigns alone.
LEMMA StepSimulates == [AlertNext]_alertVars => [Next]_vars
  BY DEF AlertNext, alertVars, Detect, Prime, Elsewhere, Begin, Commit, Report, DieInSweep,
         DieAfter, Record, Next

LEMMA InvKept == AlertInv /\ [AlertNext]_alertVars => Inv'
  BY StepSimulates, StepInv DEF AlertInv

\* A window an alert may fall in is one the counter can name.
LEMMA WindowRange ==
  ASSUME Inv, AlertTypeOK, NEW c \in Clusters
  PROVE  Window(c) \in 0..MaxNow
<1>1. CASE c \in rows
  BY <1>1, CampaignAssumption DEF Window, Inv, TypeOK, AlertTypeOK
<1>2. CASE c \notin rows
  BY <1>2, CampaignAssumption DEF Window
<1> QED BY <1>1, <1>2

-----------------------------------------------------------------------------
\* What one cluster adds: of each pair and each window nothing that was there.
LEMMA RecordKeeps ==
  ASSUME AlertInv, NEW c \in Clusters, Record(c)
  PROVE  AlertTypeOK' /\ Announcement' /\ Once' /\ OncePerArming'
<1> DEFINE w == Window(c)
           new == {p \in members[c] : Pair(p, c) \notin txRecorded}
<1>1. w \in 0..MaxNow
  BY WindowRange DEF AlertInv
<1>2. PICK some \in Speakers(c, w) : fresh' = fresh \cup {<<p, c, w>> : p \in some}
  BY DEF Record
<1>3. /\ some \subseteq new
      /\ c # None => <<c, w>> \notin txRefractory \/ some = {}
      /\ c # None => \A p, q \in some : p = q
  <2>1. CASE c = None
    BY <1>2, <2>1 DEF Speakers
  <2>2. CASE c # None /\ <<c, w>> \in txRefractory
    BY <1>2, <2>2 DEF Speakers
  <2>3. CASE c # None /\ <<c, w>> \notin txRefractory
    BY <1>2, <2>3 DEF Speakers
  <2> QED BY <2>1, <2>2, <2>3
<1>4. /\ UNCHANGED <<pc, stage, members, recorded, refractory, seq, told, alerts, deaths>>
      /\ stage = "record"
      /\ left' = left \ {c}
      /\ txRecorded' = txRecorded \cup {Pair(p, c) : p \in members[c]}
      /\ txRefractory' = IF c = None THEN txRefractory ELSE txRefractory \cup {<<c, w>>}
  BY DEF Record, vars, cycle, tables, history
<1>5. members[c] \subseteq Packages /\ new \subseteq Packages
  BY DEF AlertInv, AlertTypeOK
<1>6. AlertTypeOK'
  <2>1. txRecorded' \in SUBSET (Packages \X BOOLEAN)
    BY <1>4, <1>5 DEF AlertInv, AlertTypeOK, Pair
  <2>2. txRefractory' \in SUBSET Windows
    BY <1>1, <1>4 DEF AlertInv, AlertTypeOK, Windows, Clusters
  <2>3. fresh' \in SUBSET (Packages \X Clusters \X (0..MaxNow))
    BY <1>1, <1>2, <1>3, <1>5 DEF AlertInv, AlertTypeOK
  <2> QED BY <1>4, <2>1, <2>2, <2>3 DEF AlertInv, AlertTypeOK
<1>7. Announcement'
  <2>1. \A a \in fresh' : Key(a) \in txRecorded' /\ told'[Key(a)] = 0
    <3>1. ASSUME NEW a \in fresh PROVE Key(a) \in txRecorded' /\ told'[Key(a)] = 0
      BY <1>4, <3>1 DEF AlertInv, Announcement, Key
    <3>2. ASSUME NEW p \in some PROVE Pair(p, c) \in txRecorded' /\ told'[Pair(p, c)] = 0
      <4>1. p \in members[c] /\ Pair(p, c) \notin txRecorded /\ Pair(p, c) \in Packages \X BOOLEAN
        BY <1>3, <1>5, <3>2 DEF Pair
      <4>2. Pair(p, c) \notin recorded
        BY <4>1 DEF AlertInv, Announcement
      <4>3. told[Pair(p, c)] \in Nat /\ told[Pair(p, c)] <= 0
        BY <4>1, <4>2 DEF AlertInv, AlertTypeOK, Announcement
      <4> QED BY <1>4, <4>1, <4>3
    <3> QED BY <1>2, <3>1, <3>2 DEF Key
  <2> QED BY <1>4, <2>1 DEF AlertInv, Announcement
<1>8. Once'
  <2>1. \A a \in fresh' : a[2] # None => <<a[2], a[3]>> \in txRefractory'
    BY <1>2, <1>4 DEF AlertInv, Once
  <2>2. ASSUME NEW p \in some, NEW b \in fresh \cup alerts, c # None
        PROVE  ~(c = b[2] /\ w = b[3])
    <3>1. <<c, w>> \notin txRefractory
      BY <1>3, <2>2
    <3>2. b[2] # None => <<b[2], b[3]>> \in txRefractory
      BY <2>2 DEF AlertInv, Once, Announcement
    <3> QED BY <2>2, <3>1, <3>2
  <2>3. ASSUME NEW a \in fresh', NEW b \in fresh' \cup alerts', a[2] # None, a[2] = b[2], a[3] = b[3]
        PROVE  a = b
    <3>1. CASE a \in fresh /\ b \in fresh \cup alerts
      BY <2>3, <3>1 DEF AlertInv, Once
    <3>2. CASE a \notin fresh /\ b \in fresh \cup alerts
      <4>1. PICK p \in some : a = <<p, c, w>>
        BY <1>2, <2>3, <3>2
      <4> QED BY <2>2, <2>3, <3>2, <4>1
    <3>3. CASE a \in fresh /\ b \notin fresh \cup alerts
      <4>1. PICK p \in some : b = <<p, c, w>>
        BY <1>2, <1>4, <2>3, <3>3
      <4> QED BY <2>2, <2>3, <3>3, <4>1
    <3>4. CASE a \notin fresh /\ b \notin fresh \cup alerts
      <4>1. PICK p \in some : a = <<p, c, w>>
        BY <1>2, <2>3, <3>4
      <4>2. PICK q \in some : b = <<q, c, w>>
        BY <1>2, <1>4, <2>3, <3>4
      <4>3. c # None
        BY <2>3, <4>1
      <4> QED BY <1>3, <4>1, <4>2, <4>3
    <3> QED BY <3>1, <3>2, <3>3, <3>4
  <2> QED BY <2>1, <2>3 DEF Once
<1>9. OncePerArming'
  BY <1>4 DEF AlertInv, OncePerArming
<1> QED BY <1>6, <1>7, <1>8, <1>9

\* The report takes what is fresh to what was told.
LEMMA ReportKeeps ==
  ASSUME AlertInv, Report
  PROVE  AlertTypeOK' /\ Announcement' /\ Once' /\ OncePerArming'
<1>1. /\ UNCHANGED <<pc, recorded, refractory, left, txRecorded, txRefractory, deaths>>
      /\ stage = "report" /\ stage' = "idle" /\ fresh' = {} /\ seq' = 0
      /\ alerts' = alerts \cup fresh
      /\ members' = [c \in Clusters |-> {}]
  BY DEF Report, vars, cycle, tables
<1>2. recorded = txRecorded /\ refractory = txRefractory
  BY <1>1 DEF AlertInv, Announcement
<1>3. told \in [Packages \X BOOLEAN -> Nat]
  BY DEF AlertInv, AlertTypeOK
<1>4. \A q \in Packages \X BOOLEAN :
        told'[q] = told[q] + IF \E a \in fresh : Pair(a[1], a[2]) = q THEN 1 ELSE 0
  BY <1>3 DEF Report
<1>5. told' \in [Packages \X BOOLEAN -> Nat]
  BY <1>3 DEF Report
<1>6. \A q \in Packages \X BOOLEAN : told'[q] <= IF q \in recorded' THEN 1 ELSE 0
  <2> SUFFICES ASSUME NEW q \in Packages \X BOOLEAN
               PROVE  told'[q] <= IF q \in recorded' THEN 1 ELSE 0
    OBVIOUS
  <2>1. told[q] \in Nat /\ told[q] <= IF q \in recorded THEN 1 ELSE 0
    BY <1>3 DEF AlertInv, Announcement
  <2>2. CASE \E a \in fresh : Pair(a[1], a[2]) = q
    <3>1. q \in recorded /\ told[q] = 0
      BY <1>2, <2>2 DEF AlertInv, Announcement, Key
    <3> QED BY <1>1, <1>4, <2>2, <3>1
  <2>3. CASE ~\E a \in fresh : Pair(a[1], a[2]) = q
    BY <1>1, <1>4, <2>1, <2>3
  <2> QED BY <2>2, <2>3
<1>7. \A a \in alerts' : a[2] # None => <<a[2], a[3]>> \in refractory'
  BY <1>1, <1>2 DEF AlertInv, Announcement, Once
<1>8. pc = "idle"
  BY <1>1 DEF AlertInv, AlertTypeOK
<1>9. AlertTypeOK'
  BY <1>1, <1>5, <1>8, CampaignAssumption DEF AlertInv, AlertTypeOK
<1>10. OncePerArming'
  BY <1>1 DEF AlertInv, Once, OncePerArming
<1> QED BY <1>1, <1>2, <1>6, <1>7, <1>9, <1>10 DEF Announcement, Once

\* A death takes the transaction and the cycle's memory with it.
LEMMA ForgetKeeps ==
  ASSUME AlertInv, Forget, pc' = "idle", deaths' \in 0..MaxCrashes
  PROVE  AlertTypeOK' /\ Announcement' /\ Once' /\ OncePerArming'
<1>1. AlertTypeOK'
  BY CampaignAssumption DEF AlertInv, AlertTypeOK, Forget, tables
<1> QED BY <1>1 DEF AlertInv, Announcement, Once, OncePerArming, Forget, tables

-----------------------------------------------------------------------------
LEMMA AlertStepInv == AlertInv /\ [AlertNext]_alertVars => AlertInv'
<1> SUFFICES ASSUME AlertInv, [AlertNext]_alertVars
             PROVE  AlertTypeOK' /\ Announcement' /\ Once' /\ OncePerArming'
  BY InvKept DEF AlertInv
<1>1. CASE Detect
  BY <1>1 DEF Detect, Sweep, AlertInv, AlertTypeOK, Announcement, Once, OncePerArming,
              tables, tx, history
<1>2. CASE Prime
  <2>1. pc # "idle" /\ pc' # "idle"
    BY <1>2 DEF Prime, AlertInv, AlertTypeOK, ReadLapsed, Mark, Activate, Rearm, Admit, Replace,
                Refuse, Turn, Say
  <2> QED BY <1>2, <2>1 DEF Prime, AlertInv, AlertTypeOK, Announcement, Once, OncePerArming,
                            tables, tx, history
<1>3. CASE Elsewhere
  BY <1>3 DEF Elsewhere, Observe, cycle, AlertInv, AlertTypeOK, Announcement, Once, OncePerArming,
              tables, tx, history
<1>4. CASE Begin
  BY <1>4 DEF Begin, EndCycle, AlertInv, Inv, TypeOK, AlertTypeOK, Announcement, Once,
              OncePerArming, tables, history
<1>5. CASE Commit
  BY <1>5 DEF Commit, vars, cycle, AlertInv, AlertTypeOK, Announcement, Once, OncePerArming,
              tx, history
<1>6. CASE Report
  BY <1>6, ReportKeeps
<1>7. CASE DieInSweep
  BY <1>7, ForgetKeeps DEF DieInSweep, Crash, AlertInv, AlertTypeOK
<1>8. CASE DieAfter
  BY <1>8, ForgetKeeps, CampaignAssumption DEF DieAfter, vars, cycle, AlertInv, AlertTypeOK
<1>9. ASSUME NEW c \in Clusters, Record(c)
      PROVE  AlertTypeOK' /\ Announcement' /\ Once' /\ OncePerArming'
  BY <1>9, RecordKeeps
<1>10. CASE UNCHANGED alertVars
  BY <1>10 DEF alertVars, vars, cycle, AlertInv, AlertTypeOK, Announcement, Once, OncePerArming,
               tables, tx, history
<1> QED
  BY <1>1, <1>2, <1>3, <1>4, <1>5, <1>6, <1>7, <1>8, <1>9, <1>10 DEF AlertNext

-----------------------------------------------------------------------------
LEMMA AlertInvariant == AlertSpec => []AlertInv
  BY AlertInitInv, AlertStepInv, PTL DEF AlertSpec

\* The tables, the transaction and the cycle's memory have their types
\* (record_alerts, _finish_cycle).
THEOREM AlertTypeCorrect == AlertSpec => []AlertTypeOK
<1>1. AlertInv => AlertTypeOK
  BY DEF AlertInv
<1> QED BY <1>1, AlertInvariant, PTL

\* No pair is reported twice, whatever dies between the commit of alert_state
\* and the report (record_alerts, watch).
THEOREM PairsReportedOnce == AlertSpec => []ReportedOnce
<1>1. AlertInv => ReportedOnce
  <2> SUFFICES ASSUME AlertInv, NEW q \in Packages \X BOOLEAN PROVE told[q] <= 1
    BY DEF ReportedOnce
  <2>1. told[q] \in Nat /\ told[q] <= IF q \in recorded THEN 1 ELSE 0
    BY DEF AlertInv, AlertTypeOK, Announcement
  <2> QED BY <2>1
<1> QED BY <1>1, AlertInvariant, PTL

\* One arming of a campaign has one alert (alert_refractory).
THEOREM OneAlertPerArming == AlertSpec => []OncePerArming
<1>1. AlertInv => OncePerArming
  BY DEF AlertInv
<1> QED BY <1>1, AlertInvariant, PTL

\* While nothing dies, a pair the transaction holds is reported or fresh, and
\* outside the report one the table holds is reported.
Heard ==
  deaths = 0 =>
    /\ \A p \in Packages : <<p, FALSE>> \in txRecorded =>
         told[<<p, FALSE>>] = 1 \/ \E a \in fresh : a[1] = p /\ a[2] = None
    /\ stage # "report" =>
         \A p \in Packages : <<p, FALSE>> \in recorded => told[<<p, FALSE>>] = 1

LEMMA HeardStep == AlertInv /\ Heard /\ [AlertNext]_alertVars => Heard'
<1> SUFFICES ASSUME AlertInv, Heard, [AlertNext]_alertVars PROVE Heard'
  OBVIOUS
<1>1. CASE Detect \/ Prime \/ Elsewhere \/ UNCHANGED alertVars
  <2>1. UNCHANGED <<recorded, txRecorded, fresh, told, deaths>> /\ (stage' # "report" => stage # "report")
    BY <1>1 DEF Detect, Prime, Elsewhere, alertVars, tables, tx, history
  <2> QED BY <2>1 DEF Heard
<1>2. CASE Begin
  BY <1>2 DEF Begin, AlertInv, Announcement, Heard, tables, history
<1>3. CASE Commit
  BY <1>3 DEF Commit, Heard, tx, history
<1>4. CASE Report
  <2> SUFFICES ASSUME deaths = 0, NEW p \in Packages, <<p, FALSE>> \in txRecorded
               PROVE  told'[<<p, FALSE>>] = 1
    BY <1>4 DEF Report, AlertInv, Announcement, Heard, tables
  <2>1. told'[<<p, FALSE>>] =
          told[<<p, FALSE>>] + IF \E a \in fresh : Pair(a[1], a[2]) = <<p, FALSE>> THEN 1 ELSE 0
    BY <1>4 DEF Report, AlertInv, AlertTypeOK
  <2>2. CASE \E a \in fresh : a[1] = p /\ a[2] = None
    <3>1. PICK a \in fresh : a[1] = p /\ a[2] = None
      BY <2>2
    <3>2. Pair(a[1], a[2]) = <<p, FALSE>>
      BY <3>1 DEF Pair
    <3>3. told[<<p, FALSE>>] = 0
      BY <3>2 DEF AlertInv, Announcement, Key
    <3>4. told'[<<p, FALSE>>] = told[<<p, FALSE>>] + 1
      BY <2>1, <3>2
    <3> QED BY <3>3, <3>4
  <2>3. CASE ~\E a \in fresh : a[1] = p /\ a[2] = None
    <3>1. told[<<p, FALSE>>] = 1
      BY <2>3 DEF Heard
    <3>2. ~\E a \in fresh : Pair(a[1], a[2]) = <<p, FALSE>>
      BY <2>3 DEF Pair
    <3> QED BY <2>1, <3>1, <3>2
  <2> QED BY <2>2, <2>3
<1>5. CASE DieInSweep
  BY <1>5 DEF DieInSweep, Forget, AlertInv, Announcement, Heard, tables
<1>6. CASE DieAfter
  <2>1. deaths \in Nat
    BY CampaignAssumption DEF AlertInv, AlertTypeOK
  <2> QED BY <1>6, <2>1 DEF DieAfter, Heard
<1>7. ASSUME NEW c \in Clusters, Record(c) PROVE Heard'
  <2> SUFFICES ASSUME deaths = 0, NEW p \in Packages, <<p, FALSE>> \in txRecorded'
               PROVE  told[<<p, FALSE>>] = 1 \/ \E a \in fresh' : a[1] = p /\ a[2] = None
    <3>1. UNCHANGED <<stage, recorded, told, deaths>>
      BY <1>7 DEF Record, tables, history
    <3> QED BY <3>1 DEF Heard
  <2>1. CASE <<p, FALSE>> \in txRecorded
    BY <1>7, <2>1 DEF Record, Heard
  <2>2. CASE <<p, FALSE>> \notin txRecorded
    <3>1. PICK q \in members[c] : <<p, FALSE>> = Pair(q, c)
      BY <1>7, <2>2 DEF Record
    <3>2. c = None /\ p \in members[c]
      BY <3>1 DEF Pair
    <3>3. fresh' = fresh \cup {<<r, c, Window(c)>> : r \in {r \in members[c] : Pair(r, c) \notin txRecorded}}
      BY <1>7, <3>2 DEF Record, Speakers
    <3>4. <<p, c, Window(c)>> \in fresh'
      BY <2>2, <3>2, <3>3 DEF Pair
    <3> QED BY <3>2, <3>4
  <2> QED BY <2>1, <2>2
<1> QED BY <1>1, <1>2, <1>3, <1>4, <1>5, <1>6, <1>7 DEF AlertNext

\* A recorded pair of a rule without campaigns was reported, or is about to
\* be, unless a cycle died in between (record_alerts, watch).
THEOREM RecordedPairsReported == AlertSpec => []RecordedIsReported
<1>1. AlertInit => Heard
  BY DEF AlertInit, Heard
<1>2. AlertInv /\ Heard => RecordedIsReported
  BY DEF AlertInv, Announcement, Heard, RecordedIsReported
<1> QED BY <1>1, <1>2, HeardStep, AlertInvariant, PTL DEF AlertSpec

\* The composition implements CampaignState, so what is proved of campaigns
\* on their own holds when record_alerts reads their rows.
THEOREM CampaignsSimulated == AlertSpec => Spec
<1>1. AlertInit => Init
  BY DEF AlertInit
<1> QED BY <1>1, StepSimulates, PTL DEF AlertSpec, Spec

\* Its part of the lapse report holds in the whole cycle
\* (_report_expired_campaigns).
THEOREM LapseNamedOnceInCycle == AlertSpec => []NamedOnce
  BY CampaignsSimulated, LapseNamedOnce, PTL
=============================================================================
