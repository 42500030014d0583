-------------------------- MODULE CloneCache_proofs --------------------------
(***************************************************************************)
(* The clone's directory and the transfer budget, for any number of        *)
(* callers, pushes and killed children, any ceiling and any budget.        *)
(***************************************************************************)
EXTENDS CloneCache, TLAPS

\* Nobody knows of a revision that is still to come, nor of a time that no
\* clock shows.
Past ==
  /\ dir.marker <= aur + Skew
  /\ \A c \in Callers : seen[c] <= aur

Before == {"idle", "looking", "removing", "creating"}

\* A call whose transfer nothing was pushed during has read the newest.
Newest ==
  /\ \A c \in Callers : pc[c] \in Transfers /\ clean[c] => seen[c] = aur
  /\ \A c \in Callers : pc[c] \in Before => clean[c]

\* A clone that hides nothing: its marker is newer than its HEAD by the clock's
\* error at most, and a call about to write one has found the newest revision.
Told ==
  dir.st = "whole" /\ dir.clean =>
    /\ dir.marker <= dir.head + Skew
    /\ \A c \in Callers : pc[c] = "marking" /\ held[c] /\ clean[c] => dir.head = aur

\* A whole clone has a commit, and a transfer brings one.
Headed ==
  /\ dir.st = "whole" => dir.head \in Revs
  /\ \A c \in Callers : pc[c] \in {"cloning", "fetching"} => seen[c] \in Revs

\* A directory is made by one clone at a time.
Sole ==
  \A c, d \in Callers :
    held[c] /\ held[d] /\ pc[c] = "cloning" /\ pc[d] = "cloning" => c = d

CloneInv ==
  /\ TypeOK /\ Past /\ Newest /\ Headed /\ Told /\ Sole
  /\ AcceptedWithinBudget /\ DirectoryKept /\ StraysOverBudget

-----------------------------------------------------------------------------
LEMMA InitInv == Init => CloneInv
<1> SUFFICES ASSUME Init PROVE CloneInv
  OBVIOUS
<1>1. TypeOK
  <2>1. dir \in Dirs
    BY CloneAssumption DEF Init, Dirs, Absent
  <2>2. 1 \in Revs /\ 0 \in 0..MaxRev /\ 0 \in 0..Ceiling /\ 0 \in 0..(Budget + 1)
        /\ 0 \in 0..Budget /\ 0 \in 0..MaxFaults
    BY CloneAssumption DEF Revs
  <2>3. "idle" \in Places
    BY DEF Places
  <2> QED BY <2>1, <2>2, <2>3 DEF Init, TypeOK
<1>2. Past /\ Newest /\ Headed /\ Told /\ Sole
  BY CloneAssumption DEF Init, Past, Newest, Headed, Told, Sole, Absent, Before, Transfers
<1>3. AcceptedWithinBudget /\ DirectoryKept /\ StraysOverBudget
  BY CloneAssumption DEF Init, AcceptedWithinBudget, DirectoryKept, StraysOverBudget
<1> QED BY <1>1, <1>2, <1>3 DEF CloneInv

\* What a charge does: it saturates, never falls, and within the budget it is
\* exact.
LEMMA ChargedRange ==
  ASSUME TypeOK, NEW n \in 0..Ceiling
  PROVE  /\ Charged(n) \in 0..(Budget + 1)
         /\ Charged(n) >= spent
         /\ Charged(n) <= Budget => Charged(n) = spent + n
<1>1. spent \in 0..(Budget + 1) /\ Budget \in Nat /\ Ceiling \in Nat
  BY CloneAssumption DEF TypeOK
<1> QED BY <1>1 DEF Charged, Least

\* The end of a call keeps the types of what it knew.
LEMMA LeaveTypes ==
  ASSUME TypeOK, NEW c \in Callers, Leave(c)
  PROVE  /\ pc' \in [Callers -> Places]
         /\ hint' \in [Callers -> {NoHint} \cup Times]
         /\ seen' \in [Callers -> 0..MaxRev]
         /\ held' \in [Callers -> BOOLEAN]
         /\ clean' \in [Callers -> BOOLEAN]
         /\ got' \in [Callers -> 0..Ceiling]
<1>1. 0 \in 0..MaxRev /\ 0 \in 0..Ceiling
  BY CloneAssumption
<1>2. pc' \in [Callers -> Places] /\ hint' \in [Callers -> {NoHint} \cup Times]
  BY DEF Leave, TypeOK, Places
<1>3. seen' \in [Callers -> 0..MaxRev] /\ got' \in [Callers -> 0..Ceiling]
  BY <1>1 DEF Leave, TypeOK
<1>4. held' \in [Callers -> BOOLEAN] /\ clean' \in [Callers -> BOOLEAN]
  BY DEF Leave, TypeOK
<1> QED BY <1>2, <1>3, <1>4

\* The hint is dropped once the child has decided.
LEMMA DecidedType ==
  ASSUME TypeOK, NEW c \in Callers, Decided(c)
  PROVE  hint' \in [Callers -> {NoHint} \cup Times]
BY DEF Decided, TypeOK

LEMMA DirTypes == Absent \in Dirs /\ Partial \in Dirs
<1>1. MaxRev \in Nat
  BY CloneAssumption
<1>2. Absent \in Dirs
  BY <1>1 DEF Absent, Dirs
<1>3. Partial \in Dirs
  BY <1>2 DEF Partial, Dirs
<1> QED BY <1>2, <1>3

LEMMA TypeStep ==
  ASSUME TypeOK, AcceptedWithinBudget, Next
  PROVE  TypeOK'
<1> USE DEF Places, Working, Transfers
<1>0. aur \in 0..MaxRev /\ MaxRev \in Nat /\ Skew \in Nat /\ Ceiling \in Nat /\ Budget \in Nat /\ MaxFaults \in Nat
      /\ 0 \in 0..Ceiling
  BY CloneAssumption DEF TypeOK, Revs
<1>1. CASE Push
  <2>1. aur' \in Revs
    BY <1>0, <1>1 DEF Push, TypeOK, Revs
  <2>2. clean' \in [Callers -> BOOLEAN]
    BY <1>1 DEF Push, TypeOK
  <2> QED BY <1>1, <2>1, <2>2 DEF Push, TypeOK, books
<1>2. ASSUME NEW c \in Callers, Call(c) PROVE TypeOK'
  <2>1. \A m \in {NoHint} \cup 1..(aur + Skew) : m \in {NoHint} \cup Times
    BY <1>0 DEF Times
  <2>2. hint' \in [Callers -> {NoHint} \cup Times]
    BY <1>2, <2>1 DEF Call, TypeOK
  <2>3. pc' \in [Callers -> Places]
    BY <1>2 DEF Call, TypeOK
  <2> QED BY <1>2, <2>2, <2>3 DEF Call, TypeOK, books
<1>3. ASSUME NEW c \in Callers, LookAbsent(c) \/ LookPartial(c) PROVE TypeOK'
  BY <1>3, DecidedType DEF LookAbsent, LookPartial, TypeOK, books
<1>4. ASSUME NEW c \in Callers, LookCurrent(c) \/ FetchLost(c) PROVE TypeOK'
  <2>1. hint' \in [Callers -> {NoHint} \cup Times]
    BY <1>4, DecidedType DEF LookCurrent, FetchLost, TypeOK
  <2> QED BY <1>0, <1>4, <2>1 DEF LookCurrent, FetchLost, Answer, TypeOK, books
<1>5. ASSUME NEW c \in Callers, LookBehind(c) PROVE TypeOK'
  <2>1. hint' \in [Callers -> {NoHint} \cup Times]
    BY <1>5, DecidedType DEF LookBehind
  <2> QED BY <1>0, <1>5, <2>1 DEF LookBehind, TypeOK, books
<1>6. ASSUME NEW c \in Callers, RemoveSome(c) \/ Remove(c) PROVE TypeOK'
  BY <1>6, DirTypes DEF RemoveSome, Remove, Unlink, TypeOK, books
<1>7. ASSUME NEW c \in Callers, Create(c) PROVE TypeOK'
  BY <1>0, <1>7, DirTypes DEF Create, TypeOK, books
<1>8. ASSUME NEW c \in Callers, CloneDone(c) PROVE TypeOK'
  <2>1. dir' \in Dirs
    BY <1>0, <1>8 DEF CloneDone, Dirs, TypeOK
  <2> QED BY <1>8, <2>1 DEF CloneDone, Answer, TypeOK, books
<1>9. ASSUME NEW c \in Callers, CloneLost(c) PROVE TypeOK'
  BY <1>9, DirTypes DEF CloneLost, Answer, Unlink, TypeOK, books
<1>10. ASSUME NEW c \in Callers, FetchDone(c) PROVE TypeOK'
  <2>1. \A h \in {seen[c], dir.head} : h \in 0..MaxRev
    BY DEF Dirs, TypeOK
  <2>2. clean[c] \in BOOLEAN
    BY DEF TypeOK
  <2>3. dir' \in Dirs
    BY <1>10, <2>1, <2>2 DEF FetchDone, Dirs, TypeOK
  <2> QED BY <1>10, <2>3 DEF FetchDone, Answer, TypeOK, books
<1>11. ASSUME NEW c \in Callers, Mark(c) PROVE TypeOK'
  <2>1. dir' \in Dirs
    <3>1. \A t \in Now \cup {0, dir.marker} : t \in {0} \cup Times
      BY DEF Now, Dirs, TypeOK
    <3> QED BY <1>11, <3>1 DEF Mark, Dirs, TypeOK
  <2>2. pc' \in [Callers -> Places] /\ got' \in [Callers -> 0..Ceiling]
    BY <1>0, <1>11 DEF Mark, Answer, TypeOK
  <2> QED BY <1>11, <2>1, <2>2 DEF Mark, TypeOK, books
<1>12. ASSUME NEW c \in Callers, Unavailable(c) PROVE TypeOK'
  <2>1. faults' \in 0..MaxFaults
    BY <1>0, <1>12 DEF Unavailable, TypeOK
  <2> QED BY <1>12, <2>1, LeaveTypes DEF Unavailable, TypeOK, books
<1>13. ASSUME NEW c \in Callers, ChargeError(c) \/ Refuse(c) PROVE TypeOK'
  <2>1. got[c] \in 0..Ceiling
    BY DEF TypeOK
  <2>2. spent' \in 0..(Budget + 1)
    BY <1>13, <2>1, ChargedRange DEF ChargeError, Refuse
  <2>3. strayed' \in BOOLEAN
    BY <1>13 DEF ChargeError, Refuse, TypeOK
  <2>4. Leave(c) /\ UNCHANGED <<aur, dir, accepted, faults>>
    BY <1>13 DEF ChargeError, Refuse
  <2> QED BY <2>2, <2>3, <2>4, LeaveTypes DEF TypeOK
<1>14. ASSUME NEW c \in Callers, Accept(c) PROVE TypeOK'
  <2>1. got[c] \in 0..Ceiling
    BY DEF TypeOK
  <2>2. spent' \in 0..(Budget + 1)
    BY <1>14, <2>1, ChargedRange DEF Accept, TypeOK
  <2>3. accepted' \in 0..Budget
    <3>1. accepted \in 0..Budget /\ spent \in 0..(Budget + 1) /\ accepted <= spent
      BY DEF TypeOK, AcceptedWithinBudget
    <3>2. got[c] = 0 \/ spent + got[c] <= Budget
      BY <1>14, <2>1, ChargedRange DEF Accept
    <3> QED BY <1>0, <1>14, <2>1, <3>1, <3>2 DEF Accept
  <2> QED BY <1>14, <2>2, <2>3 DEF Accept, TypeOK
<1>15. ASSUME NEW c \in Callers, Close(c) PROVE TypeOK'
  BY <1>15, LeaveTypes DEF Close, TypeOK, books
<1> QED
  BY <1>1, <1>2, <1>3, <1>4, <1>5, <1>6, <1>7, <1>8, <1>9, <1>10, <1>11, <1>12, <1>13, <1>14, <1>15
  DEF Next, Work, Look, Transfer, Settle

\* The books: what is accepted is charged first, and a child is only left
\* open over the budget.
LEMMA BooksStep ==
  ASSUME TypeOK, AcceptedWithinBudget, StraysOverBudget, Next
  PROVE  AcceptedWithinBudget' /\ StraysOverBudget'
<1>0. /\ accepted \in 0..Budget /\ spent \in 0..(Budget + 1) /\ Budget \in Nat
      /\ \A c \in Callers : got[c] \in 0..Ceiling
  BY CloneAssumption DEF TypeOK
<1>1. ASSUME NEW c \in Callers, Accept(c)
      PROVE  AcceptedWithinBudget' /\ StraysOverBudget'
  <2>1. got[c] = 0 \/ (Charged(got[c]) = spent + got[c] /\ Charged(got[c]) <= Budget)
    BY <1>0, <1>1, ChargedRange DEF Accept
  <2>2. spent' = spent + got[c] /\ accepted' = accepted + got[c] /\ strayed' = strayed
    BY <1>0, <1>1, <2>1 DEF Accept
  <2>3. got[c] \in Nat
    BY <1>0
  <2> QED BY <1>0, <2>1, <2>2, <2>3 DEF AcceptedWithinBudget, StraysOverBudget
<1>2. ASSUME NEW c \in Callers, ChargeError(c)
      PROVE  AcceptedWithinBudget' /\ StraysOverBudget'
  <2>1. spent' >= spent /\ spent' \in Nat /\ accepted' = accepted /\ strayed' = strayed
    BY <1>0, <1>2, ChargedRange DEF ChargeError
  <2> QED BY <1>0, <2>1 DEF AcceptedWithinBudget, StraysOverBudget
<1>3. ASSUME NEW c \in Callers, Refuse(c)
      PROVE  AcceptedWithinBudget' /\ StraysOverBudget'
  <2>1. spent' >= spent /\ spent' \in Nat /\ spent' > Budget /\ accepted' = accepted
    BY <1>0, <1>3, ChargedRange DEF Refuse
  <2> QED BY <1>0, <2>1 DEF AcceptedWithinBudget, StraysOverBudget
<1>4. CASE UNCHANGED books
  BY <1>4 DEF books, AcceptedWithinBudget, StraysOverBudget
<1>5. \/ UNCHANGED books
      \/ \E c \in Callers : Accept(c) \/ ChargeError(c) \/ Refuse(c)
  BY DEF Next, Work, Look, Transfer, Settle, Push, Call, LookAbsent, LookPartial, LookCurrent, LookBehind,
         RemoveSome, Remove, Create, CloneDone, CloneLost, FetchDone, FetchLost, Mark, Unavailable, Close
<1> QED BY <1>1, <1>2, <1>3, <1>4, <1>5

\* The directory: who holds it finds it as it left it, and only one clones.
LEMMA DirStep ==
  ASSUME TypeOK, Sole, DirectoryKept, Next
  PROVE  Sole' /\ DirectoryKept'
<1>1. ASSUME UNCHANGED dir, NEW c \in Callers,
             \A d \in Callers : d # c => held'[d] = held[d] /\ pc'[d] = pc[d],
             held'[c] => pc'[c] # "cloning" /\ dir.st = "whole"
      PROVE  Sole' /\ DirectoryKept'
  BY <1>1 DEF Sole, DirectoryKept
<1>2. ASSUME \A c \in Callers : ~held'[c]
      PROVE  Sole' /\ DirectoryKept'
  BY <1>2 DEF Sole, DirectoryKept
<1>3. CASE Push
  BY <1>3 DEF Push, Sole, DirectoryKept
<1>4. ASSUME NEW c \in Callers,
             Call(c) \/ LookAbsent(c) \/ LookPartial(c) \/ LookCurrent(c) \/ Accept(c)
      PROVE  Sole' /\ DirectoryKept'
  <2>1. UNCHANGED <<dir, held>> /\ pc[c] # "cloning" /\ pc'[c] # "cloning"
        /\ \A d \in Callers : d # c => pc'[d] = pc[d]
    BY <1>4 DEF Call, LookAbsent, LookPartial, LookCurrent, Answer, Accept, TypeOK
  <2> QED BY <1>1, <2>1 DEF DirectoryKept
<1>5. ASSUME NEW c \in Callers, LookBehind(c)
      PROVE  Sole' /\ DirectoryKept'
  BY <1>1, <1>5 DEF LookBehind, TypeOK
<1>6. ASSUME NEW c \in Callers, RemoveSome(c) \/ Remove(c) \/ CloneLost(c)
      PROVE  Sole' /\ DirectoryKept'
  BY <1>2, <1>6 DEF RemoveSome, Remove, CloneLost, Unlink
<1>7. ASSUME NEW c \in Callers, Create(c)
      PROVE  Sole' /\ DirectoryKept'
  <2>1. CASE dir.st = "absent"
    <3>1. \A d \in Callers : ~held[d]
      BY <2>1 DEF DirectoryKept
    <3>2. \A d \in Callers : held'[d] => d = c
      BY <1>7, <2>1, <3>1 DEF Create, TypeOK
    <3>3. dir'.st = "partial" /\ pc'[c] = "cloning"
      BY <1>7, <2>1 DEF Create, TypeOK, Partial, Absent
    <3> QED BY <3>2, <3>3 DEF Sole, DirectoryKept
  <2>2. CASE dir.st # "absent"
    <3>1. UNCHANGED <<dir, held>> /\ pc[c] # "cloning" /\ pc'[c] # "cloning"
          /\ \A d \in Callers : d # c => pc'[d] = pc[d]
      BY <1>7, <2>2 DEF Create, TypeOK
    <3> QED BY <1>1, <3>1 DEF DirectoryKept
  <2> QED BY <2>1, <2>2
<1>8. ASSUME NEW c \in Callers, CloneDone(c)
      PROVE  Sole' /\ DirectoryKept'
  <2>1. pc[c] = "cloning" /\ held[c] /\ dir.st = "partial" /\ held' = held /\ dir'.st = "whole"
    BY <1>8 DEF CloneDone, DirectoryKept
  <2>2. \A d \in Callers : held[d] => d = c
    BY <2>1 DEF Sole, DirectoryKept
  <2>3. pc'[c] = "marking"
    BY <1>8 DEF CloneDone, Answer, TypeOK
  <2> QED BY <2>1, <2>2, <2>3 DEF Sole, DirectoryKept
<1>9. ASSUME NEW c \in Callers, FetchDone(c) \/ FetchLost(c) \/ Mark(c)
      PROVE  Sole' /\ DirectoryKept'
  <2>1. dir'.st = dir.st /\ held' = held /\ pc[c] # "cloning" /\ pc'[c] # "cloning"
    BY <1>9 DEF FetchDone, FetchLost, Mark, Answer, TypeOK, Dirs
  <2>2. \A d \in Callers : d # c => pc'[d] = pc[d]
    BY <1>9 DEF FetchDone, FetchLost, Mark, Answer, TypeOK
  <2> QED BY <2>1, <2>2 DEF Sole, DirectoryKept
<1>10. ASSUME NEW c \in Callers, Leave(c), UNCHANGED dir
       PROVE  Sole' /\ DirectoryKept'
  <2>1. ~held'[c] /\ \A d \in Callers : d # c => held'[d] = held[d] /\ pc'[d] = pc[d]
    BY <1>10 DEF Leave, TypeOK
  <2> QED BY <1>1, <1>10, <2>1
<1>11. ASSUME NEW c \in Callers, Unavailable(c) \/ ChargeError(c) \/ Refuse(c) \/ Close(c)
       PROVE  Sole' /\ DirectoryKept'
  BY <1>10, <1>11 DEF Unavailable, ChargeError, Refuse, Close
<1> QED BY <1>3, <1>4, <1>5, <1>6, <1>7, <1>8, <1>9, <1>11 DEF Next, Work, Look, Transfer, Settle

\* What is known of the AUR.
LEMMA PastStep ==
  ASSUME TypeOK, Past, Newest, Next
  PROVE  Past' /\ Newest'
<1>0. /\ aur \in Nat /\ aur >= 1 /\ Skew \in Nat /\ dir.marker \in Nat
      /\ \A c \in Callers : seen[c] \in Nat
  BY CloneAssumption DEF TypeOK, Revs, Dirs, Times
<1>1. CASE Push
  <2>1. aur' = aur + 1
    BY <1>1 DEF Push
  <2>2. \A c \in Callers : pc[c] \in Transfers => ~clean'[c]
    BY <1>1 DEF Push
  <2>3. \A c \in Callers : pc[c] \in Before => clean'[c] = clean[c]
    BY <1>1 DEF Push, Before, Transfers, TypeOK
  <2> QED BY <1>0, <1>1, <2>1, <2>2, <2>3 DEF Push, Past, Newest
<1>2. ASSUME aur' = aur, UNCHANGED dir, NEW c \in Callers,
             \A d \in Callers : d # c => seen'[d] = seen[d] /\ clean'[d] = clean[d] /\ pc'[d] = pc[d],
             seen'[c] <= aur,
             pc'[c] \in Transfers /\ clean'[c] => seen'[c] = aur,
             pc'[c] \in Before => clean'[c]
      PROVE  Past' /\ Newest'
  BY <1>2 DEF Past, Newest
<1>3. ASSUME aur' = aur, dir'.marker <= aur + Skew, NEW c \in Callers,
             \A d \in Callers : d # c => pc'[d] = pc[d],
             UNCHANGED <<seen, clean>>,
             pc'[c] \in Transfers => pc[c] \in Transfers,
             pc'[c] \in Before => pc[c] \in Before
      PROVE  Past' /\ Newest'
  BY <1>3 DEF Past, Newest
<1>4. ASSUME NEW c \in Callers,
             Call(c) \/ LookAbsent(c) \/ LookPartial(c) \/ LookCurrent(c) \/ Accept(c)
               \/ FetchLost(c) \/ RemoveSome(c) \/ Remove(c)
      PROVE  Past' /\ Newest'
  <2>1. aur' = aur /\ UNCHANGED <<seen, clean>> /\ (dir' = dir \/ dir' = Partial \/ dir' = Absent)
    BY <1>4 DEF Call, LookAbsent, LookPartial, LookCurrent, Accept, FetchLost, RemoveSome, Remove, Unlink
  <2>2. dir'.marker <= aur + Skew
    BY <1>0, <2>1 DEF Past, Partial, Absent
  <2>3. \A d \in Callers : d # c => pc'[d] = pc[d]
    BY <1>4 DEF Call, LookAbsent, LookPartial, LookCurrent, Accept, FetchLost, RemoveSome, Remove, Answer, TypeOK
  <2>4. pc'[c] \notin Transfers /\ (pc'[c] \in Before => pc[c] \in Before)
    BY <1>4 DEF Call, LookAbsent, LookPartial, LookCurrent, Accept, FetchLost, RemoveSome, Remove, Answer,
                TypeOK, Transfers, Before
  <2> QED BY <1>3, <2>1, <2>2, <2>3, <2>4
<1>5. ASSUME NEW c \in Callers, LookBehind(c) PROVE Past' /\ Newest'
  <2>1. seen'[c] = aur /\ pc'[c] = "fetching" /\ UNCHANGED <<aur, dir, clean>>
        /\ \A d \in Callers : d # c => seen'[d] = seen[d] /\ pc'[d] = pc[d]
    BY <1>5 DEF LookBehind, TypeOK
  <2>2. pc'[c] \notin Before
    BY <2>1 DEF Before
  <2> QED BY <1>0, <1>2, <2>1, <2>2
<1>6. ASSUME NEW c \in Callers, Create(c) PROVE Past' /\ Newest'
  <2>1. CASE dir.st = "absent"
    <3>1. seen'[c] = aur /\ pc'[c] = "cloning" /\ dir'.marker = 0 /\ UNCHANGED <<aur, clean>>
          /\ \A d \in Callers : d # c => seen'[d] = seen[d] /\ pc'[d] = pc[d]
      BY <1>6, <2>1 DEF Create, TypeOK, Partial, Absent
    <3>2. pc'[c] \notin Before
      BY <3>1 DEF Before
    <3> QED BY <1>0, <3>1, <3>2 DEF Past, Newest
  <2>2. CASE dir.st # "absent"
    <3>1. UNCHANGED <<aur, dir, seen, clean>> /\ pc'[c] = "erred"
          /\ \A d \in Callers : d # c => pc'[d] = pc[d]
      BY <1>6, <2>2 DEF Create, TypeOK
    <3> QED BY <1>3, <3>1 DEF Past, Transfers, Before
  <2> QED BY <2>1, <2>2
<1>7. ASSUME NEW c \in Callers, CloneDone(c) \/ FetchDone(c) \/ CloneLost(c) \/ Mark(c)
      PROVE  Past' /\ Newest'
  <2>1. UNCHANGED <<aur, seen, clean>> /\ \A d \in Callers : d # c => pc'[d] = pc[d]
    BY <1>7 DEF CloneDone, FetchDone, CloneLost, Mark, Answer, TypeOK
  <2>2. pc[c] \in Transfers /\ pc'[c] \notin Before
    BY <1>7 DEF CloneDone, FetchDone, CloneLost, Mark, Answer, TypeOK, Transfers, Before
  <2>3. dir'.marker \in {0, dir.marker} \cup Now
    <3>1. CASE CloneDone(c) \/ CloneLost(c)
      BY <3>1 DEF CloneDone, CloneLost, Unlink, Absent
    <3>2. CASE FetchDone(c)
      BY <3>2 DEF FetchDone, TypeOK, Dirs
    <3>3. CASE Mark(c)
      BY <3>3 DEF Mark, TypeOK, Dirs
    <3> QED BY <1>7, <3>1, <3>2, <3>3
  <2>4. dir'.marker <= aur + Skew
    BY <1>0, <2>3 DEF Past, Now
  <2> QED BY <1>3, <2>1, <2>2, <2>4
<1>8. ASSUME NEW c \in Callers, Leave(c), UNCHANGED <<aur, dir>>
      PROVE  Past' /\ Newest'
  <2>1. seen'[c] = 0 /\ clean'[c] /\ pc'[c] = "idle"
        /\ \A d \in Callers : d # c => seen'[d] = seen[d] /\ clean'[d] = clean[d] /\ pc'[d] = pc[d]
    BY <1>8 DEF Leave, TypeOK
  <2>2. pc'[c] \notin Transfers
    BY <2>1 DEF Transfers
  <2> QED BY <1>0, <1>2, <1>8, <2>1, <2>2
<1>9. ASSUME NEW c \in Callers, Unavailable(c) \/ ChargeError(c) \/ Refuse(c) \/ Close(c)
      PROVE  Past' /\ Newest'
  BY <1>8, <1>9 DEF Unavailable, ChargeError, Refuse, Close
<1> QED BY <1>1, <1>4, <1>5, <1>6, <1>7, <1>9 DEF Next, Work, Look, Transfer, Settle

\* What a marker and a HEAD hide.
LEMMA ToldStep ==
  ASSUME TypeOK, Past, Newest, Told, Sole, DirectoryKept, Next
  PROVE  Told'
<1>0. aur \in Nat /\ Skew \in Nat /\ dir.marker \in Nat /\ dir.head \in Nat
      /\ \A c \in Callers : seen[c] \in Nat
  BY CloneAssumption DEF TypeOK, Revs, Dirs, Times
<1>1. ASSUME UNCHANGED <<aur, dir>>, NEW c \in Callers,
             \A d \in Callers : d # c => held'[d] = held[d] /\ clean'[d] = clean[d] /\ pc'[d] = pc[d],
             pc'[c] # "marking"
      PROVE  Told'
  BY <1>1 DEF Told
<1>2. ASSUME dir'.st # "whole" PROVE Told'
  BY <1>2 DEF Told
<1>3. CASE Push
  <2>1. \A c \in Callers : pc[c] = "marking" => ~clean'[c]
    BY <1>3 DEF Push, Transfers
  <2> QED BY <1>3, <2>1 DEF Push, Told
<1>4. ASSUME NEW c \in Callers,
             Call(c) \/ LookAbsent(c) \/ LookPartial(c) \/ LookCurrent(c) \/ LookBehind(c)
               \/ FetchLost(c) \/ Accept(c)
      PROVE  Told'
  <2>1. UNCHANGED <<aur, dir, clean>> /\ \A d \in Callers : d # c => held'[d] = held[d] /\ pc'[d] = pc[d]
    BY <1>4 DEF Call, LookAbsent, LookPartial, LookCurrent, LookBehind, FetchLost, Accept, Answer, TypeOK
  <2>2. pc'[c] # "marking"
    BY <1>4 DEF Call, LookAbsent, LookPartial, LookCurrent, LookBehind, FetchLost, Accept, Answer, TypeOK
  <2> QED BY <1>1, <2>1, <2>2
<1>5. ASSUME NEW c \in Callers, RemoveSome(c) \/ Remove(c) \/ CloneLost(c) PROVE Told'
  BY <1>2, <1>5 DEF RemoveSome, Remove, CloneLost, Unlink, Partial, Absent
<1>6. ASSUME NEW c \in Callers, Create(c) PROVE Told'
  <2>1. CASE dir.st = "absent"
    BY <1>2, <1>6, <2>1 DEF Create, Partial, Absent
  <2>2. CASE dir.st # "absent"
    <3>1. UNCHANGED <<aur, dir, held, clean>> /\ pc'[c] = "erred"
          /\ \A d \in Callers : d # c => pc'[d] = pc[d]
      BY <1>6, <2>2 DEF Create, TypeOK
    <3> QED BY <1>1, <3>1
  <2> QED BY <2>1, <2>2
<1>7. ASSUME NEW c \in Callers, CloneDone(c) PROVE Told'
  <2>1. pc[c] = "cloning" /\ held[c] /\ held' = held /\ UNCHANGED <<aur, clean>>
        /\ dir'.head = seen[c] /\ dir'.marker = 0 /\ dir'.clean = clean[c]
    BY <1>7 DEF CloneDone
  <2>2. \A d \in Callers : held[d] => d = c
    BY <2>1 DEF Sole, DirectoryKept
  <2>3. clean[c] => seen[c] = aur
    BY <2>1 DEF Newest, Transfers
  <2> QED BY <1>0, <2>1, <2>2, <2>3 DEF Told
<1>8. ASSUME NEW c \in Callers, FetchDone(c) PROVE Told'
  <2>1. pc[c] = "fetching" /\ UNCHANGED <<aur, clean>> /\ dir'.marker = dir.marker
        /\ (dir'.clean => clean[c] /\ dir'.head = seen[c])
    BY <1>8 DEF FetchDone, TypeOK, Dirs
  <2>2. clean[c] => seen[c] = aur
    BY <2>1 DEF Newest, Transfers
  <2> QED BY <1>0, <2>1, <2>2 DEF Told, Past
<1>9. ASSUME NEW c \in Callers, Mark(c) PROVE Told'
  <2>1. pc[c] = "marking" /\ UNCHANGED <<aur, held, clean>> /\ pc'[c] # "marking"
        /\ \A d \in Callers : d # c => pc'[d] = pc[d]
    BY <1>9 DEF Mark, Answer, TypeOK
  <2>2. CASE held[c]
    <3>1. dir'.st = dir.st /\ dir'.head = dir.head /\ dir'.marker \in Now \cup {0, dir.marker}
      BY <1>9, <2>2 DEF Mark, TypeOK, Dirs
    <3>2. dir'.clean => dir.clean /\ clean[c]
      BY <1>9, <2>2 DEF Mark, TypeOK, Dirs
    <3>3. dir'.st = "whole" /\ dir'.clean => dir.head = aur
      BY <2>1, <2>2, <3>1, <3>2 DEF Told
    <3>4. dir'.marker <= aur + Skew
      BY <1>0, <3>1 DEF Past, Now
    <3> QED BY <1>0, <2>1, <3>1, <3>3, <3>4 DEF Told
  <2>3. CASE ~held[c]
    BY <1>1, <1>9, <2>1, <2>3 DEF Mark
  <2> QED BY <2>2, <2>3
<1>10. ASSUME NEW c \in Callers, Leave(c), UNCHANGED <<aur, dir>> PROVE Told'
  <2>1. pc'[c] = "idle"
        /\ \A d \in Callers : d # c => held'[d] = held[d] /\ clean'[d] = clean[d] /\ pc'[d] = pc[d]
    BY <1>10 DEF Leave, TypeOK
  <2> QED BY <1>1, <1>10, <2>1
<1>11. ASSUME NEW c \in Callers, Unavailable(c) \/ ChargeError(c) \/ Refuse(c) \/ Close(c)
       PROVE  Told'
  BY <1>10, <1>11 DEF Unavailable, ChargeError, Refuse, Close
<1> QED BY <1>3, <1>4, <1>5, <1>6, <1>7, <1>8, <1>9, <1>11 DEF Next, Work, Look, Transfer, Settle

\* A whole clone has a commit.
LEMMA HeadedStep ==
  ASSUME TypeOK, Headed, DirectoryKept, Next
  PROVE  Headed'
<1>0. aur \in Revs /\ Revs' = Revs
  BY DEF TypeOK, Revs
<1>1. ASSUME dir' = dir \/ dir'.st # "whole", NEW c \in Callers,
             \A d \in Callers : d # c => seen'[d] = seen[d] /\ pc'[d] = pc[d],
             pc'[c] \in {"cloning", "fetching"} => seen'[c] \in Revs
      PROVE  Headed'
  BY <1>0, <1>1 DEF Headed
<1>2. CASE Push
  BY <1>0, <1>2 DEF Push, Headed
<1>3. ASSUME NEW c \in Callers,
             Call(c) \/ LookAbsent(c) \/ LookPartial(c) \/ LookCurrent(c) \/ RemoveSome(c) \/ Remove(c)
               \/ CloneLost(c) \/ FetchLost(c) \/ Accept(c)
      PROVE  Headed'
  <2>1. seen' = seen /\ (dir' = dir \/ dir' = Partial \/ dir' = Absent)
    BY <1>3 DEF Call, LookAbsent, LookPartial, LookCurrent, RemoveSome, Remove, CloneLost, FetchLost, Accept,
                Unlink
  <2>2. pc'[c] \notin {"cloning", "fetching"} /\ \A d \in Callers : d # c => pc'[d] = pc[d]
    BY <1>3 DEF Call, LookAbsent, LookPartial, LookCurrent, RemoveSome, Remove, CloneLost, FetchLost, Accept,
                Answer, TypeOK
  <2> QED BY <1>1, <2>1, <2>2 DEF Partial, Absent
<1>4. ASSUME NEW c \in Callers, LookBehind(c) PROVE Headed'
  BY <1>0, <1>1, <1>4 DEF LookBehind, TypeOK
<1>5. ASSUME NEW c \in Callers, Create(c) PROVE Headed'
  BY <1>0, <1>1, <1>5 DEF Create, TypeOK, Partial, Absent
<1>6. ASSUME NEW c \in Callers, CloneDone(c) \/ FetchDone(c) \/ Mark(c) PROVE Headed'
  <2>1. seen' = seen /\ pc'[c] \notin {"cloning", "fetching"} /\ \A d \in Callers : d # c => pc'[d] = pc[d]
    BY <1>6 DEF CloneDone, FetchDone, Mark, Answer, TypeOK
  <2>2. dir'.st = "whole" => dir'.head \in Revs
    <3>1. CASE CloneDone(c)
      BY <3>1 DEF CloneDone, Headed
    <3>2. CASE FetchDone(c)
      <4>1. pc[c] = "fetching" /\ dir'.st = dir.st /\ dir'.head \in {seen[c], dir.head}
        BY <3>2 DEF FetchDone, TypeOK, Dirs
      <4> QED BY <4>1 DEF Headed
    <3>3. CASE Mark(c)
      BY <3>3 DEF Mark, TypeOK, Dirs, Headed
    <3> QED BY <1>6, <3>1, <3>2, <3>3
  <2> QED BY <1>0, <2>1, <2>2 DEF Headed
<1>7. ASSUME NEW c \in Callers, Unavailable(c) \/ ChargeError(c) \/ Refuse(c) \/ Close(c)
      PROVE  Headed'
  <2>1. Leave(c) /\ dir' = dir
    BY <1>7 DEF Unavailable, ChargeError, Refuse, Close
  <2>2. pc'[c] = "idle" /\ \A d \in Callers : d # c => seen'[d] = seen[d] /\ pc'[d] = pc[d]
    BY <2>1 DEF Leave, TypeOK
  <2> QED BY <1>1, <2>1, <2>2
<1> QED BY <1>2, <1>3, <1>4, <1>5, <1>6, <1>7 DEF Next, Work, Look, Transfer, Settle

-----------------------------------------------------------------------------
LEMMA StepInv == CloneInv /\ [Next]_vars => CloneInv'
<1>1. ASSUME CloneInv, Next PROVE CloneInv'
  BY <1>1, TypeStep, BooksStep, DirStep, PastStep, HeadedStep, ToldStep DEF CloneInv
<1>2. ASSUME CloneInv, UNCHANGED vars PROVE CloneInv'
  <2>1. TypeOK'
    BY <1>2 DEF CloneInv, TypeOK, vars, local, books
  <2>2. Past' /\ Newest' /\ Headed' /\ Told' /\ Sole'
    BY <1>2 DEF CloneInv, Past, Newest, Headed, Told, Sole, vars, local, books
  <2>3. AcceptedWithinBudget' /\ DirectoryKept' /\ StraysOverBudget'
    BY <1>2 DEF CloneInv, AcceptedWithinBudget, DirectoryKept, StraysOverBudget, vars, local, books
  <2> QED BY <2>1, <2>2, <2>3 DEF CloneInv
<1> QED BY <1>1, <1>2

\* The invariant holds at every step.
THEOREM InvHolds == Spec => []CloneInv
<1> QED BY InitInv, StepInv, PTL DEF Spec

\* The directory, the calls and the books keep their types.
THEOREM TypeCorrect == Spec => []TypeOK
<1>1. CloneInv => TypeOK
  BY DEF CloneInv
<1> QED BY <1>1, InvHolds, PTL

\* What was given to the projects of a run was charged and is within
\* MAX_TOTAL_TRANSFER_BYTES, for any number of threads (_charge_transfer).
THEOREM AcceptedIsWithinBudget == Spec => []AcceptedWithinBudget
<1>1. CloneInv => AcceptedWithinBudget
  BY DEF CloneInv
<1> QED BY <1>1, InvHolds, PTL

\* A clone or fetch that still holds its directory finds it as it left it,
\* however many callers remove and make it (_open_fetch).
THEOREM DirectoryIsKept == Spec => []DirectoryKept
<1>1. CloneInv => DirectoryKept
  BY DEF CloneInv
<1> QED BY <1>1, InvHolds, PTL

\* Only a transfer that went over the budget leaves a child to the
\* interpreter (clone_or_fetch).
THEOREM StraysAreOverBudget == Spec => []StraysOverBudget
<1>1. CloneInv => StraysOverBudget
  BY DEF CloneInv
<1> QED BY <1>1, InvHolds, PTL

\* A clone that is taken for current lacks what was pushed during the transfer
\* that set its HEAD or its marker, what a fetch left HEAD behind, what was
\* pushed within the clock's error and, once its marker is gone, what its
\* committer's date hides: nothing else, for any dates and any clock (_is_current).
THEOREM MissedIsForAReason == Spec => []MissedForAReason
<1>1. CloneInv => MissedForAReason
  <2> SUFFICES ASSUME CloneInv, dir.st = "whole", dir.clean,
                      dir.marker = 0 => CommitTime[dir.head] <= dir.head,
                      NEW m \in 1..aur, Current(m)
               PROVE  dir.head + Skew >= m
    BY DEF MissedForAReason
  <2>1. dir.marker \in Nat /\ dir.head \in Nat /\ m \in Nat /\ Skew \in Nat
    BY CloneAssumption DEF CloneInv, TypeOK, Revs, Dirs, Times
  <2>2. CASE dir.marker # 0
    BY <2>1, <2>2 DEF CloneInv, Told, Current
  <2>3. CASE dir.marker = 0
    <3>1. CommitTime[dir.head] \in Nat
      BY CloneAssumption DEF CloneInv, Headed, Revs
    <3> QED BY <2>1, <2>3, <3>1 DEF Current
  <2> QED BY <2>2, <2>3
<1> QED BY <1>1, InvHolds, PTL
=============================================================================
