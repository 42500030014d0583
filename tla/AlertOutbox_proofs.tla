------------------------- MODULE AlertOutbox_proofs -------------------------
(***************************************************************************)
(* The alert queue for any number of documents, any batch, any number of   *)
(* attempts and crashes: what leaves it as delivered was received, how     *)
(* often a document is sent is bounded, and every step is a step of        *)
(* AlertPromise or a stutter.                                              *)
(***************************************************************************)
EXTENDS AlertOutbox, TLAPS

Trying == {"ntfy", "feed", "attempt"}

\* What flush_outbox may rely on in the rows it works on, and what a row that
\* is not parked, or not there yet, looks like.
Places ==
  /\ row # None <=> pc \in Trying
  /\ row # None => row <= size /\ row \notin parked /\ row \notin batch
  /\ \A r \in batch : Pending(r)
  /\ \A r \in Rows : r \notin parked => attempts[r] < MaxAttempts
  /\ \A r \in Rows : r > size => delivered[r] = {} /\ r \notin parked

\* With one configuration a flag of a configured sink means it has the row.
Taken ==
  changes = 0 =>
    /\ \A r \in Rows : \A s \in configured : s \in delivered[r] => r \in received[s]
    /\ pc \in Trying \cup {"posting"} => sinks = configured
    /\ pc \in Trying => \A s \in Sinks :
         /\ answer[s] = "ok" => row \in received[s]
         /\ answer[s] = "off" /\ s \in sinks => s \in delivered[row]

Flags(r) == (IF "ntfy" \in delivered[r] THEN 1 ELSE 0) + (IF "feed" \in delivered[r] THEN 1 ELSE 0)

\* A round is paid for by an attempt, by a flag or by a crash; the round that
\* is going on is yet to be paid.
Paid(r) == rounds[r] <= crashes + attempts[r] + Flags(r)

Counted ==
  /\ \A r \in Rows : r # row => Paid(r)
  /\ pc \in Trying =>
       /\ rounds[row] <= crashes + attempts[row] + Flags(row) + 1
       /\ rounds[row] <= crashes + attempts[row] + 2
       /\ pc # "ntfy" /\ answer["ntfy"] = "ok" => Paid(row)
       /\ pc = "attempt" /\ answer["feed"] = "ok" => Paid(row)
       /\ pc = "ntfy" /\ answer["ntfy"] = "ok" => "ntfy" \notin delivered[row]
       /\ pc # "attempt" /\ answer["feed"] = "ok" => "feed" \notin delivered[row]

OutboxInv == TypeOK /\ Places /\ Taken /\ Counted /\ RoundsBounded

-----------------------------------------------------------------------------
LEMMA InitInv == Init => OutboxInv
<1> SUFFICES ASSUME Init PROVE OutboxInv
  OBVIOUS
<1>1. TypeOK
  BY OutboxAssumption DEF Init, TypeOK, Rows, Sinks, None, Off
<1>2. Places
  BY OutboxAssumption DEF Init, Places, Trying
<1>3. Taken
  BY DEF Init, Taken, Trying
<1>4. Counted /\ RoundsBounded
  BY OutboxAssumption DEF Init, Counted, Trying, Paid, Flags, RoundsBounded
<1> QED BY <1>1, <1>2, <1>3, <1>4 DEF OutboxInv

\* The row that is worked on.
LEMMA RowRange ==
  ASSUME TypeOK, Places, pc \in Trying
  PROVE  row \in Rows /\ row <= size /\ row \notin parked /\ attempts[row] < MaxAttempts
  BY DEF TypeOK, Places, Rows, None

LEMMA DuePending == \A r \in DueRows : r \in Rows /\ Pending(r)
  BY DEF DueRows

LEMMA TypeStep ==
  ASSUME TypeOK, Places, Next
  PROVE  TypeOK'
<1>1. CASE Notify
  BY <1>1, OutboxAssumption DEF Notify, TypeOK
<1>2. CASE Flush
  BY <1>2, DuePending DEF Flush, ReadBatch, TypeOK, table
<1>3. CASE Post
  <2>1. PICK r \in batch :
          /\ row' = r
          /\ batch' = batch \ {r}
          /\ answer' \in [Sinks -> {"off", "ok", "failed"}]
          /\ received' \in [Sinks -> SUBSET Rows]
          /\ rounds' \in [Rows -> Nat]
    BY <1>3 DEF Post, TypeOK
  <2> QED BY <1>3, <2>1 DEF Post, TypeOK, table
<1>4. CASE MarkNtfy \/ MarkFeed
  <2>1. PICK s \in Sinks : \E next \in {"feed", "attempt"} : Mark(s, next)
    BY <1>4 DEF MarkNtfy, MarkFeed, Sinks
  <2>2. row \in Rows
    BY <1>4, RowRange DEF MarkNtfy, MarkFeed, Mark, Trying
  <2>3. delivered' \in [Rows -> SUBSET Sinks]
    BY <2>1, <2>2 DEF Mark, TypeOK
  <2>4. due' \in [Rows -> BOOLEAN]
    BY <2>1, <2>2 DEF Mark, TypeOK
  <2> QED BY <2>1, <2>3, <2>4 DEF Mark, TypeOK
<1>5. CASE RoundOk
  <2>1. Off \in [Sinks -> {"off", "ok", "failed"}]
    BY DEF Off
  <2> QED BY <1>5, <2>1 DEF RoundOk, TypeOK, table
<1>6. CASE MarkAttempt
  <2>1. row \in Rows /\ attempts[row] < MaxAttempts
    BY <1>6, RowRange DEF MarkAttempt, Trying
  <2>2. attempts[row] + 1 \in 0..MaxAttempts
    BY <2>1, OutboxAssumption DEF TypeOK
  <2>3. attempts' \in [Rows -> 0..MaxAttempts]
    BY <1>6, <2>2 DEF MarkAttempt, TypeOK
  <2>4. parked' \in SUBSET Rows /\ due' \in [Rows -> BOOLEAN]
    BY <1>6, <2>1 DEF MarkAttempt, TypeOK
  <2> QED BY <1>6, <2>3, <2>4 DEF MarkAttempt, TypeOK, Off
<1>7. CASE EndFlush
  BY <1>7 DEF EndFlush, TypeOK, table
<1>8. CASE Crash
  BY <1>8, OutboxAssumption DEF Crash, TypeOK, table, Off
<1>9. CASE Configure
  BY <1>9, OutboxAssumption DEF Configure, TypeOK, table, flush
<1>10. CASE \E r \in Rows : ComesDue(r) \/ GrowsOld(r)
  BY <1>10 DEF ComesDue, GrowsOld, TypeOK, flush
<1> QED BY <1>1, <1>2, <1>3, <1>4, <1>5, <1>6, <1>7, <1>8, <1>9, <1>10 DEF Next, Work

LEMMA PlacesStep ==
  ASSUME TypeOK, Places, Next
  PROVE  Places'
<1>1. CASE Notify
  <2>1. pc' \notin Trying /\ pc \notin Trying /\ row' = row /\ batch' = batch
    BY <1>1 DEF Notify, Trying
  <2>2. \A r \in batch : Pending(r)'
    BY <1>1, OutboxAssumption DEF Notify, Places, Pending, Done, TypeOK, Rows
  <2>3. \A r \in Rows : r > size' => delivered'[r] = {} /\ r \notin parked'
    BY <1>1 DEF Notify, Places, TypeOK, Rows
  <2> QED BY <1>1, <2>1, <2>2, <2>3 DEF Notify, Places
<1>2. CASE Flush
  <2>1. \A r \in batch' : Pending(r)'
    BY <1>2, DuePending DEF Flush, ReadBatch, table, Pending, Done
  <2> QED BY <1>2, <2>1 DEF Flush, ReadBatch, table, Places, Trying
<1>3. CASE Post
  <2>1. PICK r \in batch : row' = r /\ batch' = batch \ {r}
    BY <1>3 DEF Post
  <2>2. r \in Rows /\ r # None /\ Pending(r)
    BY <2>1 DEF Places, TypeOK, Rows, None
  <2>3. \A q \in batch' : Pending(q)'
    BY <1>3, <2>1 DEF Post, table, Places, Pending, Done
  <2> QED BY <1>3, <2>1, <2>2, <2>3 DEF Post, table, Places, Pending, Trying
<1>4. CASE MarkNtfy \/ MarkFeed
  <2>1. row \in Rows /\ row <= size /\ row \notin batch
    BY <1>4, RowRange DEF MarkNtfy, MarkFeed, Mark, Trying, Places
  <2>2. \A r \in Rows : r # row => delivered'[r] = delivered[r]
    BY <1>4 DEF MarkNtfy, MarkFeed, Mark, TypeOK
  <2>3. \A r \in batch' : Pending(r)'
    BY <1>4, <2>1, <2>2 DEF MarkNtfy, MarkFeed, Mark, Places, Pending, Done, TypeOK
  <2>4. \A r \in Rows : r > size' => delivered'[r] = {} /\ r \notin parked'
    BY <1>4, <2>1, <2>2 DEF MarkNtfy, MarkFeed, Mark, Places, TypeOK, Rows
  <2> QED BY <1>4, <2>3, <2>4 DEF MarkNtfy, MarkFeed, Mark, Places, Trying
<1>5. CASE RoundOk
  BY <1>5 DEF RoundOk, table, Places, Trying, Pending, Done
<1>6. CASE MarkAttempt
  <2>1. row \in Rows /\ row <= size /\ attempts[row] < MaxAttempts /\ row \notin batch
    BY <1>6, RowRange DEF MarkAttempt, Trying, Places
  <2>2. \A r \in batch' : Pending(r)'
    BY <1>6, <2>1 DEF MarkAttempt, Places, Pending, Done
  <2>3. \A r \in Rows : r \notin parked' => attempts'[r] < MaxAttempts
    BY <1>6, <2>1, OutboxAssumption DEF MarkAttempt, Places, TypeOK
  <2>4. \A r \in Rows : r > size' => delivered'[r] = {} /\ r \notin parked'
    BY <1>6, <2>1 DEF MarkAttempt, Places, TypeOK, Rows
  <2> QED BY <1>6, <2>2, <2>3, <2>4 DEF MarkAttempt, Places, Trying
<1>7. CASE EndFlush
  BY <1>7 DEF EndFlush, table, Places, Trying, Pending, Done
<1>8. CASE Crash
  BY <1>8 DEF Crash, table, Places, Trying
<1>9. CASE Configure
  BY <1>9 DEF Configure, table, flush, Places, Trying, Pending, Done
<1>10. CASE \E r \in Rows : ComesDue(r) \/ GrowsOld(r)
  BY <1>10 DEF ComesDue, GrowsOld, flush, Places, Trying, Pending, Done
<1> QED BY <1>1, <1>2, <1>3, <1>4, <1>5, <1>6, <1>7, <1>8, <1>9, <1>10 DEF Next, Work

LEMMA TakenStep ==
  ASSUME TypeOK, Places, Taken, Next
  PROVE  Taken'
<1>1. CASE Notify
  BY <1>1 DEF Notify, Taken, Trying
<1>2. CASE Flush
  BY <1>2 DEF Flush, ReadBatch, table, Taken, Trying
<1>3. CASE Post
  <2> SUFFICES ASSUME changes = 0 PROVE Taken'
    BY <1>3 DEF Post, Taken
  <2>0. PICK r \in batch :
          /\ row' = r
          /\ \E ok \in SUBSET (sinks \ delivered[r]), took \in SUBSET (sinks \ delivered[r]) :
               /\ ok \subseteq took
               /\ answer' = [s \in Sinks |-> IF s \notin sinks \ delivered[r] THEN "off"
                                            ELSE IF s \in ok THEN "ok" ELSE "failed"]
               /\ received' = [s \in Sinks |-> IF s \in took THEN received[s] \cup {r}
                                              ELSE received[s]]
    BY <1>3 DEF Post
  <2>1. PICK ok \in SUBSET (sinks \ delivered[r]), took \in SUBSET (sinks \ delivered[r]) :
          /\ ok \subseteq took
          /\ answer' = [s \in Sinks |-> IF s \notin sinks \ delivered[r] THEN "off"
                                       ELSE IF s \in ok THEN "ok" ELSE "failed"]
          /\ received' = [s \in Sinks |-> IF s \in took THEN received[s] \cup {r} ELSE received[s]]
    BY <2>0
  <2>2. \A s \in Sinks : received[s] \subseteq received'[s]
    BY <2>1
  <2>3. \A q \in Rows : \A s \in configured' : s \in delivered'[q] => q \in received'[s]
    BY <1>3, <2>2 DEF Post, Taken, TypeOK, table
  <2>4. ASSUME NEW s \in Sinks
        PROVE  /\ answer'[s] = "ok" => row' \in received'[s]
               /\ answer'[s] = "off" /\ s \in sinks' => s \in delivered'[row']
    BY <1>3, <2>0, <2>1, <2>4 DEF Post, table
  <2>5. sinks' = configured'
    BY <1>3 DEF Post, Taken, Trying
  <2> QED BY <2>3, <2>4, <2>5 DEF Taken
<1>4. ASSUME NEW s \in Sinks, NEW next \in {"feed", "attempt"}, Mark(s, next)
      PROVE  Taken'
  <2> SUFFICES ASSUME changes = 0 PROVE Taken'
    BY <1>4 DEF Mark, Taken
  <2>1. pc \in Trying /\ row \in Rows /\ sinks = configured
    BY <1>4, RowRange DEF Mark, Trying, Taken, Sinks
  <2>2. \A r \in Rows : delivered[r] \subseteq delivered'[r]
    BY <1>4, <2>1 DEF Mark, TypeOK
  <2>3. \A r \in Rows : \A q \in delivered'[r] : q \notin delivered[r] => r = row /\ q = s /\ answer[s] # "failed"
    BY <1>4, <2>1 DEF Mark, TypeOK
  <2>4. answer[s] # "failed" /\ s \in sinks => row \in received[s]
    BY <2>1 DEF Taken, TypeOK
  <2>5. \A r \in Rows : \A q \in configured : q \in delivered'[r] => r \in received[q]
    BY <2>1, <2>3, <2>4 DEF Taken
  <2>6. \A q \in Sinks : answer[q] = "off" /\ q \in sinks => q \in delivered'[row]
    BY <2>1, <2>2 DEF Taken
  <2> QED BY <1>4, <2>1, <2>5, <2>6 DEF Mark, Taken
<1>5. CASE RoundOk
  BY <1>5 DEF RoundOk, table, Taken, Trying
<1>6. CASE MarkAttempt
  BY <1>6 DEF MarkAttempt, Taken, Trying
<1>7. CASE EndFlush
  BY <1>7 DEF EndFlush, table, Taken, Trying
<1>8. CASE Crash
  BY <1>8 DEF Crash, table, Taken, Trying
<1>9. CASE Configure
  BY <1>9, OutboxAssumption DEF Configure, Taken, TypeOK
<1>10. CASE \E r \in Rows : ComesDue(r) \/ GrowsOld(r)
  BY <1>10 DEF ComesDue, GrowsOld, flush, Taken, Trying
<1>11. CASE MarkNtfy \/ MarkFeed
  BY <1>4, <1>11 DEF MarkNtfy, MarkFeed, Sinks
<1> QED BY <1>1, <1>2, <1>3, <1>5, <1>6, <1>7, <1>8, <1>9, <1>10, <1>11 DEF Next, Work

-----------------------------------------------------------------------------
LEMMA FlagsRange == \A r \in Rows : Flags(r) \in 0..2
  BY DEF Flags

\* The step a sink's flag takes in the count.
LEMMA FlagSet ==
  ASSUME TypeOK, Places, NEW s \in Sinks, NEW next \in {"feed", "attempt"}, Mark(s, next)
  PROVE  /\ \A r \in Rows : r # row => Flags(r)' = Flags(r)
         /\ Flags(row)' >= Flags(row)
         /\ answer[s] = "ok" /\ s \notin delivered[row] => Flags(row)' = Flags(row) + 1
         /\ \A q \in Sinks : q # s /\ q \notin delivered[row] => q \notin delivered'[row]
<1>1. row \in Rows
  BY RowRange DEF Mark, Trying, Sinks
<1>2. \A r \in Rows : r # row => delivered'[r] = delivered[r]
  BY <1>1 DEF Mark, TypeOK
<1>3. delivered'[row] = IF answer[s] = "failed" THEN delivered[row] ELSE delivered[row] \cup {s}
  BY <1>1 DEF Mark, TypeOK
<1>4. \A r \in Rows : r # row => Flags(r)' = Flags(r)
  BY <1>2 DEF Flags, Mark
<1>5. row' = row
  BY DEF Mark
<1>6. Flags(row)' >= Flags(row)
  BY <1>3, <1>5 DEF Flags
<1>7. answer[s] = "ok" /\ s \notin delivered[row] => Flags(row)' = Flags(row) + 1
  BY <1>3, <1>5 DEF Flags, Sinks
<1> QED BY <1>3, <1>4, <1>6, <1>7

LEMMA CountedStep ==
  ASSUME TypeOK, Places, Counted, Next
  PROVE  Counted'
<1>1. CASE Notify \/ Flush \/ EndFlush
  <2>1. row' = row /\ pc \notin Trying /\ pc' \notin Trying
    BY <1>1 DEF Notify, Flush, EndFlush, ReadBatch, Trying
  <2>2. \A r \in Rows : Paid(r)' <=> Paid(r)
    BY <1>1 DEF Notify, Flush, EndFlush, table, Paid, Flags
  <2> QED BY <2>1, <2>2 DEF Counted
<1>2. CASE Post
  <2>1. PICK r \in batch, ok \in SUBSET sinks :
          /\ row' = r
          /\ answer' = [s \in Sinks |-> IF s \notin sinks \ delivered[r] THEN "off"
                                       ELSE IF s \in ok THEN "ok" ELSE "failed"]
          /\ rounds' = IF sinks \ delivered[r] = {} THEN rounds ELSE [rounds EXCEPT ![r] = @ + 1]
    BY <1>2 DEF Post
  <2>2. r \in Rows /\ ~Done(r) /\ row = None /\ r # None
    BY <1>2, <2>1 DEF Post, Places, Pending, TypeOK, Trying, Rows, None
  <2>3. \A q \in Rows : Paid(q) /\ Flags(q)' = Flags(q)
    BY <1>2, <2>2 DEF Post, table, Counted, Flags, Rows, None
  <2>4. \A q \in Rows : q # r => Paid(q)'
    BY <1>2, <2>1, <2>3 DEF Post, table, Paid, TypeOK
  <2>5. rounds'[r] <= rounds[r] + 1 /\ rounds'[r] \in Nat
    BY <2>1, <2>2 DEF TypeOK
  <2>6. Flags(r) \in 0..1
    BY <2>2 DEF Done, Flags, TypeOK, Sinks
  <2>7. rounds[r] <= crashes + attempts[r] + Flags(r) /\ rounds[r] \in Nat
        /\ crashes \in Nat /\ attempts[r] \in Nat
    BY <2>2, <2>3, OutboxAssumption DEF Paid, TypeOK
  <2>8. /\ rounds'[r] <= crashes + attempts[r] + Flags(r) + 1
        /\ rounds'[r] <= crashes + attempts[r] + 2
    BY <2>5, <2>6, <2>7
  <2>9. \A s \in Sinks : answer'[s] = "ok" => s \notin delivered[r]
    BY <2>1
  <2>10. pc' = "ntfy" /\ delivered' = delivered /\ crashes' = crashes /\ attempts' = attempts
    BY <1>2 DEF Post, table
  <2>11. Flags(r)' = Flags(r)
    BY <2>2, <2>3
  <2>12. Flags(row)' = Flags(r)
    BY <2>1, <2>10 DEF Flags
  <2> QED BY <2>1, <2>4, <2>8, <2>9, <2>10, <2>12 DEF Counted, Sinks, Trying
<1>3. ASSUME NEW s \in Sinks, NEW next \in {"feed", "attempt"}, Mark(s, next),
             next = IF s = "ntfy" THEN "feed" ELSE "attempt"
      PROVE  Counted'
  <2>1. pc = s /\ pc' = next /\ pc \in Trying /\ row \in Rows
    BY <1>3, RowRange DEF Mark, Trying, Sinks
  <2>2. row' = row /\ rounds' = rounds /\ attempts' = attempts /\ crashes' = crashes /\ answer' = answer
    BY <1>3 DEF Mark
  <2>3. /\ \A r \in Rows : r # row => Flags(r)' = Flags(r)
        /\ Flags(row)' >= Flags(row)
        /\ answer[s] = "ok" /\ s \notin delivered[row] => Flags(row)' = Flags(row) + 1
        /\ \A q \in Sinks : q # s /\ q \notin delivered[row] => q \notin delivered'[row]
    BY <1>3, FlagSet
  <2>4. \A r \in Rows : r # row => Paid(r)'
    BY <2>2, <2>3 DEF Counted, Paid
  <2>5. rounds[row] \in Nat /\ crashes \in Nat /\ attempts[row] \in Nat /\ Flags(row) \in 0..2
    BY <2>1, OutboxAssumption, FlagsRange DEF TypeOK
  <2>6. Flags(row)' \in 0..2
    BY <2>2 DEF Flags
  <2>7. Paid(row) => Paid(row)'
    BY <2>2, <2>3, <2>5, <2>6 DEF Paid
  <2>8. answer[s] = "ok" => Paid(row)'
    <3>1. answer[s] = "ok" => s \notin delivered[row]
      BY <2>1 DEF Counted, Sinks
    <3>2. rounds[row] <= crashes + attempts[row] + Flags(row) + 1
      BY <2>1 DEF Counted
    <3> QED BY <2>2, <2>3, <2>5, <2>6, <3>1, <3>2 DEF Paid
  <2>9. /\ rounds[row] <= crashes + attempts[row] + Flags(row)' + 1
        /\ rounds[row] <= crashes + attempts[row] + 2
    BY <2>1, <2>3, <2>5, <2>6 DEF Counted
  <2>10. CASE s = "ntfy" /\ next = "feed"
    <3>1. answer["feed"] = "ok" => "feed" \notin delivered'[row]
      BY <2>1, <2>3, <2>10 DEF Counted, Sinks
    <3> QED BY <2>1, <2>2, <2>4, <2>8, <2>9, <2>10, <3>1 DEF Counted
  <2>11. CASE s = "feed" /\ next = "attempt"
    <3>1. answer["ntfy"] = "ok" => Paid(row)'
      BY <2>1, <2>7, <2>11 DEF Counted
    <3> QED BY <2>1, <2>2, <2>4, <2>8, <2>9, <2>11, <3>1 DEF Counted
  <2> QED BY <1>3, <2>10, <2>11 DEF Sinks
<1>4. CASE RoundOk
  <2>1. pc = "attempt" /\ pc' \notin Trying /\ row \in Rows /\ row' = None
    BY <1>4, RowRange DEF RoundOk, Trying
  <2>2. Paid(row)
    BY <1>4, <2>1 DEF RoundOk, Counted, Sinks, Trying
  <2>3. \A r \in Rows : Paid(r)' <=> Paid(r)
    BY <1>4 DEF RoundOk, table, Paid, Flags
  <2> QED BY <2>1, <2>2, <2>3 DEF Counted
<1>5. CASE MarkAttempt
  <2>1. pc = "attempt" /\ pc' \notin Trying /\ row \in Rows /\ row' = None
    BY <1>5, RowRange DEF MarkAttempt, Trying
  <2>2. \A r \in Rows : Flags(r)' = Flags(r)
    BY <1>5 DEF MarkAttempt, Flags
  <2>3. \A r \in Rows : r # row => Paid(r)'
    BY <1>5, <2>1, <2>2 DEF MarkAttempt, Counted, Paid, TypeOK
  <2>4. rounds[row] <= crashes + attempts[row] + Flags(row) + 1
    BY <2>1 DEF Counted, Trying
  <2>5. rounds'[row] = rounds[row] /\ attempts'[row] = attempts[row] + 1 /\ crashes' = crashes
    BY <1>5, <2>1 DEF MarkAttempt, TypeOK
  <2>6. ASSUME NEW r \in Rows, r = row PROVE Paid(r)'
    <3>1. crashes \in Nat /\ attempts[r] \in Nat /\ Flags(r) \in 0..2
      BY OutboxAssumption, FlagsRange DEF TypeOK
    <3>2. rounds'[r] <= crashes' + attempts'[r] + Flags(r)'
      BY <2>2, <2>4, <2>5, <2>6, <3>1
    <3> QED BY <3>2 DEF Paid
  <2> QED BY <2>1, <2>3, <2>6 DEF Counted
<1>6. CASE Crash
  <2>1. pc' \notin Trying /\ row' = None
    BY <1>6 DEF Crash, Trying
  <2>2. \A r \in Rows : Flags(r)' = Flags(r) /\ rounds'[r] = rounds[r] /\ attempts'[r] = attempts[r]
    BY <1>6 DEF Crash, table, Flags
  <2>3. crashes' = crashes + 1 /\ crashes \in Nat
    BY <1>6, OutboxAssumption DEF Crash, TypeOK
  <2>4. \A r \in Rows : rounds[r] <= crashes + attempts[r] + Flags(r) + 1
    <3>1. \A r \in Rows : rounds[r] \in Nat /\ attempts[r] \in Nat /\ Flags(r) \in 0..2
      BY OutboxAssumption, FlagsRange DEF TypeOK
    <3>2. CASE pc \in Trying
      BY <2>3, <3>1, <3>2 DEF Counted, Paid
    <3>3. CASE pc \notin Trying
      <4>1. \A r \in Rows : r # row
        BY <3>3 DEF Places, Rows, None
      <4> QED BY <2>3, <3>1, <4>1 DEF Counted, Paid
    <3> QED BY <3>2, <3>3
  <2>5. \A r \in Rows : Flags(r) \in 0..2 /\ attempts[r] \in Nat /\ rounds[r] \in Nat
    BY FlagsRange, OutboxAssumption DEF TypeOK
  <2>6. ASSUME NEW r \in Rows PROVE Paid(r)'
    <3>1. rounds'[r] <= crashes' + attempts'[r] + Flags(r)'
      BY <2>2, <2>3, <2>4, <2>5
    <3> QED BY <3>1 DEF Paid
  <2> QED BY <2>1, <2>6 DEF Counted
<1>7. CASE Configure \/ \E r \in Rows : ComesDue(r) \/ GrowsOld(r)
  <2>1. UNCHANGED <<row, pc, answer, delivered, attempts, rounds, crashes>>
    BY <1>7 DEF Configure, table, flush, ComesDue, GrowsOld
  <2> QED BY <2>1 DEF Counted, Paid, Flags
<1>8. CASE MarkNtfy \/ MarkFeed
  <2>1. CASE Mark("ntfy", "feed")
    BY <1>3, <2>1 DEF Sinks
  <2>2. CASE Mark("feed", "attempt")
    BY <1>3, <2>2 DEF Sinks
  <2> QED BY <1>8, <2>1, <2>2 DEF MarkNtfy, MarkFeed
<1> QED BY <1>1, <1>2, <1>4, <1>5, <1>6, <1>7, <1>8 DEF Next, Work

-----------------------------------------------------------------------------
\* From what is counted to what is bounded.
LEMMA BoundStep ==
  ASSUME TypeOK, Places, Counted, RoundsBounded, Next, Counted', Places', TypeOK'
  PROVE  RoundsBounded'
<1> SUFFICES ASSUME NEW r \in Rows PROVE rounds'[r] <= MaxAttempts + 1 + crashes'
  BY DEF RoundsBounded
<1>1. rounds[r] \in Nat /\ crashes \in Nat /\ crashes' \in Nat /\ MaxAttempts \in Nat \ {0}
      /\ rounds[r] <= MaxAttempts + 1 + crashes /\ attempts[r] \in 0..MaxAttempts
  BY OutboxAssumption DEF TypeOK, RoundsBounded
<1>2. CASE Post
  <2>1. PICK q \in batch : row' = q /\ (rounds' = rounds \/ rounds' = [rounds EXCEPT ![q] = @ + 1])
    BY <1>2 DEF Post
  <2>2. CASE r = q
    <3>1. rounds'[r] <= crashes' + attempts'[r] + 2
      BY <1>2, <2>1, <2>2 DEF Post, Counted, Trying
    <3>2. attempts'[r] = attempts[r] /\ attempts[r] < MaxAttempts
      BY <1>2, <2>1, <2>2 DEF Post, table, Places, Pending
    <3>3. rounds'[r] \in Nat
      BY DEF TypeOK
    <3> QED BY <1>1, <3>1, <3>2, <3>3
  <2>3. CASE r # q
    BY <1>1, <1>2, <2>1, <2>3 DEF Post, TypeOK
  <2> QED BY <2>2, <2>3
<1>3. CASE Crash
  BY <1>1, <1>3 DEF Crash
<1>4. CASE ~Post /\ ~Crash
  <2>1. UNCHANGED <<rounds, crashes>>
    BY <1>4 DEF Next, Work, Notify, Flush, MarkNtfy, MarkFeed, Mark, RoundOk, MarkAttempt, EndFlush,
               Configure, ComesDue, GrowsOld
  <2> QED BY <1>1, <2>1
<1> QED BY <1>2, <1>3, <1>4

LEMMA StepInv == OutboxInv /\ [Next]_vars => OutboxInv'
<1>1. ASSUME OutboxInv, Next PROVE OutboxInv'
  <2>1. TypeOK' /\ Places'
    BY <1>1, TypeStep, PlacesStep DEF OutboxInv
  <2>2. Taken' /\ Counted'
    BY <1>1, TakenStep, CountedStep DEF OutboxInv
  <2>3. RoundsBounded'
    BY <1>1, <2>1, <2>2, BoundStep DEF OutboxInv
  <2> QED BY <2>1, <2>2, <2>3 DEF OutboxInv
<1>2. ASSUME OutboxInv, UNCHANGED vars PROVE OutboxInv'
  <2>1. TypeOK'
    BY <1>2 DEF OutboxInv, TypeOK, vars, table, flush
  <2>2. Places' /\ Taken'
    BY <1>2 DEF OutboxInv, Places, Taken, Pending, Done, vars, table, flush
  <2>3. Counted' /\ RoundsBounded'
    BY <1>2 DEF OutboxInv, Counted, Paid, Flags, RoundsBounded, vars, table, flush
  <2> QED BY <2>1, <2>2, <2>3 DEF OutboxInv
<1> QED BY <1>1, <1>2

\* The invariant holds at every step.
THEOREM InvHolds == Spec => []OutboxInv
<1> QED BY InitInv, StepInv, PTL DEF Spec

\* Rows, flags and attempts keep their types: no row is tried after its last
\* attempt (mark_alert_attempt).
THEOREM TypeCorrect == Spec => []TypeOK
<1>1. OutboxInv => TypeOK
  BY DEF OutboxInv
<1> QED BY <1>1, InvHolds, PTL

\* A document leaves the queue as delivered only when every configured sink
\* has it, for any number of documents, lost answers and crashes.
THEOREM DeliveredWasReceived == Spec => []DeliveredMeansReceived
<1>1. OutboxInv => DeliveredMeansReceived
  BY DEF OutboxInv, Taken, DeliveredMeansReceived, Done, TypeOK
<1> QED BY <1>1, InvHolds, PTL

\* A document is sent out at most once more than MAX_ATTEMPTS, and once more
\* for each crash.
THEOREM RoundsAreBounded == Spec => []RoundsBounded
<1>1. OutboxInv => RoundsBounded
  BY DEF OutboxInv
<1> QED BY <1>1, InvHolds, PTL

-----------------------------------------------------------------------------
LEMMA InitSimulates == Init => Promise!Init
  BY OutboxAssumption DEF Init, Promise!Init, Status, Rows

\* A step that changes no row's place in the table leaves the status alone.
LEMMA StatusKept ==
  ASSUME UNCHANGED <<size, delivered, parked>>
  PROVE  Status' = Status
  BY DEF Status, Done

\* One row is settled, the others stay as they are.
LEMMA SettleStep ==
  ASSUME NEW r \in Rows, Status[r] = "queued" /\ Status'[r] \in {"delivered", "parked"},
         \A q \in Rows : q # r => Status'[q] = Status[q]
  PROVE  Promise!Next
<1>1. Status' = [Status EXCEPT ![r] = Status'[r]]
  BY DEF Status
<1> QED BY <1>1 DEF Promise!Next, Promise!Settle, Promise!Become

LEMMA StepSimulates ==
  ASSUME TypeOK, Places, Next
  PROVE  Promise!Next \/ Status' = Status
<1>1. CASE Notify
  <2>1. size + 1 \in Rows /\ size \in Nat /\ delivered[size + 1] = {} /\ size + 1 \notin parked
    BY <1>1, OutboxAssumption DEF Notify, TypeOK, Places, Rows
  <2>2. PICK n \in Rows : n = size + 1
    BY <2>1
  <2>3. Status[n] = "new" /\ Status'[n] = "queued"
    BY <1>1, <2>1, <2>2 DEF Notify, Status, Done, Sinks
  <2>4. \A q \in Rows : q # n => Status'[q] = Status[q]
    BY <1>1, <2>1, <2>2 DEF Notify, Status, Done, Rows
  <2>5. Status' = [Status EXCEPT ![n] = "queued"]
    BY <2>3, <2>4 DEF Status
  <2>6. Promise!Accept(n)
    BY <2>3, <2>5 DEF Promise!Accept, Promise!Become
  <2> QED BY <2>6 DEF Promise!Next
<1>2. ASSUME NEW s \in Sinks, NEW next \in {"feed", "attempt"}, Mark(s, next)
      PROVE  Promise!Next \/ Status' = Status
  <2>1. row \in Rows /\ row <= size /\ row \notin parked
    BY <1>2, RowRange DEF Mark, Trying, Sinks
  <2>2. \A q \in Rows : q # row => delivered'[q] = delivered[q]
    BY <1>2, <2>1 DEF Mark, TypeOK
  <2>3. delivered[row] \subseteq delivered'[row] /\ delivered'[row] \in SUBSET Sinks
    BY <1>2, <2>1 DEF Mark, TypeOK
  <2>4. size' = size /\ parked' = parked
    BY <1>2 DEF Mark
  <2>5. \A q \in Rows : q # row => Status'[q] = Status[q]
    BY <2>2, <2>4 DEF Status, Done
  <2>6. CASE delivered[row] = Sinks \/ delivered'[row] # Sinks
    <3>1. Status'[row] = Status[row]
      BY <2>1, <2>3, <2>4, <2>6 DEF Status, Done
    <3>2. Status' = Status
      BY <2>5, <3>1 DEF Status
    <3> QED BY <3>2
  <2>7. CASE delivered[row] # Sinks /\ delivered'[row] = Sinks
    <3>1. Status[row] = "queued" /\ Status'[row] = "delivered"
      BY <2>1, <2>4, <2>7, OutboxAssumption DEF Status, Done, TypeOK, Rows
    <3> QED BY <2>1, <2>5, <3>1, SettleStep
  <2> QED BY <2>6, <2>7
<1>3. CASE MarkAttempt
  <2>1. row \in Rows /\ row <= size /\ row \notin parked
    BY <1>3, RowRange DEF MarkAttempt, Trying
  <2>2. size' = size /\ delivered' = delivered /\ (parked' = parked \/ parked' = parked \cup {row})
    BY <1>3 DEF MarkAttempt
  <2>3. \A q \in Rows : q # row => Status'[q] = Status[q]
    BY <2>2 DEF Status, Done
  <2>4. CASE delivered[row] = Sinks \/ parked' = parked
    <3>1. Status'[row] = Status[row]
      BY <2>1, <2>2, <2>4 DEF Status, Done
    <3>2. Status' = Status
      BY <2>3, <3>1 DEF Status
    <3> QED BY <3>2
  <2>5. CASE delivered[row] # Sinks /\ parked' # parked
    <3>1. Status[row] = "queued" /\ Status'[row] = "parked"
      BY <2>1, <2>2, <2>5, OutboxAssumption DEF Status, Done, TypeOK, Rows
    <3> QED BY <2>1, <2>3, <3>1, SettleStep
  <2> QED BY <2>4, <2>5
<1>4. CASE Flush \/ Post \/ RoundOk \/ EndFlush \/ Crash \/ Configure
           \/ \E r \in Rows : ComesDue(r) \/ GrowsOld(r)
  <2>1. UNCHANGED <<size, delivered, parked>>
    BY <1>4 DEF Flush, Post, RoundOk, EndFlush, Crash, Configure, ComesDue, GrowsOld, table
  <2> QED BY <2>1, StatusKept
<1>5. CASE MarkNtfy \/ MarkFeed
  BY <1>2, <1>5 DEF MarkNtfy, MarkFeed, Sinks
<1> QED BY <1>1, <1>3, <1>4, <1>5 DEF Next, Work

\* The queue keeps AlertPromise's safety: an accepted document is settled at
\* most once and never goes back, whatever order receivers, crashes and
\* back-offs come in.  (That it is settled at all is KeepsPromise's liveness,
\* which the run checks.)
THEOREM SettledOnce == Spec => Promise!Init /\ [][Promise!Next]_Status
<1>1. OutboxInv /\ [Next]_vars => [Promise!Next]_Status
  <2>1. ASSUME OutboxInv, Next PROVE Promise!Next \/ Status' = Status
    BY <2>1, StepSimulates DEF OutboxInv
  <2>2. ASSUME UNCHANGED vars PROVE Status' = Status
    BY <2>2, StatusKept DEF vars, table
  <2> QED BY <2>1, <2>2
<1> QED BY <1>1, InitSimulates, InvHolds, PTL DEF Spec
=============================================================================
