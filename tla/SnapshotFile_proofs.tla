----------------------- MODULE SnapshotFile_proofs -----------------------
(***************************************************************************)
(* One process at a time, any number of saves and crashes: the snapshot    *)
(* can always be read and an index that is taken is the snapshot's.        *)
(* SlimShared.cfg shows that the assumption is needed.                     *)
(***************************************************************************)
EXTENDS SnapshotFile, TLAPS

USE FileAssumption

OneProcess == \A p, q \in Processes : p = q

\* Nothing bears a tick that has not come.
Ticks ==
  /\ \A f \in Files : file[f] <= clock /\ temp[f] <= clock
  /\ \A i \in Inodes : mtime[i] <= clock /\ key[i] <= clock
  /\ \A p \in Processes : stamp[p] <= clock

\* No two names are names of one inode.
Apart ==
  /\ \A f, g \in Files : temp[f] # None => temp[f] # file[g]
  /\ temp["slim"] # None => temp["slim"] # temp["snapshot"]
  /\ file["slim"] # None => file["slim"] # file["snapshot"]

\* What a process that saves knows of the files: above all that no index in
\* place carries the stamp its snapshot will have.
SavingSnapshot(p) ==
  /\ pc[p] = "write snapshot" => temp["snapshot"] # None /\ open[p] = temp["snapshot"]
  /\ pc[p] = "replace snapshot" =>
       /\ temp["snapshot"] # None
       /\ data[temp["snapshot"]] = saving[p]
       /\ file["slim"] # None => key[file["slim"]] < mtime[temp["snapshot"]]

SavingSlim(p) ==
  /\ pc[p] \in {"stat", "open slim", "write slim", "replace slim"} =>
       file["snapshot"] # None /\ data[file["snapshot"]] = saving[p]
  /\ pc[p] \in {"open slim", "write slim", "replace slim"} =>
       stamp[p] = mtime[file["snapshot"]]
  /\ pc[p] = "write slim" => temp["slim"] # None /\ open[p] = temp["slim"]
  /\ pc[p] = "replace slim" =>
       /\ temp["slim"] # None
       /\ data[temp["slim"]] = saving[p]
       /\ key[temp["slim"]] = stamp[p]

Places ==
  \A p \in Processes :
    /\ pc[p] # "idle" => saving[p] \in Versions
    /\ SavingSnapshot(p)
    /\ SavingSlim(p)

\* SlimNeverStale without what it says of bytes that do not parse.
Stamped ==
  file["slim"] # None /\ file["snapshot"] # None
    /\ key[file["slim"]] = mtime[file["snapshot"]]
    => data[file["slim"]] = data[file["snapshot"]]

Inv == TypeOK /\ mixed = {} /\ Ticks /\ Apart /\ Places /\ SnapshotWhole /\ Stamped

LEMMA InitInv == Init => Inv
  BY DEF Init, Inv, TypeOK, Ticks, Apart, Places, SavingSnapshot, SavingSlim,
         SnapshotWhole, Stamped, Files, Inodes, None, Steps

\* The inode that is opened is no other name's: nothing else is disturbed.
\* (Cut into parts, each no more than one step of a proof needs.)
OpensName(p, f, i) ==
  /\ open' = [open EXCEPT ![p] = i]
  /\ temp' = [temp EXCEPT ![f] = i]
  /\ \A g \in Files : i # file[g] /\ (g # f => i # temp[g])

OpensInode(i) ==
  /\ data' \in [Inodes -> Versions \cup {Torn}]
  /\ mtime' \in [Inodes -> 0..MaxTicks]
  /\ \A j \in Inodes \ {i} : data'[j] = data[j] /\ mtime'[j] = mtime[j]
  /\ \A j \in Inodes : mtime'[j] <= clock'

Ticked(p, next) ==
  /\ clock' = clock + 1 /\ clock' \in 0..MaxTicks
  /\ file' = file /\ mixed' = {} /\ crashes' = crashes
  /\ pc' = [pc EXCEPT ![p] = next]

Opens(p, f, i, next) ==
  /\ OpensName(p, f, i) /\ OpensInode(i) /\ Ticked(p, next)
  /\ i <= clock' /\ key' = key

LEMMA OpenDisturbs ==
  ASSUME OneProcess, Inv, NEW p \in Processes, NEW f \in Files, NEW next \in Steps,
         Open(p, f, next)
  PROVE  \E i \in Inodes : Opens(p, f, i, next)
<1> DEFINE i == IF temp[f] = None THEN clock + 1 ELSE temp[f]
<1>1. i \in Inodes /\ i <= clock + 1 /\ clock + 1 \in 0..MaxTicks
  BY DEF Open, Inv, TypeOK, Ticks, Inodes, None
<1>2. temp' = [temp EXCEPT ![f] = i]
  BY DEF Open, Inv, TypeOK
<1>3. \A g \in Files : i # file[g] /\ (g # f => i # temp[g])
  <2>1. CASE temp[f] = None
    BY <2>1 DEF Inv, TypeOK, Ticks, Inodes, None
  <2>2. CASE temp[f] # None
    BY <2>2 DEF Inv, Apart, Files
  <2> QED BY <2>1, <2>2
<1>4. mixed' = {}
  BY DEF Open, Inv, OneProcess
<1>5. data' = [data EXCEPT ![i] = Torn] /\ mtime' = [mtime EXCEPT ![i] = clock + 1]
  BY DEF Open
<1>6. \A j \in Inodes : mtime'[j] <= clock + 1
  BY <1>1, <1>5 DEF Inv, TypeOK, Ticks
<1>7. data' \in [Inodes -> Versions \cup {Torn}] /\ mtime' \in [Inodes -> 0..MaxTicks]
      /\ \A j \in Inodes \ {i} : data'[j] = data[j] /\ mtime'[j] = mtime[j]
  BY <1>1, <1>5 DEF Inv, TypeOK
<1>8. clock' = clock + 1 /\ file' = file /\ key' = key /\ open' = [open EXCEPT ![p] = i]
      /\ pc' = [pc EXCEPT ![p] = next] /\ crashes' = crashes
  BY DEF Open, Rest
<1> QED BY <1>1, <1>2, <1>3, <1>4, <1>6, <1>7, <1>8 DEF Opens, OpensName, OpensInode, Ticked

\* A write that nobody else takes part in leaves what was to be saved.
Writes(p, i) ==
  /\ data' = [data EXCEPT ![i] = saving[p]]
  /\ mtime' = [mtime EXCEPT ![i] = clock + 1]
  /\ key' = [key EXCEPT ![i] = stamp[p]]

LEMMA WriteDisturbs ==
  ASSUME OneProcess, Inv, NEW p \in Processes, NEW where \in Steps \ {"idle"}, NEW next \in Steps,
         Write(p, where, next)
  PROVE  /\ Writes(p, open[p]) /\ Ticked(p, next)
         /\ saving[p] \in Versions
         /\ UNCHANGED <<temp, saving, open, stamp>>
<1>1. pc[p] = where /\ clock < MaxTicks
  BY DEF Write
<1>2. saving[p] \in Versions
  BY <1>1 DEF Inv, Places
<1>3. data' = [data EXCEPT ![open[p]] = saving[p]]
  BY DEF Write, Inv
<1>4. Writes(p, open[p])
  BY <1>3 DEF Write, Writes
<1>5. Ticked(p, next)
  BY <1>1 DEF Write, Ticked, Rest, Inv, TypeOK
<1> QED BY <1>2, <1>4, <1>5 DEF Write

\* What is known of the one process is known of all.
LEMMA PlacesOfOne ==
  ASSUME OneProcess, NEW p \in Processes, pc'[p] # "idle" => saving'[p] \in Versions,
         SavingSnapshot(p)', SavingSlim(p)'
  PROVE  Places'
<1>1. \A q \in Processes : q = p
  BY DEF OneProcess
<1> QED BY <1>1 DEF Places

\* Inodes that no file's name is on may change.
LEMMA FilesKept ==
  ASSUME Inv, NEW i \in Inodes, \A g \in Files : i # file[g], file' = file,
         \A j \in Inodes \ {i} : data'[j] = data[j] /\ mtime'[j] = mtime[j] /\ key'[j] = key[j]
  PROVE  /\ \A g \in Files : file[g] # None =>
              /\ data'[file[g]] = data[file[g]]
              /\ mtime'[file[g]] = mtime[file[g]]
              /\ key'[file[g]] = key[file[g]]
         /\ SnapshotWhole' /\ Stamped'
<1>1. "snapshot" \in Files /\ "slim" \in Files
  BY DEF Files
<1>2. \A g \in Files : file[g] # None => file[g] \in Inodes \ {i}
  BY DEF Inv, TypeOK
<1>3. SnapshotWhole /\ Stamped
  BY DEF Inv
<1> QED BY <1>1, <1>2, <1>3 DEF SnapshotWhole, Stamped

\* What an opening keeps, whatever it is that is opened.
LEMMA OpensKeeps ==
  ASSUME Inv, NEW p \in Processes, NEW f \in Files, NEW i \in Inodes, NEW next \in Steps,
         Opens(p, f, i, next),
         saving' \in [Processes -> Versions \cup {NoVersion}],
         stamp' \in [Processes -> 0..MaxTicks], \A q \in Processes : stamp'[q] <= clock'
  PROVE  TypeOK' /\ Ticks' /\ Apart'
<1>1. clock \in 0..MaxTicks /\ clock' \in 0..MaxTicks /\ clock' = clock + 1 /\ i <= clock'
  BY DEF Opens, Ticked, Inv, TypeOK
<1>2. file' \in [Files -> Inodes \cup {None}] /\ temp' \in [Files -> Inodes \cup {None}]
      /\ open' \in [Processes -> Inodes \cup {None}] /\ key' \in [Inodes -> 0..MaxTicks]
  BY DEF Opens, OpensName, Ticked, Inv, TypeOK
<1>3. pc' \in [Processes -> Steps] /\ mixed' \in SUBSET Inodes /\ crashes' \in 0..MaxCrashes
  BY DEF Opens, Ticked, Inv, TypeOK
<1>4. TypeOK'
  BY <1>1, <1>2, <1>3 DEF Opens, OpensInode, TypeOK
<1>5. \A g \in Files : file'[g] <= clock' /\ temp'[g] <= clock'
  <2>1. \A g \in Files : file[g] <= clock /\ temp[g] <= clock /\ file[g] \in Nat /\ temp[g] \in Nat
    BY DEF Inv, TypeOK, Ticks, Inodes, None
  <2>2. \A g \in Files : file'[g] = file[g] /\ temp'[g] = IF g = f THEN i ELSE temp[g]
    BY DEF Opens, OpensName, Ticked, Inv, TypeOK
  <2> QED BY <1>1, <2>1, <2>2
<1>6. \A j \in Inodes : key'[j] <= clock'
  <2>1. \A j \in Inodes : key[j] <= clock /\ key[j] \in Nat
    BY DEF Inv, TypeOK, Ticks
  <2> QED BY <1>1, <2>1 DEF Opens
<1>7. Ticks'
  BY <1>5, <1>6 DEF Opens, OpensInode, Ticks
<1>8. Apart'
  <2>1. \A g \in Files : temp'[g] = IF g = f THEN i ELSE temp[g]
    BY DEF Opens, OpensName, Inv, TypeOK
  <2>2. \A g \in Files : i # file[g] /\ (g # f => i # temp[g])
    BY DEF Opens, OpensName
  <2> QED BY <2>1, <2>2 DEF Opens, Ticked, Inv, Apart, Files
<1> QED BY <1>4, <1>7, <1>8

LEMMA WritesKeeps ==
  ASSUME Inv, NEW p \in Processes, NEW i \in Inodes, NEW next \in Steps,
         Writes(p, i), Ticked(p, next), saving[p] \in Versions,
         UNCHANGED <<temp, saving, open, stamp>>
  PROVE  TypeOK' /\ Ticks' /\ Apart'
<1>1. clock \in 0..MaxTicks /\ clock' \in 0..MaxTicks /\ clock' = clock + 1
  BY DEF Ticked, Inv, TypeOK
<1>2. data' \in [Inodes -> Versions \cup {Torn}] /\ mtime' \in [Inodes -> 0..MaxTicks]
      /\ key' \in [Inodes -> 0..MaxTicks]
  BY <1>1 DEF Writes, Inv, TypeOK
<1>3. pc' \in [Processes -> Steps] /\ mixed' \in SUBSET Inodes /\ crashes' \in 0..MaxCrashes
      /\ file' = file
  BY DEF Ticked, Inv, TypeOK
<1>4. TypeOK'
  BY <1>1, <1>2, <1>3 DEF Inv, TypeOK
<1>5. \A g \in Files : file'[g] <= clock' /\ temp'[g] <= clock'
  <2>1. \A g \in Files : file[g] <= clock /\ temp[g] <= clock /\ file[g] \in Nat /\ temp[g] \in Nat
    BY DEF Inv, TypeOK, Ticks, Inodes, None
  <2> QED BY <1>1, <1>3, <2>1
<1>6. \A j \in Inodes : mtime'[j] <= clock' /\ key'[j] <= clock'
  <2>1. \A j \in Inodes : mtime[j] <= clock /\ key[j] <= clock /\ mtime[j] \in Nat /\ key[j] \in Nat
    BY DEF Inv, TypeOK, Ticks
  <2>2. stamp[p] <= clock /\ stamp[p] \in Nat
    BY DEF Inv, TypeOK, Ticks
  <2>3. \A j \in Inodes : /\ mtime'[j] = IF j = i THEN clock + 1 ELSE mtime[j]
                          /\ key'[j] = IF j = i THEN stamp[p] ELSE key[j]
    BY DEF Writes, Inv, TypeOK
  <2> QED BY <1>1, <2>1, <2>2, <2>3
<1>7. \A q \in Processes : stamp'[q] <= clock'
  BY <1>1 DEF Inv, TypeOK, Ticks
<1>8. Ticks'
  BY <1>5, <1>6, <1>7 DEF Ticks
<1>9. Apart'
  BY <1>3 DEF Inv, Apart
<1> QED BY <1>4, <1>8, <1>9

LEMMA SaveKeepsInv ==
  ASSUME OneProcess, Inv, NEW p \in Processes, Save(p)
  PROVE  Inv'
<1>1. "snapshot" \in Files /\ "write snapshot" \in Steps
  BY DEF Files, Steps
<1>2. PICK i \in Inodes : Opens(p, "snapshot", i, "write snapshot")
  BY <1>1, OpenDisturbs DEF Save
<1>3. PICK v \in Versions : saving' = [saving EXCEPT ![p] = v]
  BY DEF Save
<1>4. saving' \in [Processes -> Versions \cup {NoVersion}] /\ saving'[p] \in Versions
  BY <1>3 DEF Inv, TypeOK
<1>5. stamp' \in [Processes -> 0..MaxTicks] /\ \A q \in Processes : stamp'[q] <= clock'
  <2>1. stamp' = [stamp EXCEPT ![p] = None] /\ clock' = clock + 1
    BY <1>2 DEF Save, Opens, Ticked
  <2> QED BY <2>1 DEF Inv, TypeOK, Ticks, None
<1>6. TypeOK' /\ Ticks' /\ Apart'
  BY <1>1, <1>2, <1>4, <1>5, OpensKeeps
<1>7. Places'
  <2>1. pc'[p] = "write snapshot"
    BY <1>2 DEF Opens, Ticked, Inv, TypeOK
  <2>2. open'[p] = i /\ temp'["snapshot"] = i
    BY <1>1, <1>2 DEF Opens, OpensName, Inv, TypeOK
  <2>3. i # None
    BY DEF Inodes, None
  <2> QED BY <1>4, <2>1, <2>2, <2>3, PlacesOfOne DEF SavingSnapshot, SavingSlim
<1>8. SnapshotWhole' /\ Stamped'
  BY <1>2, FilesKept DEF Opens, OpensName, OpensInode, Ticked
<1> QED BY <1>2, <1>6, <1>7, <1>8 DEF Inv, Opens, Ticked

LEMMA OpenSlimKeepsInv ==
  ASSUME OneProcess, Inv, NEW p \in Processes, OpenSlim(p)
  PROVE  Inv'
<1>1. "slim" \in Files /\ "snapshot" \in Files /\ "write slim" \in Steps
  BY DEF Files, Steps
<1>2. PICK i \in Inodes : Opens(p, "slim", i, "write slim")
  BY <1>1, OpenDisturbs DEF OpenSlim
<1>3. saving' = saving /\ stamp' = stamp /\ pc[p] = "open slim"
  BY DEF OpenSlim
<1>4. saving \in [Processes -> Versions \cup {NoVersion}] /\ saving[p] \in Versions
  BY <1>3 DEF Inv, TypeOK, Places
<1>5. stamp' \in [Processes -> 0..MaxTicks] /\ \A q \in Processes : stamp'[q] <= clock'
  <2>1. clock' = clock + 1
    BY <1>2 DEF Opens, Ticked
  <2>2. stamp \in [Processes -> 0..MaxTicks]
    BY DEF Inv, TypeOK
  <2>3. stamp' = stamp
    BY <1>3
  <2>4. \A q \in Processes : stamp[q] <= clock + 1
    BY DEF Inv, TypeOK, Ticks
  <2> QED BY <2>1, <2>2, <2>3, <2>4
<1>6. TypeOK' /\ Ticks' /\ Apart'
  BY <1>1, <1>2, <1>3, <1>4, <1>5, OpensKeeps
<1>7. /\ SnapshotWhole' /\ Stamped'
      /\ file["snapshot"] # None =>
           /\ data'[file["snapshot"]] = data[file["snapshot"]]
           /\ mtime'[file["snapshot"]] = mtime[file["snapshot"]]
  BY <1>1, <1>2, FilesKept DEF Opens, OpensName, OpensInode, Ticked
<1>8. Places'
  <2>1. pc'[p] = "write slim" /\ file' = file
    BY <1>2 DEF Opens, Ticked, Inv, TypeOK
  <2>2. open'[p] = i /\ temp'["slim"] = i
    BY <1>1, <1>2 DEF Opens, OpensName, Inv, TypeOK
  <2>3. i # None
    BY DEF Inodes, None
  <2>4. /\ file["snapshot"] # None
        /\ data[file["snapshot"]] = saving[p]
        /\ stamp[p] = mtime[file["snapshot"]]
    BY <1>3 DEF Inv, Places, SavingSlim
  <2> QED BY <1>3, <1>4, <1>7, <2>1, <2>2, <2>3, <2>4, PlacesOfOne DEF SavingSnapshot, SavingSlim
<1> QED BY <1>2, <1>6, <1>7, <1>8 DEF Inv, Opens, Ticked

LEMMA WriteSnapshotKeepsInv ==
  ASSUME OneProcess, Inv, NEW p \in Processes, WriteSnapshot(p)
  PROVE  Inv'
<1>1. pc[p] = "write snapshot" /\ "replace snapshot" \in Steps
      /\ "snapshot" \in Files /\ "slim" \in Files
  BY DEF WriteSnapshot, Write, Steps, Files
<1>2. /\ Writes(p, open[p]) /\ Ticked(p, "replace snapshot")
      /\ saving[p] \in Versions
      /\ UNCHANGED <<temp, saving, open, stamp>>
  BY <1>1, WriteDisturbs DEF WriteSnapshot, Steps
<1>3. PICK i \in Inodes : i = open[p] /\ i = temp["snapshot"] /\ i # None
  BY <1>1 DEF Inv, TypeOK, Places, SavingSnapshot
<1>4. \A g \in Files : i # file[g]
  BY <1>1, <1>3 DEF Inv, Apart
<1>5. \A j \in Inodes \ {i} : data'[j] = data[j] /\ mtime'[j] = mtime[j] /\ key'[j] = key[j]
  BY <1>2, <1>3 DEF Writes, Inv, TypeOK
<1>6. TypeOK' /\ Ticks' /\ Apart'
  BY <1>1, <1>2, <1>3, WritesKeeps
<1>7. /\ SnapshotWhole' /\ Stamped'
      /\ file["slim"] # None => key'[file["slim"]] = key[file["slim"]]
  BY <1>1, <1>2, <1>4, <1>5, FilesKept DEF Ticked
<1>8. file["slim"] # None => key'[file["slim"]] < mtime'[i]
  <2>1. mtime'[i] = clock + 1
    BY <1>2, <1>3 DEF Writes, Inv, TypeOK
  <2>2. clock \in Nat
    BY DEF Inv, TypeOK
  <2>3. file["slim"] # None => file["slim"] \in Inodes
    BY <1>1 DEF Inv, TypeOK
  <2>4. \A j \in Inodes : key[j] <= clock /\ key[j] \in Nat
    BY DEF Inv, TypeOK, Ticks
  <2> QED BY <1>7, <2>1, <2>2, <2>3, <2>4
<1>9. Places'
  <2>1. pc'[p] = "replace snapshot" /\ file' = file
    BY <1>2 DEF Ticked, Inv, TypeOK
  <2>2. data'[i] = saving[p]
    BY <1>2, <1>3 DEF Writes, Inv, TypeOK
  <2> QED BY <1>2, <1>3, <1>8, <2>1, <2>2, PlacesOfOne DEF SavingSnapshot, SavingSlim
<1> QED BY <1>2, <1>6, <1>7, <1>9 DEF Inv, Ticked

LEMMA WriteSlimKeepsInv ==
  ASSUME OneProcess, Inv, NEW p \in Processes, WriteSlim(p)
  PROVE  Inv'
<1>1. pc[p] = "write slim" /\ "replace slim" \in Steps
      /\ "snapshot" \in Files /\ "slim" \in Files
  BY DEF WriteSlim, Write, Steps, Files
<1>2. /\ Writes(p, open[p]) /\ Ticked(p, "replace slim")
      /\ saving[p] \in Versions
      /\ UNCHANGED <<temp, saving, open, stamp>>
  BY <1>1, WriteDisturbs DEF WriteSlim, Steps
<1>3. PICK i \in Inodes : i = open[p] /\ i = temp["slim"] /\ i # None
  BY <1>1 DEF Inv, TypeOK, Places, SavingSlim
<1>4. \A g \in Files : i # file[g]
  BY <1>1, <1>3 DEF Inv, Apart
<1>5. \A j \in Inodes \ {i} : data'[j] = data[j] /\ mtime'[j] = mtime[j] /\ key'[j] = key[j]
  BY <1>2, <1>3 DEF Writes, Inv, TypeOK
<1>6. TypeOK' /\ Ticks' /\ Apart'
  BY <1>1, <1>2, <1>3, WritesKeeps
<1>7. /\ SnapshotWhole' /\ Stamped'
      /\ file["snapshot"] # None =>
           /\ data'[file["snapshot"]] = data[file["snapshot"]]
           /\ mtime'[file["snapshot"]] = mtime[file["snapshot"]]
  BY <1>1, <1>2, <1>4, <1>5, FilesKept DEF Ticked
<1>8. Places'
  <2>1. pc'[p] = "replace slim" /\ file' = file
    BY <1>2 DEF Ticked, Inv, TypeOK
  <2>2. data'[i] = saving[p] /\ key'[i] = stamp[p]
    BY <1>2, <1>3 DEF Writes, Inv, TypeOK
  <2>3. /\ file["snapshot"] # None
        /\ data[file["snapshot"]] = saving[p]
        /\ stamp[p] = mtime[file["snapshot"]]
    BY <1>1 DEF Inv, Places, SavingSlim
  <2> QED BY <1>2, <1>3, <1>7, <2>1, <2>2, <2>3, PlacesOfOne DEF SavingSnapshot, SavingSlim
<1> QED BY <1>2, <1>6, <1>7, <1>8 DEF Inv, Ticked

LEMMA RenameSnapshotKeepsInv ==
  ASSUME OneProcess, Inv, NEW p \in Processes, RenameSnapshot(p)
  PROVE  Inv'
<1>1. pc[p] = "replace snapshot" /\ "snapshot" \in Files /\ "slim" \in Files
  BY DEF RenameSnapshot, Rename, Files
<1>2. PICK i \in Inodes : i = temp["snapshot"] /\ i # None
  BY <1>1 DEF Inv, TypeOK, Places, SavingSnapshot
<1>3. /\ data[i] = saving[p] /\ saving[p] \in Versions
      /\ file["slim"] # None => key[file["slim"]] < mtime[i]
  BY <1>1, <1>2 DEF Inv, Places, SavingSnapshot
<1>4. /\ file' = [file EXCEPT !["snapshot"] = i] /\ temp' = [temp EXCEPT !["snapshot"] = None]
      /\ pc' = [pc EXCEPT ![p] = "stat"] /\ crashes' = crashes
      /\ open' = [open EXCEPT ![p] = None]
  BY <1>2 DEF RenameSnapshot, Rename, Rest
<1>5. UNCHANGED <<clock, data, mtime, key, mixed, saving, stamp>>
  BY DEF RenameSnapshot, Rename
<1>6. TypeOK'
  <2>1. file' \in [Files -> Inodes \cup {None}] /\ temp' \in [Files -> Inodes \cup {None}]
        /\ open' \in [Processes -> Inodes \cup {None}] /\ pc' \in [Processes -> Steps]
    BY <1>4 DEF Inv, TypeOK, Steps
  <2> QED BY <1>4, <1>5, <2>1 DEF Inv, TypeOK
<1>7. /\ file'["snapshot"] = i /\ file'["slim"] = file["slim"]
      /\ temp'["snapshot"] = None /\ temp'["slim"] = temp["slim"]
  BY <1>1, <1>4 DEF Inv, TypeOK
<1>8. Ticks'
  <2>1. \A g \in Files : file[g] <= clock /\ temp[g] <= clock
    BY DEF Inv, Ticks
  <2>2. 0 <= clock
    BY DEF Inv, TypeOK
  <2>3. i <= clock
    BY <1>1, <1>2, <2>1
  <2>4. file'["snapshot"] <= clock /\ file'["slim"] <= clock
    BY <1>1, <1>7, <2>1, <2>3
  <2>5. temp'["snapshot"] <= clock /\ temp'["slim"] <= clock
    BY <1>1, <1>7, <2>1, <2>2 DEF None
  <2>6. \A g \in Files : file'[g] <= clock /\ temp'[g] <= clock
    BY <2>4, <2>5 DEF Files
  <2> QED BY <1>5, <2>6 DEF Inv, Ticks
<1>9. Apart'
  BY <1>1, <1>2, <1>7 DEF Inv, Apart, Files
<1>10. Places'
  <2>1. pc'[p] = "stat"
    BY <1>4 DEF Inv, TypeOK
  <2> QED BY <1>2, <1>3, <1>5, <1>7, <2>1, PlacesOfOne DEF SavingSnapshot, SavingSlim
<1>11. SnapshotWhole'
  BY <1>2, <1>3, <1>5, <1>7 DEF SnapshotWhole
<1>12. Stamped'
  <2>1. file["slim"] # None => file["slim"] \in Inodes
    BY <1>1 DEF Inv, TypeOK
  <2>2. \A j \in Inodes : key[j] \in Nat /\ mtime[j] \in Nat
    BY DEF Inv, TypeOK
  <2>3. file["slim"] # None => key[file["slim"]] # mtime[i]
    BY <1>2, <1>3, <2>1, <2>2
  <2> QED BY <1>5, <1>7, <2>3 DEF Stamped
<1> QED BY <1>5, <1>6, <1>8, <1>9, <1>10, <1>11, <1>12 DEF Inv

LEMMA RenameSlimKeepsInv ==
  ASSUME OneProcess, Inv, NEW p \in Processes, RenameSlim(p)
  PROVE  Inv'
<1>1. pc[p] = "replace slim" /\ "snapshot" \in Files /\ "slim" \in Files
  BY DEF RenameSlim, Rename, Files
<1>2. PICK i \in Inodes : i = temp["slim"] /\ i # None
  BY <1>1 DEF Inv, TypeOK, Places, SavingSlim
<1>3. /\ file["snapshot"] # None /\ data[file["snapshot"]] = saving[p]
      /\ data[i] = saving[p] /\ saving[p] \in Versions
  BY <1>1, <1>2 DEF Inv, Places, SavingSlim
<1>4. /\ file' = [file EXCEPT !["slim"] = i] /\ temp' = [temp EXCEPT !["slim"] = None]
      /\ pc' = [pc EXCEPT ![p] = "idle"] /\ crashes' = crashes
      /\ open' = [open EXCEPT ![p] = None]
  BY <1>2 DEF RenameSlim, Rename, Rest
<1>5. UNCHANGED <<clock, data, mtime, key, mixed, saving, stamp>>
  BY DEF RenameSlim, Rename
<1>6. TypeOK'
  <2>1. file' \in [Files -> Inodes \cup {None}] /\ temp' \in [Files -> Inodes \cup {None}]
        /\ open' \in [Processes -> Inodes \cup {None}] /\ pc' \in [Processes -> Steps]
    BY <1>4 DEF Inv, TypeOK, Steps
  <2> QED BY <1>4, <1>5, <2>1 DEF Inv, TypeOK
<1>7. /\ file'["slim"] = i /\ file'["snapshot"] = file["snapshot"]
      /\ temp'["slim"] = None /\ temp'["snapshot"] = temp["snapshot"]
  BY <1>1, <1>4 DEF Inv, TypeOK
<1>8. Ticks'
  <2>1. \A g \in Files : file[g] <= clock /\ temp[g] <= clock
    BY DEF Inv, Ticks
  <2>2. 0 <= clock
    BY DEF Inv, TypeOK
  <2>3. i <= clock
    BY <1>1, <1>2, <2>1
  <2>4. file'["snapshot"] <= clock /\ file'["slim"] <= clock
    BY <1>1, <1>7, <2>1, <2>3
  <2>5. temp'["snapshot"] <= clock /\ temp'["slim"] <= clock
    BY <1>1, <1>7, <2>1, <2>2 DEF None
  <2>6. \A g \in Files : file'[g] <= clock /\ temp'[g] <= clock
    BY <2>4, <2>5 DEF Files
  <2> QED BY <1>5, <2>6 DEF Inv, Ticks
<1>9. Apart'
  BY <1>1, <1>2, <1>7 DEF Inv, Apart, Files
<1>10. Places'
  <2>1. pc'[p] = "idle"
    BY <1>4 DEF Inv, TypeOK
  <2> QED BY <2>1, PlacesOfOne DEF SavingSnapshot, SavingSlim
<1>11. SnapshotWhole' /\ Stamped'
  BY <1>2, <1>3, <1>5, <1>7 DEF Inv, SnapshotWhole, Stamped
<1> QED BY <1>5, <1>6, <1>8, <1>9, <1>10, <1>11 DEF Inv

\* The steps that write nothing.
LEMMA StatKeepsInv ==
  ASSUME OneProcess, Inv, NEW p \in Processes, Stat(p)
  PROVE  Inv'
<1>1. pc[p] = "stat" /\ pc' = [pc EXCEPT ![p] = "open slim"] /\ crashes' = crashes
      /\ UNCHANGED <<clock, file, temp, data, mtime, key, mixed, saving, open>>
  BY DEF Stat, Rest
<1>2. PICK i \in Inodes : i = file["snapshot"] /\ i # None
  BY <1>1 DEF Inv, TypeOK, Places, SavingSlim, Files
<1>3. stamp' = [stamp EXCEPT ![p] = mtime[i]] /\ mtime[i] \in 0..MaxTicks /\ mtime[i] <= clock
  BY <1>2 DEF Stat, Inv, TypeOK, Ticks
<1>4. stamp' \in [Processes -> 0..MaxTicks] /\ stamp'[p] = mtime[i]
      /\ \A q \in Processes : stamp'[q] <= clock
  BY <1>3 DEF Inv, TypeOK, Ticks
<1>5. pc' \in [Processes -> Steps] /\ pc'[p] = "open slim"
  BY <1>1 DEF Inv, TypeOK, Steps
<1>6. TypeOK'
  BY <1>1, <1>4, <1>5 DEF Inv, TypeOK
<1>7. Ticks' /\ Apart' /\ SnapshotWhole' /\ Stamped' /\ mixed' = {}
  BY <1>1, <1>4 DEF Inv, Ticks, Apart, SnapshotWhole, Stamped
<1>8. Places'
  <2>1. file["snapshot"] # None /\ data[file["snapshot"]] = saving[p] /\ saving[p] \in Versions
    BY <1>1 DEF Inv, Places, SavingSlim
  <2> QED BY <1>1, <1>2, <1>4, <1>5, <2>1, PlacesOfOne DEF SavingSnapshot, SavingSlim
<1> QED BY <1>6, <1>7, <1>8 DEF Inv

LEMMA RebuildKeepsInv ==
  ASSUME OneProcess, Inv, NEW p \in Processes, Rebuild(p)
  PROVE  Inv'
<1>1. pc' = [pc EXCEPT ![p] = "stat"] /\ crashes' = crashes
      /\ UNCHANGED <<clock, file, temp, data, mtime, key, mixed, open, stamp>>
  BY DEF Rebuild, Rest
<1>2. file["snapshot"] # None /\ data[file["snapshot"]] # Torn
      /\ saving' = [saving EXCEPT ![p] = data[file["snapshot"]]]
  BY DEF Rebuild, Snapshot
<1>3. data[file["snapshot"]] \in Versions
  <2>1. file["snapshot"] \in Inodes
    BY <1>2 DEF Inv, TypeOK, Files
  <2> QED BY <1>2, <2>1 DEF Inv, TypeOK
<1>4. saving' \in [Processes -> Versions \cup {NoVersion}]
      /\ saving'[p] = data[file["snapshot"]]
  BY <1>2, <1>3 DEF Inv, TypeOK
<1>5. pc' \in [Processes -> Steps] /\ pc'[p] = "stat"
  BY <1>1 DEF Inv, TypeOK, Steps
<1>6. TypeOK'
  BY <1>1, <1>4, <1>5 DEF Inv, TypeOK
<1>7. Ticks' /\ Apart' /\ SnapshotWhole' /\ Stamped' /\ mixed' = {}
  BY <1>1 DEF Inv, Ticks, Apart, SnapshotWhole, Stamped
<1>8. Places'
  BY <1>1, <1>2, <1>3, <1>4, <1>5, PlacesOfOne DEF SavingSnapshot, SavingSlim
<1> QED BY <1>6, <1>7, <1>8 DEF Inv

LEMMA CrashKeepsInv ==
  ASSUME OneProcess, Inv, NEW p \in Processes, Crash(p)
  PROVE  Inv'
<1>1. pc' = [pc EXCEPT ![p] = "idle"] /\ open' = [open EXCEPT ![p] = None]
      /\ crashes' \in 0..MaxCrashes
      /\ UNCHANGED <<clock, file, temp, data, mtime, key, mixed, saving, stamp>>
  BY DEF Crash, Inv, TypeOK
<1>2. pc' \in [Processes -> Steps] /\ pc'[p] = "idle" /\ open' \in [Processes -> Inodes \cup {None}]
  BY <1>1 DEF Inv, TypeOK, Steps
<1>3. TypeOK'
  BY <1>1, <1>2 DEF Inv, TypeOK
<1>4. Ticks' /\ Apart' /\ SnapshotWhole' /\ Stamped' /\ mixed' = {}
  BY <1>1 DEF Inv, Ticks, Apart, SnapshotWhole, Stamped
<1>5. Places'
  BY <1>2, PlacesOfOne DEF SavingSnapshot, SavingSlim
<1> QED BY <1>3, <1>4, <1>5 DEF Inv

LEMMA StepInv == OneProcess /\ Inv /\ [Next]_vars => Inv'
<1> SUFFICES ASSUME OneProcess, Inv, [Next]_vars PROVE Inv'
  OBVIOUS
<1>1. ASSUME NEW p \in Processes, Save(p) PROVE Inv'
  BY <1>1, SaveKeepsInv
<1>2. ASSUME NEW p \in Processes, WriteSnapshot(p) PROVE Inv'
  BY <1>2, WriteSnapshotKeepsInv
<1>3. ASSUME NEW p \in Processes, RenameSnapshot(p) PROVE Inv'
  BY <1>3, RenameSnapshotKeepsInv
<1>4. ASSUME NEW p \in Processes, Stat(p) PROVE Inv'
  BY <1>4, StatKeepsInv
<1>5. ASSUME NEW p \in Processes, OpenSlim(p) PROVE Inv'
  BY <1>5, OpenSlimKeepsInv
<1>6. ASSUME NEW p \in Processes, WriteSlim(p) PROVE Inv'
  BY <1>6, WriteSlimKeepsInv
<1>7. ASSUME NEW p \in Processes, RenameSlim(p) PROVE Inv'
  BY <1>7, RenameSlimKeepsInv
<1>8. ASSUME NEW p \in Processes, Rebuild(p) PROVE Inv'
  BY <1>8, RebuildKeepsInv
<1>9. ASSUME NEW p \in Processes, Crash(p) PROVE Inv'
  BY <1>9, CrashKeepsInv
<1>10. CASE UNCHANGED vars
  BY <1>10 DEF vars, Inv, TypeOK, Ticks, Apart, Places, SavingSnapshot, SavingSlim, SnapshotWhole, Stamped
<1> QED BY <1>1, <1>2, <1>3, <1>4, <1>5, <1>6, <1>7, <1>8, <1>9, <1>10 DEF Next

LEMMA AlwaysInv == ASSUME OneProcess PROVE Spec => []Inv
<1>1. Inv /\ [Next]_vars => Inv'
  BY StepInv
<1> QED BY InitInv, <1>1, PTL DEF Spec

\* One process at a time: every variable has its type.
THEOREM TypeCorrect == ASSUME OneProcess PROVE Spec => []TypeOK
<1>1. Inv => TypeOK
  BY DEF Inv
<1> QED BY AlwaysInv, <1>1, PTL

\* One process at a time: the snapshot can be read at every instant, a crash
\* in the middle of save_metadata included.
THEOREM SnapshotAlwaysWhole == ASSUME OneProcess PROVE Spec => []SnapshotWhole
<1>1. Inv => SnapshotWhole
  BY DEF Inv
<1> QED BY AlwaysInv, <1>1, PTL

\* One process at a time: an index that load_slim takes is of the snapshot
\* beside it, whatever save_metadata and its crashes left of either.
THEOREM SlimIsCurrent == ASSUME OneProcess PROVE Spec => []SlimNeverStale
<1>1. Inv => SlimNeverStale
  BY DEF Inv, Stamped, SlimNeverStale, Accepted, Snapshot
<1> QED BY AlwaysInv, <1>1, PTL

-----------------------------------------------------------------------------
(* The files implement SnapshotRegister.                                   *)

\* An index that is taken is the snapshot's, so a reader is given the snapshot.
Held == IF file["snapshot"] = None THEN NoVersion ELSE data[file["snapshot"]]

LEMMA GivenIsHeld == Inv => Given = Held
  BY DEF Inv, Given, Held, Accepted, Snapshot, SnapshotWhole, Stamped

\* What p has begun is all that has been begun.
LEMMA BegunByOne ==
  ASSUME OneProcess, NEW p \in Processes, NEW v,
         v = (IF pc'[p] \in {"write snapshot", "replace snapshot"} THEN saving'[p] ELSE NoVersion)
  PROVE  Begun' = [Begun EXCEPT ![p] = v]
<1>1. \A q \in Processes : q = p
  BY DEF OneProcess
<1>2. Begun' = [q \in Processes |-> v]
  BY <1>1 DEF Begun
<1>3. [Begun EXCEPT ![p] = v] = [q \in Processes |-> v]
  BY <1>1 DEF Begun
<1> QED BY <1>2, <1>3

LEMMA BegunIs ==
  ASSUME NEW p \in Processes
  PROVE  Begun[p] = IF pc[p] \in {"write snapshot", "replace snapshot"} THEN saving[p] ELSE NoVersion
  BY DEF Begun

\* A step that renames no snapshot changes nothing a reader is given: it only
\* opens and writes inodes under temporary names.
LEMMA HeldKept ==
  ASSUME Inv, NEW i \in Inodes, \A g \in Files : i # file[g], file' = file,
         \A j \in Inodes \ {i} : data'[j] = data[j]
  PROVE  Held' = Held
<1>1. "snapshot" \in Files /\ file["snapshot"] \in Inodes \cup {None}
  BY DEF Files, Inv, TypeOK
<1> QED BY <1>1 DEF Held

LEMMA StepSimulates ==
  ASSUME OneProcess, Inv, NEW p \in Processes, Given = Held, Given' = Held',
         \/ Save(p) \/ WriteSnapshot(p) \/ RenameSnapshot(p)
         \/ Stat(p) \/ OpenSlim(p) \/ WriteSlim(p) \/ RenameSlim(p)
         \/ Rebuild(p) \/ Crash(p)
  PROVE  Register!Next \/ UNCHANGED <<Given, Begun>>
<1> DEFINE Saving == {"write snapshot", "replace snapshot"}
<1>0. "snapshot" \in Files /\ "slim" \in Files
  BY DEF Files
\* The simulation's four patterns.
<1>a. ASSUME Held' = Held, pc[p] \notin Saving, pc'[p] \notin Saving
      PROVE  UNCHANGED <<Given, Begun>>
  <2>1. Begun' = [Begun EXCEPT ![p] = NoVersion] /\ Begun[p] = NoVersion
    BY <1>a, BegunByOne, BegunIs
  <2> QED BY <1>a, <2>1 DEF Begun
<1>b. ASSUME Held' = Held, pc[p] \in Saving, pc'[p] \in Saving, saving'[p] = saving[p]
      PROVE  UNCHANGED <<Given, Begun>>
  <2>1. Begun' = [Begun EXCEPT ![p] = saving[p]] /\ Begun[p] = saving[p]
    BY <1>b, BegunByOne, BegunIs
  <2> QED BY <1>b, <2>1 DEF Begun
<1>c. ASSUME Held' = Held, pc[p] \in Saving, pc'[p] \notin Saving
      PROVE  Register!Next
  <2>1. Begun' = [Begun EXCEPT ![p] = NoVersion] /\ Begun[p] = saving[p] /\ saving[p] \in Versions
    BY <1>c, BegunByOne, BegunIs DEF Inv, Places
  <2>2. Register!Abandon(p)
    BY <1>c, <2>1 DEF Register!Abandon
  <2> QED BY <2>2 DEF Register!Next
<1>1. CASE Save(p)
  <2>1. PICK i \in Inodes : Opens(p, "snapshot", i, "write snapshot")
    BY <1>0, <1>1, OpenDisturbs DEF Save, Steps
  <2>2. Held' = Held
    BY <2>1, HeldKept DEF Opens, OpensName, OpensInode, Ticked
  <2>3. PICK v \in Versions : saving' = [saving EXCEPT ![p] = v]
    BY <1>1 DEF Save
  <2>4. pc[p] = "idle" /\ pc'[p] = "write snapshot" /\ saving'[p] = v
    BY <1>1, <2>1, <2>3 DEF Save, Opens, Ticked, Inv, TypeOK
  <2>5. Begun' = [Begun EXCEPT ![p] = v] /\ Begun[p] = NoVersion
    BY <2>4, BegunByOne, BegunIs
  <2>6. Register!Begin(p)
    BY <2>2, <2>5 DEF Register!Begin
  <2> QED BY <2>6 DEF Register!Next
<1>2. CASE WriteSnapshot(p) \/ WriteSlim(p)
  <2>1. /\ \/ pc[p] = "write snapshot" /\ Ticked(p, "replace snapshot")
           \/ pc[p] = "write slim" /\ Ticked(p, "replace slim")
        /\ Writes(p, open[p]) /\ saving' = saving
    <3>1. CASE WriteSnapshot(p)
      <4>1. pc[p] = "write snapshot" /\ "replace snapshot" \in Steps
        BY <3>1 DEF WriteSnapshot, Write, Steps
      <4> QED BY <3>1, <4>1, WriteDisturbs DEF WriteSnapshot, Steps
    <3>2. CASE WriteSlim(p)
      <4>1. pc[p] = "write slim" /\ "replace slim" \in Steps
        BY <3>2 DEF WriteSlim, Write, Steps
      <4> QED BY <3>2, <4>1, WriteDisturbs DEF WriteSlim, Steps
    <3> QED BY <1>2, <3>1, <3>2
  <2>2. PICK i \in Inodes : i = open[p] /\ \A g \in Files : i # file[g]
    <3>1. PICK f \in Files : open[p] = temp[f] /\ temp[f] # None
      BY <1>0, <2>1 DEF Inv, Places, SavingSnapshot, SavingSlim
    <3>2. temp[f] \in Inodes /\ \A g \in Files : temp[f] # file[g]
      BY <3>1 DEF Inv, TypeOK, Apart
    <3> QED BY <3>1, <3>2
  <2>3. Held' = Held
    <3>1. \A j \in Inodes \ {i} : data'[j] = data[j]
      BY <2>1, <2>2 DEF Writes, Inv, TypeOK
    <3> QED BY <2>1, <2>2, <3>1, HeldKept DEF Ticked
  <2>4. pc'[p] = IF pc[p] = "write snapshot" THEN "replace snapshot" ELSE "replace slim"
    BY <2>1 DEF Ticked, Inv, TypeOK
  <2> QED BY <1>a, <1>b, <2>1, <2>3, <2>4
<1>3. CASE RenameSnapshot(p)
  <2>1. pc[p] = "replace snapshot" /\ temp["snapshot"] # None /\ data[temp["snapshot"]] = saving[p]
        /\ saving[p] \in Versions
    BY <1>3 DEF RenameSnapshot, Rename, Inv, Places, SavingSnapshot
  <2>2. file'["snapshot"] = temp["snapshot"] /\ pc'[p] = "stat" /\ UNCHANGED <<data, saving>>
    BY <1>0, <1>3, <2>1 DEF RenameSnapshot, Rename, Rest, Inv, TypeOK
  <2>3. Held' = saving[p]
    BY <2>1, <2>2 DEF Held
  <2>4. Begun' = [Begun EXCEPT ![p] = NoVersion] /\ Begun[p] = saving[p]
    BY <2>1, <2>2, BegunByOne, BegunIs
  <2>5. Register!Commit(p)
    BY <2>1, <2>3, <2>4 DEF Register!Commit
  <2> QED BY <2>5 DEF Register!Next
<1>4. CASE Stat(p) \/ Rebuild(p)
  <2>1. /\ UNCHANGED <<file, data>> /\ pc[p] \in {"idle", "stat"}
        /\ pc'[p] \in {"open slim", "stat"}
    BY <1>4 DEF Stat, Rebuild, Rest, Inv, TypeOK
  <2>2. Held' = Held
    BY <2>1 DEF Held
  <2> QED BY <1>a, <2>1, <2>2
<1>5. CASE OpenSlim(p)
  <2>1. PICK i \in Inodes : Opens(p, "slim", i, "write slim")
    BY <1>0, <1>5, OpenDisturbs DEF OpenSlim, Steps
  <2>2. Held' = Held
    BY <2>1, HeldKept DEF Opens, OpensName, OpensInode, Ticked
  <2>3. pc[p] = "open slim" /\ pc'[p] = "write slim"
    BY <1>5, <2>1 DEF OpenSlim, Opens, Ticked, Inv, TypeOK
  <2> QED BY <1>a, <2>2, <2>3
<1>6. CASE RenameSlim(p)
  <2>1. /\ file'["snapshot"] = file["snapshot"] /\ data' = data
        /\ pc[p] = "replace slim" /\ pc'[p] = "idle"
    BY <1>0, <1>6 DEF RenameSlim, Rename, Rest, Inv, TypeOK
  <2>2. Held' = Held
    BY <2>1 DEF Held
  <2> QED BY <1>a, <2>1, <2>2
<1>7. CASE Crash(p)
  <2>1. UNCHANGED <<file, data>> /\ pc'[p] = "idle"
    BY <1>7 DEF Crash, Inv, TypeOK
  <2>2. Held' = Held
    BY <2>1 DEF Held
  <2> QED BY <1>a, <1>c, <2>1, <2>2
<1> QED
  BY <1>1, <1>2, <1>3, <1>4, <1>5, <1>6, <1>7

\* One process at a time: the snapshot and its index are one register, in
\* which a save is completed in one step or leaves no trace (save_metadata,
\* load_metadata).
THEOREM FilesAreARegister == ASSUME OneProcess PROVE Spec => ActsAsRegister
<1>1. Init => Register!Init
  <2> SUFFICES ASSUME Init PROVE Register!Init
    OBVIOUS
  <2>1. "snapshot" \in Files /\ file["snapshot"] = None
    BY DEF Init, Files
  <2>2. Given = NoVersion
    BY <2>1 DEF Given, Accepted, Snapshot
  <2>3. Begun = [p \in Processes |-> NoVersion]
    BY DEF Init, Begun
  <2> QED BY <2>2, <2>3 DEF Register!Init
<1> DEFINE Same == Given = Held
<1>2. Inv => Same
  BY GivenIsHeld
<1>3. Inv /\ Same /\ Same' /\ [Next]_vars => [Register!Next]_<<Given, Begun>>
  <2> SUFFICES ASSUME Inv, Same, Same', [Next]_vars PROVE [Register!Next]_<<Given, Begun>>
    OBVIOUS
  <2>1. CASE UNCHANGED vars
    BY <2>1 DEF vars, Given, Begun, Accepted, Snapshot
  <2>2. CASE Next
    BY <2>2, StepSimulates DEF Next
  <2> QED BY <2>1, <2>2
<1> HIDE DEF Same
<1> QED BY <1>1, <1>2, <1>3, AlwaysInv, PTL DEF Spec, ActsAsRegister, Register!Spec
=============================================================================
