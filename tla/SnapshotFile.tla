--------------------------- MODULE SnapshotFile ---------------------------
(***************************************************************************)
(* The AUR snapshot and its slim index on disk: save_metadata, save_slim,  *)
(* load_slim and load_metadata of full_aur/metadata.py.  The watcher and   *)
(* `trustsight review` save both files without a lock between them.        *)
(*                                                                         *)
(* Each file is written under a temporary name, one and the same for every *)
(* process, and renamed into place.  What a process holds open is the      *)
(* inode, not the name.  An inode's (mtime_ns, size) is abstracted to a    *)
(* tick of one clock; the bytes to whose metadata they are, or Torn.       *)
(***************************************************************************)
EXTENDS Naturals

CONSTANTS
  Processes,   \* what calls save_metadata and load_metadata
  Versions,    \* the metadata dumps there are to save
  Torn,        \* bytes that do not parse
  NoVersion,   \* no dump
  MaxTicks,    \* bound: openings and writings of files
  MaxCrashes   \* bound: crashes

ASSUME FileAssumption ==
  /\ Torn \notin Versions
  /\ NoVersion \notin Versions
  /\ NoVersion # Torn
  /\ MaxTicks \in Nat
  /\ MaxCrashes \in Nat

Files  == {"snapshot", "slim"}
Inodes == 1..MaxTicks
None   == 0          \* no inode, no key

VARIABLES
  clock,   \* ticks so far
  file,    \* file[f]: the inode at its name, or None
  temp,    \* temp[f]: the inode at its temporary name, or None
  data,    \* data[i]: the dump inode i holds, or Torn
  mtime,   \* mtime[i]: the tick of i's last change
  key,     \* key[i]: for a slim index, the stamp written into it
  mixed,   \* inodes two processes have had open for writing at once
  pc,      \* pc[p]: "idle", or the step of save_metadata or save_slim p is at
  saving,  \* saving[p]: the dump p is writing
  open,    \* open[p]: the inode p has open
  stamp,   \* stamp[p]: the snapshot's (mtime_ns, size) as p read it
  crashes

vars == <<clock, file, temp, data, mtime, key, mixed, pc, saving, open, stamp, crashes>>

-----------------------------------------------------------------------------
(* Plausible bugs, each checked to break a property when it stands in for  *)
(* the definition its comment names.                                       *)

\* Accepted: the stamp is not looked at.
AcceptedUnstamped ==
  /\ file["slim"] # None
  /\ file["snapshot"] # None
  /\ data[file["slim"]] # Torn

\* Open: the file is opened under its own name.
OpenInPlace(p, f, next) ==
  /\ clock < MaxTicks
  /\ clock' = clock + 1
  /\ LET i == IF file[f] = None THEN clock + 1 ELSE file[f]
     IN  /\ temp' = [temp EXCEPT ![f] = i]
         /\ open' = [open EXCEPT ![p] = i]
         /\ data' = [data EXCEPT ![i] = Torn]
         /\ mtime' = [mtime EXCEPT ![i] = clock + 1]
  /\ pc' = [pc EXCEPT ![p] = next]
  /\ UNCHANGED <<file, key, mixed, crashes>>

\* Rebuild: a missing or unreadable snapshot is indexed too.
RebuildBlind(p) ==
  /\ pc[p] = "idle"
  /\ saving' = [saving EXCEPT ![p] = IF file["snapshot"] = None THEN Torn ELSE data[file["snapshot"]]]
  /\ pc' = [pc EXCEPT ![p] = "stat"]
  /\ UNCHANGED <<clock, file, temp, data, mtime, key, mixed, open, stamp, crashes>>

-----------------------------------------------------------------------------
Writing(p, i) == pc[p] \in {"write snapshot", "write slim"} /\ open[p] = i

\* load_slim takes the index: it parses and its stamp is the snapshot's.
Accepted ==
  /\ file["slim"] # None
  /\ file["snapshot"] # None
  /\ data[file["slim"]] # Torn
  /\ key[file["slim"]] = mtime[file["snapshot"]]

\* load_snapshot's result.
Snapshot == IF file["snapshot"] = None THEN Torn ELSE data[file["snapshot"]]

Rest(p, where) ==
  /\ pc' = [pc EXCEPT ![p] = where]
  /\ UNCHANGED crashes

Init ==
  /\ clock = 0
  /\ file = [f \in Files |-> None]
  /\ temp = [f \in Files |-> None]
  /\ data = [i \in Inodes |-> Torn]
  /\ mtime = [i \in Inodes |-> None]
  /\ key = [i \in Inodes |-> None]
  /\ mixed = {}
  /\ pc = [p \in Processes |-> "idle"]
  /\ saving = [p \in Processes |-> NoVersion]
  /\ open = [p \in Processes |-> None]
  /\ stamp = [p \in Processes |-> None]
  /\ crashes = 0

-----------------------------------------------------------------------------
\* open(tmp, "w"): the inode under the temporary name is truncated; a new one
\* is made when there is none.
Open(p, f, next) ==
  /\ clock < MaxTicks
  /\ clock' = clock + 1
  /\ LET i == IF temp[f] = None THEN clock + 1 ELSE temp[f]
     IN  /\ temp' = [temp EXCEPT ![f] = i]
         /\ open' = [open EXCEPT ![p] = i]
         /\ data' = [data EXCEPT ![i] = Torn]
         /\ mtime' = [mtime EXCEPT ![i] = clock + 1]
         /\ mixed' = IF \E q \in Processes \ {p} : Writing(q, i) THEN mixed \cup {i}
                     ELSE mixed \ {i}
  /\ Rest(p, next)
  /\ UNCHANGED <<file, key>>

\* The write ends and the file is closed.  Two that overlapped leave what the
\* last of them wrote, or a mixture.
Write(p, where, next) ==
  /\ pc[p] = where
  /\ clock < MaxTicks
  /\ clock' = clock + 1
  /\ LET i == open[p]
     IN  /\ \E bytes \in {saving[p], Torn} :
              /\ bytes = Torn => i \in mixed
              /\ (\E q \in Processes \ {p} : Writing(q, i)) => bytes = Torn
              /\ data' = [data EXCEPT ![i] = bytes]
         /\ mtime' = [mtime EXCEPT ![i] = clock + 1]
         /\ key' = [key EXCEPT ![i] = stamp[p]]
  /\ Rest(p, next)
  /\ UNCHANGED <<file, temp, mixed, saving, open, stamp>>

\* os.replace, which raises when another process has taken the file away.
Rename(p, f, where, next) ==
  /\ pc[p] = where
  /\ IF temp[f] = None THEN UNCHANGED <<file, temp>> /\ Rest(p, "idle")
     ELSE /\ file' = [file EXCEPT ![f] = temp[f]]
          /\ temp' = [temp EXCEPT ![f] = None]
          /\ Rest(p, next)
  /\ open' = [open EXCEPT ![p] = None]
  /\ UNCHANGED <<clock, data, mtime, key, mixed, saving, stamp>>

-----------------------------------------------------------------------------
\* save_metadata.
Save(p) ==
  /\ pc[p] = "idle"
  /\ \E v \in Versions : saving' = [saving EXCEPT ![p] = v]
  /\ Open(p, "snapshot", "write snapshot")
  /\ stamp' = [stamp EXCEPT ![p] = None]

WriteSnapshot(p)  == Write(p, "write snapshot", "replace snapshot")
RenameSnapshot(p) == Rename(p, "snapshot", "replace snapshot", "stat")

\* save_slim: the stamp is read from the snapshot that is there now.
Stat(p) ==
  /\ pc[p] = "stat"
  /\ stamp' = [stamp EXCEPT ![p] = mtime[file["snapshot"]]]
  /\ Rest(p, "open slim")
  /\ UNCHANGED <<clock, file, temp, data, mtime, key, mixed, saving, open>>

OpenSlim(p) ==
  /\ pc[p] = "open slim"
  /\ Open(p, "slim", "write slim")
  /\ UNCHANGED <<saving, stamp>>

WriteSlim(p)  == Write(p, "write slim", "replace slim")
RenameSlim(p) == Rename(p, "slim", "replace slim", "idle")

\* load_metadata(slim=True) that finds no current index reads the snapshot
\* and writes a new index.
Rebuild(p) ==
  /\ pc[p] = "idle"
  /\ ~Accepted
  /\ Snapshot # Torn
  /\ saving' = [saving EXCEPT ![p] = Snapshot]
  /\ Rest(p, "stat")
  /\ UNCHANGED <<clock, file, temp, data, mtime, key, mixed, open, stamp>>

\* The process dies; the files stay as they are.
Crash(p) ==
  /\ pc[p] # "idle"
  /\ crashes < MaxCrashes
  /\ crashes' = crashes + 1
  /\ pc' = [pc EXCEPT ![p] = "idle"]
  /\ open' = [open EXCEPT ![p] = None]
  /\ UNCHANGED <<clock, file, temp, data, mtime, key, mixed, saving, stamp>>

Next ==
  \E p \in Processes :
    \/ Save(p) \/ WriteSnapshot(p) \/ RenameSnapshot(p)
    \/ Stat(p) \/ OpenSlim(p) \/ WriteSlim(p) \/ RenameSlim(p)
    \/ Rebuild(p) \/ Crash(p)

Spec == Init /\ [][Next]_vars

-----------------------------------------------------------------------------
Steps == {"idle", "write snapshot", "replace snapshot", "stat", "open slim",
          "write slim", "replace slim"}

TypeOK ==
  /\ clock \in 0..MaxTicks
  /\ file \in [Files -> Inodes \cup {None}]
  /\ temp \in [Files -> Inodes \cup {None}]
  /\ data \in [Inodes -> Versions \cup {Torn}]
  /\ mtime \in [Inodes -> 0..MaxTicks]
  /\ key \in [Inodes -> 0..MaxTicks]
  /\ mixed \in SUBSET Inodes
  /\ pc \in [Processes -> Steps]
  /\ saving \in [Processes -> Versions \cup {NoVersion}]
  /\ open \in [Processes -> Inodes \cup {None}]
  /\ stamp \in [Processes -> 0..MaxTicks]
  /\ crashes \in 0..MaxCrashes

\* "os.replace keeps a crash from leaving a half-written snapshot": what is at
\* the snapshot's name can be read, at every instant.
SnapshotWhole == file["snapshot"] # None => data[file["snapshot"]] # Torn

\* "stamped with its (mtime_ns, size) so a stale sidecar is never mistaken for
\* a current one": an index that load_slim takes is of the snapshot beside it
\* (of one that can be read: SnapshotWhole speaks of the others).
SlimNeverStale == Accepted /\ Snapshot # Torn => data[file["slim"]] = Snapshot

\* What load_metadata(slim=True) gives a reader: the index when it is taken,
\* else the snapshot.
Given ==
  IF Accepted THEN data[file["slim"]]
  ELSE IF Snapshot = Torn THEN NoVersion ELSE Snapshot

\* The dumps whose saves are under way: from the opening of the temporary file
\* until the snapshot is renamed.
Begun ==
  [p \in Processes |->
     IF pc[p] \in {"write snapshot", "replace snapshot"} THEN saving[p] ELSE NoVersion]

\* Together the two files are one register: whatever is on disk and wherever a
\* process died, a reader is given the dump of the last snapshot that was
\* renamed into place, and building an index or losing one changes nothing.
Register == INSTANCE SnapshotRegister WITH held <- Given, begun <- Begun
ActsAsRegister == Register!Spec
=============================================================================
