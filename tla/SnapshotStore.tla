----------------------------- MODULE SnapshotStore -----------------------------
(***************************************************************************)
(* The life of the service around its snapshot file: load, seed, serve,    *)
(* stop, and every way of dying in between.                                *)
(*                                                                         *)
(* A write takes the store's lock, changes the memory and, lock held,      *)
(* replaces the file by way of a temporary one: written, fsynced, renamed, *)
(* and the directory fsynced.  A step of this module is one of those       *)
(* calls.  The process can be killed between any two of them, which leaves *)
(* the file as the program last saw it, or the machine can lose power,     *)
(* which may undo a rename whose directory was not fsynced and may tear a  *)
(* file whose data was not.                                                *)
(*                                                                         *)
(* Entities are rows that are only ever added; AreaInterlock, SampleWindow *)
(* and AlertLifecycle say what they hold and how they are edited.          *)
(***************************************************************************)
EXTENDS Integers, Sequences, FiniteSets

CONSTANTS
  Requesters,    \* goroutines that serve requests, one request each at a time
  Main,          \* the goroutine of main: seed and final save
  Fixtures,      \* the seeded rows, in the order seed creates them
  Zones,         \* those of them that are clean zones
  Numbered,      \* those of them that are named by NewID, not by the seed
  MaxRequests,   \* bound: requests that add a row
  MaxStarts,     \* bound: starts of the process
  SaveMayFail,   \* may a call on the temporary file fail?
  DirSyncMayFail \* may the fsync of the directory fail? its error is dropped

FixtureNames == {Fixtures[i] : i \in DOMAIN Fixtures}

ASSUME SnapshotAssumption ==
  /\ Fixtures \in Seq(FixtureNames)
  /\ Zones \subseteq FixtureNames
  /\ Numbered \subseteq FixtureNames \ Zones
  /\ FixtureNames \cap Nat = {}
  /\ Main \notin Requesters
  /\ MaxRequests \in Nat
  /\ MaxStarts \in Nat
  /\ SaveMayFail \in BOOLEAN
  /\ DirSyncMayFail \in BOOLEAN

Workers == Requesters \cup {Main}

\* A stored entity: its id, and the fixture or the request it comes from.
Row == [id : FixtureNames \cup (Nat \ {0}), from : FixtureNames \cup (Nat \ {0})]

\* The state that is persisted.  One sequence of ids stands for Seq's several.
State == [rows : SUBSET Row, seq : Nat]

EmptyState == [rows |-> {}, seq |-> 0]

\* A file is absent, whole, torn by a power loss or damaged by someone else.
FileStates == {"absent", "whole", "torn", "damaged"}

File == [is : FileStates, rows : SUBSET Row, seq : Nat]

Unreadable(how) == [is |-> how, rows |-> {}, seq |-> 0]

Snapshot(s) == [is |-> "whole", rows |-> s.rows, seq |-> s.seq]

VARIABLES
  phase,   \* of the process: off, seed, serve or stop
  mem,     \* the store's state in memory
  save,    \* the save in progress: who runs it, its next step, temp data synced?
  job,     \* the row each worker is about to store or storing, if any
  todo,    \* fixtures that seed has not come to yet
  file,    \* the snapshot file as programs see it
  synced,  \* has the data of `file' reached the disk?
  durable, \* the snapshot file as the disk's directory has it
  acked,   \* history: rows whose writer was answered with success
  refused, \* history: rows whose writer was answered with an error
  asked,   \* requests so far
  starts   \* starts so far

process == <<phase, mem, save, job, todo>>
disk == <<file, synced, durable>>
vars == <<process, disk, acked, refused, asked, starts>>

NoSave == [by |-> Main, step |-> "none", synced |-> FALSE]

LockFree == save.step = "none"

Saving(w, step) == save.step = step /\ save.by = w

-----------------------------------------------------------------------------
\* The process is gone, and with it whatever was not in the file.
Down ==
  /\ phase' = "off"
  /\ mem' = EmptyState
  /\ save' = NoSave
  /\ job' = [w \in Workers |-> {}]
  /\ todo' = << >>

\* Mutant of Loaded: the ids start over.
LoadedWithoutSeq(f) == [rows |-> f.rows, seq |-> 0]

\* Mutant of Loaded: what the file holds is ignored.
LoadedAfresh(f) == EmptyState

\* Load: nothing from a file that is absent or cannot be decoded.
Loaded(f) == [rows |-> f.rows, seq |-> f.seq]

\* SeedIfEmpty asks for clean zones and for nothing else.
NeedsSeed(s) == \A r \in s.rows : r.id \notin Zones

\* Load, then SeedIfEmpty.  A file that cannot be decoded is moved to .bak.
Start ==
  /\ phase = "off"
  /\ starts < MaxStarts
  /\ starts' = starts + 1
  /\ mem' = Loaded(file)
  /\ file' = IF file.is \in {"torn", "damaged"} THEN Unreadable("absent") ELSE file
  /\ \/ /\ ~NeedsSeed(mem')
        /\ phase' = "serve"
        /\ todo' = << >>
     \/ /\ NeedsSeed(mem')
        /\ phase' = "seed"
        /\ todo' = Fixtures
  /\ UNCHANGED <<save, job, synced, durable, acked, refused, asked>>

\* Mutant of NewRow: the number is taken before it is incremented.
NewRowEarly(from) == [id |-> mem.seq, from |-> from]

\* A row under the id that NewID hands out next.
NewRow(from) == [id |-> mem.seq + 1, from |-> from]

\* The lock is taken and released for the id alone, which no save follows.
TakeId(w, from) ==
  /\ LockFree
  /\ job' = [job EXCEPT ![w] = {NewRow(from)}]
  /\ mem' = [mem EXCEPT !.seq = @ + 1]

\* seed comes to its next fixture.
SeedNext ==
  /\ phase = "seed"
  /\ job[Main] = {}
  /\ todo # << >>
  /\ todo' = Tail(todo)
  /\ \/ Head(todo) \in Numbered /\ TakeId(Main, Head(todo))
     \/ /\ Head(todo) \notin Numbered
        /\ job' = [job EXCEPT ![Main] = {[id |-> Head(todo), from |-> Head(todo)]}]
        /\ UNCHANGED mem
  /\ UNCHANGED <<phase, save, disk, acked, refused, asked, starts>>

SeedEnd ==
  /\ phase = "seed"
  /\ job[Main] = {}
  /\ todo = << >>
  /\ phase' = "serve"
  /\ UNCHANGED <<mem, save, job, todo, disk, acked, refused, asked, starts>>

\* A request that will store a new entity asks for its id.  One that runs when
\* main is told to stop goes on, and so does a sweep.
Request(w) ==
  /\ phase \in {"serve", "stop"}
  /\ job[w] = {}
  /\ asked < MaxRequests
  /\ asked' = asked + 1
  /\ TakeId(w, asked')
  /\ UNCHANGED <<phase, save, todo, disk, acked, refused, starts>>

-----------------------------------------------------------------------------
\* A repository's Create: the memory changes before the file does.
Create(w) ==
  /\ job[w] # {}
  /\ LockFree
  /\ mem' = [mem EXCEPT !.rows = @ \cup job[w]]
  /\ save' = [by |-> w, step |-> "write", synced |-> FALSE]
  /\ UNCHANGED <<phase, job, todo, disk, acked, refused, asked, starts>>

\* main has been told to stop; running requests get ShutdownTimeout to finish.
Stop ==
  /\ phase = "serve"
  /\ phase' = "stop"
  /\ UNCHANGED <<mem, save, job, todo, disk, acked, refused, asked, starts>>

FinalSave ==
  /\ phase = "stop"
  /\ LockFree
  /\ save' = [by |-> Main, step |-> "write", synced |-> FALSE]
  /\ UNCHANGED <<phase, mem, job, todo, disk, acked, refused, asked, starts>>

\* CreateTemp and Write.
WriteTemp(w) ==
  /\ Saving(w, "write")
  /\ save' = [save EXCEPT !.step = "sync"]
  /\ UNCHANGED <<phase, mem, job, todo, disk, acked, refused, asked, starts>>

\* Mutant of SyncTemp: the temporary file is renamed without an fsync.
SyncTempSkipped(w) ==
  /\ Saving(w, "sync")
  /\ save' = [save EXCEPT !.step = "rename"]
  /\ UNCHANGED <<phase, mem, job, todo, disk, acked, refused, asked, starts>>

SyncTemp(w) ==
  /\ Saving(w, "sync")
  /\ save' = [save EXCEPT !.step = "rename", !.synced = TRUE]
  /\ UNCHANGED <<phase, mem, job, todo, disk, acked, refused, asked, starts>>

\* Mutant of Rename: the state was encoded before the row was added.
RenameStale(w) ==
  /\ Saving(w, "rename")
  /\ file' = Snapshot([mem EXCEPT !.rows = @ \ job[w]])
  /\ synced' = save.synced
  /\ save' = [save EXCEPT !.step = "syncdir"]
  /\ UNCHANGED <<phase, mem, job, todo, durable, acked, refused, asked, starts>>

\* The memory cannot have changed since it was encoded: the lock is held.
Rename(w) ==
  /\ Saving(w, "rename")
  /\ file' = Snapshot(mem)
  /\ synced' = save.synced
  /\ save' = [save EXCEPT !.step = "syncdir"]
  /\ UNCHANGED <<phase, mem, job, todo, durable, acked, refused, asked, starts>>

\* The lock is released and the caller gets the result.  After a final save,
\* and after a failed write of the seed, main leaves.
Unlock(w) ==
  /\ save' = NoSave
  /\ job' = [job EXCEPT ![w] = {}]
  /\ UNCHANGED <<phase, mem, todo>>

Leaves(w) == w = Main /\ phase = "stop"

\* Mutant of SyncDir: the directory is left alone.
SyncDirSkipped(w) ==
  /\ Saving(w, "syncdir")
  /\ acked' = acked \cup job[w]
  /\ IF Leaves(w) THEN Down ELSE Unlock(w)
  /\ UNCHANGED <<file, synced, durable, refused, asked, starts>>

SyncDir(w) ==
  /\ Saving(w, "syncdir")
  /\ \/ durable' = file
     \/ DirSyncMayFail /\ durable' = durable
  /\ acked' = acked \cup job[w]
  /\ IF Leaves(w) THEN Down ELSE Unlock(w)
  /\ UNCHANGED <<file, synced, refused, asked, starts>>

\* Mutant of SaveFails: the lock is not released on the way out.
SaveFailsLocked(w) ==
  /\ SaveMayFail
  /\ save.by = w /\ save.step \in {"write", "sync", "rename"}
  /\ refused' = refused \cup job[w]
  /\ save' = [save EXCEPT !.step = "abandoned"]
  /\ job' = [job EXCEPT ![w] = {}]
  /\ UNCHANGED <<phase, mem, todo, disk, acked, asked, starts>>

\* A call on the temporary file fails: it is removed, the memory stays changed.
SaveFails(w) ==
  /\ SaveMayFail
  /\ save.by = w /\ save.step \in {"write", "sync", "rename"}
  /\ refused' = refused \cup job[w]
  /\ IF Leaves(w) \/ (w = Main /\ phase = "seed") THEN Down ELSE Unlock(w)
  /\ UNCHANGED <<disk, acked, asked, starts>>

-----------------------------------------------------------------------------
\* The process is killed, or leaves with requests still running.
Crash ==
  /\ phase # "off"
  /\ Down
  /\ UNCHANGED <<disk, acked, refused, asked, starts>>

\* The disk may know the last rename or not.
PowerLoss ==
  /\ phase # "off" \/ durable # file
  /\ Down
  /\ \/ file' = durable
     \/ file' = IF synced THEN file ELSE Unreadable("torn")
  /\ durable' = file'
  /\ synced' = TRUE
  /\ UNCHANGED <<acked, refused, asked, starts>>

\* Someone spoils the file of a stopped service, and what it promised with it.
Damage ==
  /\ phase = "off"
  /\ file.is = "whole"
  /\ file' = Unreadable("damaged")
  /\ durable' = file'
  /\ synced' = TRUE
  /\ acked' = {}
  /\ UNCHANGED <<process, refused, asked, starts>>

-----------------------------------------------------------------------------
Init ==
  /\ phase = "off"
  /\ mem = EmptyState
  /\ save = NoSave
  /\ job = [w \in Workers |-> {}]
  /\ todo = << >>
  /\ file = Unreadable("absent")
  /\ synced = TRUE
  /\ durable = file
  /\ acked = {}
  /\ refused = {}
  /\ asked = 0
  /\ starts = 0

SaveStep(w) == WriteTemp(w) \/ SyncTemp(w) \/ Rename(w) \/ SyncDir(w)

Next ==
  \/ Start
  \/ SeedNext
  \/ SeedEnd
  \/ \E w \in Requesters : Request(w)
  \/ \E w \in Workers : Create(w)
  \/ Stop
  \/ FinalSave
  \/ \E w \in Workers : WriteTemp(w)
  \/ \E w \in Workers : SyncTemp(w)
  \/ \E w \in Workers : Rename(w)
  \/ \E w \in Workers : SyncDir(w)
  \/ \E w \in Workers : SaveFails(w)
  \/ Crash
  \/ PowerLoss
  \/ Damage

\* A goroutine that waits for the lock gets it, one that has it goes on.
Fairness ==
  \A w \in Workers : WF_vars(Create(w)) /\ WF_vars(SaveStep(w))

Spec == Init /\ [][Next]_vars /\ Fairness

-----------------------------------------------------------------------------
\* Types: whatever has been loaded, seeded, saved or lost, the store and the
\* files hold rows with proper ids.
TypeOK ==
  /\ phase \in {"off", "seed", "serve", "stop"}
  /\ mem \in State
  /\ save \in [by : Workers, synced : BOOLEAN,
               step : {"none", "write", "sync", "rename", "syncdir"}]
  /\ job \in [Workers -> SUBSET Row]
  /\ todo \in Seq(FixtureNames)
  /\ file \in File
  /\ synced \in BOOLEAN
  /\ durable \in File
  /\ acked \in SUBSET Row
  /\ refused \in SUBSET Row
  /\ asked \in Nat
  /\ starts \in Nat

\* What a writer was told is stored is in the directory on disk ever after,
\* so that no kill, power loss or restart loses it (saveLocked returns after
\* fsync, rename and directory fsync only).  This takes the directory fsync to
\* succeed, whose error is dropped, and rows that stay: samples that Append
\* trims in a later save are not among them.
AckedSurvive == acked \subseteq durable.rows

\* Nobody, not even after a power loss, finds a snapshot written half way:
\* the data is on disk before the rename makes it the file.
FileNeverTorn == file.is # "torn" /\ durable.is # "torn"

\* A reader gets the read lock between saves only: every row it can see
\* survives a kill, the rows of failed saves excepted.
VisibleIsOnFile == LockFree => mem.rows \subseteq file.rows \cup refused

\* Ids are handed out under a lock of its own and saved later, if at all; no
\* two rows that are stored share one, be it in the memory, in the file or in
\* the directory on disk, which a power loss may fall back to.  What writers
\* were promised is on disk by AckedSurvive.
IdsUnique ==
  \A r, s \in mem.rows \cup file.rows \cup durable.rows : r.id = s.id => r = s

\* Snapshots reach the disk in the order the memory went through them: none
\* is ever replaced by one that lacks a row of it or has ids to hand out again.
\* Of samples this holds until Append trims them: a later snapshot without the
\* oldest ones is as it should be.
SnapshotsAdvance ==
  [][\/ durable'.is = "damaged"
     \/ /\ durable.rows \subseteq durable'.rows
        /\ durable.seq <= durable'.seq]_vars

\* A writer waits for the lock and for the disk, and is then answered or dies
\* with the process; a save that fails must let the next one in.
WritersAnswered ==
  \A w \in Workers : job[w] # {} ~> job[w] = {}
=============================================================================
