-------------------------- MODULE SnapshotStoreProofs --------------------------
(***************************************************************************)
(* Safety of SnapshotStore, for any fixtures, workers, crashes and failing *)
(* saves.                                                                  *)
(*                                                                         *)
(* The inductive invariant follows a row on its way: worker, memory, file, *)
(* directory on disk.  Each station holds at least what the next one does. *)
(***************************************************************************)
EXTENDS SnapshotStore, TLAPS

Running == phase # "off"

\* Who holds the lock, and what a save in progress has brought about.
LockInv ==
  /\ ~Running => LockFree /\ mem = EmptyState /\ job = [w \in Workers |-> {}]
  /\ phase \in {"serve", "stop"} => job[Main] = {}
  /\ phase = "seed" => \A w \in Requesters : job[w] = {}
  /\ ~LockFree => Running /\ job[save.by] \subseteq mem.rows
  /\ ~LockFree => phase = "stop" \/ job[save.by] # {}
  /\ save.step = "rename" => save.synced
  /\ save.step = "syncdir" => file = Snapshot(mem)
  /\ synced

\* Memory is ahead of the file, the file ahead of the directory on disk.
AheadInv ==
  /\ file.is # "torn" /\ durable.is # "torn"
  /\ file.is = "damaged" => file = Unreadable("damaged")
  /\ durable.is = "damaged" => durable = Unreadable("damaged")
  /\ durable.rows \subseteq file.rows /\ durable.seq <= file.seq
  /\ Running => file.rows \subseteq mem.rows /\ file.seq <= mem.seq

\* What was promised is at every station.
AckedInv ==
  DirSyncMayFail = FALSE =>
    /\ acked \subseteq durable.rows
    /\ Running => acked \subseteq mem.rows

\* What the file lacks is being saved or was refused.
VisibleInv ==
  Running =>
    mem.rows \subseteq file.rows \cup refused \cup (IF LockFree THEN {} ELSE job[save.by])

\* The rows of S have ids of their own: names of fixtures, or numbers up to n.
Sound(S, n) ==
  /\ \A r, s \in S : r.id = s.id => r = s
  /\ \A r \in S : r.id \in FixtureNames => r.from = r.id
  /\ \A r \in S : r.id \in Nat => r.id <= n

\* The rows that are stored or about to be.
Rows == mem.rows \cup UNION {job[w] : w \in Workers}

IdsInv ==
  /\ Sound(Rows, mem.seq)
  /\ Sound(file.rows, file.seq)
  /\ Sound(durable.rows, durable.seq)

-----------------------------------------------------------------------------
\* What the conversions between states and files return.
LEMMA Conversions ==
    /\ \A how \in FileStates : Unreadable(how) \in File
    /\ \A s \in State : Snapshot(s) \in File
    /\ \A f \in File : Loaded(f) \in State
    /\ EmptyState \in State
  BY DEF Unreadable, Snapshot, Loaded, EmptyState, State, File, FileStates

LEMMA NewRowTyped ==
    ASSUME mem \in State, NEW from \in FixtureNames \cup (Nat \ {0})
    PROVE  NewRow(from) \in Row /\ [mem EXCEPT !.seq = @ + 1] \in State
  BY DEF NewRow, Row, State

\* TypeOK is inductive by itself.
LEMMA TypeInit == Init => TypeOK
  BY SnapshotAssumption DEF Init, TypeOK, EmptyState, State, NoSave, Workers, Unreadable, File, FileStates

\* The process ends or a save does: what remains has its types.
LEMMA TypeEnds ==
    ASSUME TypeOK, Down \/ (\E w \in Workers : Unlock(w))
    PROVE  /\ phase' \in {"off", "seed", "serve", "stop"}
           /\ mem' \in State
           /\ save' \in [by : Workers, synced : BOOLEAN,
                         step : {"none", "write", "sync", "rename", "syncdir"}]
           /\ job' \in [Workers -> SUBSET Row]
           /\ todo' \in Seq(FixtureNames)
<1>1. CASE Down
  BY <1>1, Conversions DEF Down, NoSave, Workers
<1>2. CASE \E w \in Workers : Unlock(w)
  BY <1>2 DEF TypeOK, Unlock, NoSave, Workers
<1> QED  BY <1>1, <1>2

LEMMA TypeNext == TypeOK /\ [Next]_vars => TypeOK'
<1> SUFFICES ASSUME TypeOK, [Next]_vars PROVE TypeOK'
  OBVIOUS
<1> USE DEF TypeOK
<1>1. CASE Start
  <2>1. mem' \in State /\ file' \in File
    BY <1>1, Conversions DEF Start, FileStates
  <2>2. todo' \in Seq(FixtureNames) /\ phase' \in {"serve", "seed"}
    <3>1. << >> \in Seq(FixtureNames)
      OBVIOUS
    <3> QED  BY <1>1, <3>1, SnapshotAssumption DEF Start
  <2>3. starts' \in Nat
    BY <1>1 DEF Start
  <2> QED  BY <1>1, <2>1, <2>2, <2>3 DEF Start
<1>2. CASE SeedNext
  <2>1. Head(todo) \in FixtureNames /\ Tail(todo) \in Seq(FixtureNames)
    BY <1>2 DEF SeedNext
  <2>2. Main \in Workers
    BY DEF Workers
  <2>3. CASE TakeId(Main, Head(todo))
    BY <1>2, <2>1, <2>2, <2>3, NewRowTyped DEF SeedNext, TakeId, disk
  <2>4. CASE /\ job' = [job EXCEPT ![Main] = {[id |-> Head(todo), from |-> Head(todo)]}]
             /\ UNCHANGED mem
    <3>1. [id |-> Head(todo), from |-> Head(todo)] \in Row
      BY <2>1 DEF Row
    <3> QED  BY <1>2, <2>1, <2>2, <2>4, <3>1 DEF SeedNext, disk
  <2> QED  BY <1>2, <2>3, <2>4 DEF SeedNext
<1>3. CASE SeedEnd
  BY <1>3 DEF SeedEnd, disk
<1>4. ASSUME NEW w \in Requesters, Request(w) PROVE TypeOK'
  <2>1. asked' \in Nat \ {0} /\ w \in Workers
    BY <1>4 DEF Request, Workers
  <2>2. NewRow(asked') \in Row /\ [mem EXCEPT !.seq = @ + 1] \in State
    BY <2>1, NewRowTyped
  <2> QED  BY <1>4, <2>1, <2>2 DEF Request, TakeId, disk
<1>5. ASSUME NEW w \in Workers, Create(w) PROVE TypeOK'
  BY <1>5 DEF Create, State, disk
<1>6. CASE Stop
  BY <1>6 DEF Stop, disk
<1>7. CASE FinalSave
  BY <1>7 DEF FinalSave, Workers, disk
<1>8. ASSUME NEW w \in Workers, WriteTemp(w) \/ SyncTemp(w) PROVE TypeOK'
  BY <1>8 DEF WriteTemp, SyncTemp, disk
<1>9. ASSUME NEW w \in Workers, Rename(w) PROVE TypeOK'
  BY <1>9, Conversions DEF Rename
<1>10. ASSUME NEW w \in Workers, SyncDir(w) PROVE TypeOK'
  BY <1>10, TypeEnds DEF SyncDir
<1>11. ASSUME NEW w \in Workers, SaveFails(w) PROVE TypeOK'
  BY <1>11, TypeEnds DEF SaveFails, disk
<1>12. CASE Crash
  BY <1>12, TypeEnds DEF Crash, disk
<1>13. CASE PowerLoss
  BY <1>13, TypeEnds, Conversions DEF PowerLoss, FileStates
<1>14. CASE Damage
  BY <1>14, Conversions DEF Damage, FileStates, process
<1>15. CASE UNCHANGED vars
  BY <1>15 DEF vars, process, disk
<1> QED
  BY <1>1, <1>2, <1>3, <1>4, <1>5, <1>6, <1>7, <1>8, <1>9, <1>10, <1>11, <1>12, <1>13, <1>14, <1>15
     DEF Next

\* Whatever is loaded, saved or lost: rows carry proper ids, files and memory
\* hold states.
THEOREM SnapshotTyped == Spec => []TypeOK
  BY TypeInit, TypeNext, PTL DEF Spec

-----------------------------------------------------------------------------
IInv == TypeOK /\ LockInv /\ AheadInv /\ AckedInv /\ VisibleInv /\ IdsInv

LEMMA InitIInv == Init => IInv
  BY TypeInit
     DEF Init, IInv, LockInv, AheadInv, AckedInv, VisibleInv, IdsInv, Sound, Rows, Running, LockFree,
         NoSave, EmptyState, Unreadable

\* Nobody but main runs while it seeds.
LEMMA SeedAlone == TypeOK /\ LockInv /\ phase = "seed" /\ job[Main] = {} => LockFree
  BY DEF TypeOK, LockInv, Workers

LEMMA LockNext == TypeOK /\ LockInv /\ [Next]_vars => LockInv'
<1> SUFFICES ASSUME TypeOK, LockInv, [Next]_vars PROVE LockInv'
  OBVIOUS
<1> USE DEF LockInv, Running, LockFree
<1>0. Main \in Workers /\ Requesters \subseteq Workers /\ job \in [Workers -> SUBSET Row]
  BY DEF Workers, TypeOK
<1>1. CASE Start
  BY <1>0, <1>1 DEF Start
<1>2. CASE SeedNext
  <2>1. phase = "seed" /\ LockFree
    BY <1>2, SeedAlone DEF SeedNext
  <2>2. \A w \in Requesters : job'[w] = {}
    BY <1>0, <1>2, <2>1, SnapshotAssumption DEF SeedNext, TakeId
  <2> QED  BY <1>2, <2>1, <2>2 DEF SeedNext, disk
<1>3. CASE SeedEnd
  BY <1>0, <1>3 DEF SeedEnd, disk
<1>4. ASSUME NEW w \in Requesters, Request(w) PROVE LockInv'
  BY <1>0, <1>4, SnapshotAssumption DEF Request, TakeId, disk
<1>5. ASSUME NEW w \in Workers, Create(w) PROVE LockInv'
  BY <1>0, <1>5 DEF Create, disk, TypeOK, State
<1>6. CASE Stop
  BY <1>0, <1>6 DEF Stop, disk
<1>14. CASE FinalSave
  BY <1>0, <1>14 DEF FinalSave, disk
<1>7. ASSUME NEW w \in Workers, WriteTemp(w) \/ SyncTemp(w) PROVE LockInv'
  BY <1>0, <1>7 DEF WriteTemp, SyncTemp, Saving, disk, TypeOK
<1>8. ASSUME NEW w \in Workers, Rename(w) PROVE LockInv'
  BY <1>0, <1>8 DEF Rename, Saving, TypeOK
<1>9. ASSUME NEW w \in Workers, Down \/ Unlock(w), UNCHANGED synced PROVE LockInv'
  BY <1>0, <1>9 DEF Down, Unlock, NoSave
<1>10. ASSUME NEW w \in Workers, SyncDir(w) \/ SaveFails(w) PROVE LockInv'
  BY <1>9, <1>10 DEF SyncDir, SaveFails, disk
<1>11. CASE Crash
  BY <1>0, <1>9, <1>11 DEF Crash, disk
<1>15. CASE PowerLoss
  BY <1>0, <1>9, <1>15 DEF PowerLoss
<1>12. CASE Damage
  BY <1>12 DEF Damage, process
<1>13. CASE UNCHANGED vars
  BY <1>13 DEF vars, process, disk, Snapshot
<1> QED
  BY <1>1, <1>2, <1>3, <1>4, <1>5, <1>6, <1>7, <1>8, <1>10, <1>11, <1>12, <1>13, <1>14,
     <1>15 DEF Next

LEMMA AheadNext == TypeOK /\ LockInv /\ AheadInv /\ [Next]_vars => AheadInv'
<1> SUFFICES ASSUME TypeOK, LockInv, AheadInv, [Next]_vars PROVE AheadInv'
  OBVIOUS
<1> USE DEF AheadInv, Running
<1>0. mem \in State /\ file \in File /\ durable \in File
  BY DEF TypeOK
<1>1. CASE Start
  <2>1. mem' = [rows |-> file.rows, seq |-> file.seq] /\ UNCHANGED durable
    BY <1>1 DEF Start, Loaded
  <2>2. CASE file.is \in {"torn", "damaged"}
    BY <1>0, <1>1, <2>1, <2>2 DEF Start, Unreadable, File
  <2>3. CASE file.is \notin {"torn", "damaged"}
    BY <1>0, <1>1, <2>1, <2>3 DEF Start, File
  <2> QED  BY <2>2, <2>3
<1>2. ASSUME mem'.rows = mem.rows, mem'.seq \in {mem.seq, mem.seq + 1}, phase # "off",
             UNCHANGED disk
      PROVE  AheadInv'
  BY <1>0, <1>2 DEF disk, State, File
<1>3. CASE SeedNext \/ SeedEnd
  BY <1>0, <1>2, <1>3 DEF SeedNext, SeedEnd, TakeId, State
<1>4. ASSUME NEW w \in Requesters, Request(w) PROVE AheadInv'
  BY <1>0, <1>2, <1>4 DEF Request, TakeId, State
<1>5. ASSUME NEW w \in Workers, Create(w) PROVE AheadInv'
  BY <1>0, <1>5 DEF Create, State, disk
<1>6. CASE Stop \/ FinalSave
  BY <1>6 DEF Stop, FinalSave, disk
<1>7. ASSUME NEW w \in Workers, WriteTemp(w) \/ SyncTemp(w) PROVE AheadInv'
  BY <1>7 DEF WriteTemp, SyncTemp, disk
<1>8. ASSUME NEW w \in Workers, Rename(w) PROVE AheadInv'
  BY <1>0, <1>8 DEF Rename, Saving, LockInv, LockFree, Snapshot, State, File
<1>9. ASSUME NEW w \in Workers, SyncDir(w) PROVE AheadInv'
  BY <1>0, <1>9 DEF SyncDir, Down, Unlock, File
<1>10. ASSUME NEW w \in Workers, SaveFails(w) PROVE AheadInv'
  BY <1>10 DEF SaveFails, Down, Unlock, disk
<1>11. CASE Crash
  BY <1>11 DEF Crash, Down, disk
<1>12. CASE PowerLoss
  BY <1>0, <1>12 DEF PowerLoss, Down, LockInv, File
<1>13. CASE Damage
  BY <1>13 DEF Damage, Unreadable, process
<1>14. CASE UNCHANGED vars
  BY <1>14 DEF vars, process, disk
<1> QED
  BY <1>1, <1>3, <1>4, <1>5, <1>6, <1>7, <1>8, <1>9, <1>10, <1>11, <1>12, <1>13, <1>14 DEF Next

LEMMA AckedNext == TypeOK /\ LockInv /\ AheadInv /\ AckedInv /\ [Next]_vars => AckedInv'
<1> SUFFICES ASSUME TypeOK, LockInv, AheadInv, AckedInv, [Next]_vars PROVE AckedInv'
  OBVIOUS
<1> SUFFICES ASSUME DirSyncMayFail = FALSE
             PROVE  acked' \subseteq durable'.rows /\ (Running' => acked' \subseteq mem'.rows)
  BY DEF AckedInv
<1>0. /\ acked \subseteq durable.rows /\ durable.rows \subseteq file.rows
      /\ Running => acked \subseteq mem.rows
  BY DEF AckedInv, AheadInv
<1> USE DEF Running
<1>1. CASE Start
  BY <1>0, <1>1 DEF Start, Loaded
<1>2. CASE SeedNext \/ SeedEnd
  BY <1>0, <1>2 DEF SeedNext, SeedEnd, TakeId, disk, TypeOK, State
<1>3. ASSUME NEW w \in Requesters, Request(w)
      PROVE  acked' \subseteq durable'.rows /\ (Running' => acked' \subseteq mem'.rows)
  BY <1>0, <1>3 DEF Request, TakeId, disk, TypeOK, State
<1>4. ASSUME NEW w \in Workers, Create(w)
      PROVE  acked' \subseteq durable'.rows /\ (Running' => acked' \subseteq mem'.rows)
  BY <1>0, <1>4 DEF Create, disk, TypeOK, State, LockInv
<1>5. CASE Stop \/ FinalSave
  BY <1>0, <1>5 DEF Stop, FinalSave, disk
<1>6. ASSUME NEW w \in Workers, WriteTemp(w) \/ SyncTemp(w) \/ Rename(w)
      PROVE  acked' \subseteq durable'.rows /\ (Running' => acked' \subseteq mem'.rows)
  BY <1>0, <1>6 DEF WriteTemp, SyncTemp, Rename, disk
<1>7. ASSUME NEW w \in Workers, SyncDir(w)
      PROVE  acked' \subseteq durable'.rows /\ (Running' => acked' \subseteq mem'.rows)
  <2>1. file.rows = mem.rows /\ job[w] \subseteq mem.rows /\ Running
    BY <1>7 DEF SyncDir, Saving, LockInv, LockFree, Snapshot
  <2>2. durable' = file /\ acked' = acked \cup job[w]
    BY <1>7 DEF SyncDir
  <2> QED  BY <1>0, <1>7, <2>1, <2>2 DEF SyncDir, Down, Unlock
<1>8. ASSUME NEW w \in Workers, SaveFails(w)
      PROVE  acked' \subseteq durable'.rows /\ (Running' => acked' \subseteq mem'.rows)
  BY <1>0, <1>8 DEF SaveFails, Down, Unlock, disk
<1>9. CASE Crash
  BY <1>0, <1>9 DEF Crash, Down, disk
<1>10. CASE PowerLoss
  BY <1>0, <1>10 DEF PowerLoss, Down, LockInv
<1>11. CASE Damage
  BY <1>11 DEF Damage
<1>12. CASE UNCHANGED vars
  BY <1>0, <1>12 DEF vars, process, disk
<1> QED
  BY <1>1, <1>2, <1>3, <1>4, <1>5, <1>6, <1>7, <1>8, <1>9, <1>10, <1>11, <1>12 DEF Next

LEMMA VisibleNext == TypeOK /\ LockInv /\ AheadInv /\ VisibleInv /\ [Next]_vars => VisibleInv'
<1> SUFFICES ASSUME TypeOK, LockInv, AheadInv, VisibleInv, [Next]_vars PROVE VisibleInv'
  OBVIOUS
<1> USE DEF VisibleInv, Running, LockFree
<1>0. mem \in State /\ Main \in Workers /\ job \in [Workers -> SUBSET Row]
  BY DEF TypeOK, Workers
<1>1. CASE Start
  <2>1. mem'.rows = file.rows
    BY <1>1 DEF Start, Loaded
  <2>2. file'.rows = file.rows
    <3>1. CASE file.is = "damaged"
      BY <1>1, <3>1 DEF Start, AheadInv, Unreadable
    <3>2. CASE file.is \notin {"torn", "damaged"}
      BY <1>1, <3>2 DEF Start
    <3> QED  BY <3>1, <3>2 DEF AheadInv
  <2> QED  BY <2>1, <2>2
<1>2. CASE SeedNext
  <2>1. LockFree
    BY <1>2, SeedAlone DEF SeedNext
  <2>2. mem'.rows = mem.rows /\ UNCHANGED <<phase, save, file, refused>>
    BY <1>0, <1>2 DEF SeedNext, TakeId, disk, State
  <2> QED  BY <1>2, <2>1, <2>2 DEF SeedNext
<1>3. CASE SeedEnd
  BY <1>3 DEF SeedEnd, disk
<1>4. ASSUME NEW w \in Requesters, Request(w) PROVE VisibleInv'
  <2>1. mem'.rows = mem.rows /\ LockFree /\ UNCHANGED <<phase, save, file, refused>>
    BY <1>0, <1>4 DEF Request, TakeId, disk, State
  <2> QED  BY <1>4, <2>1 DEF Request
<1>5. ASSUME NEW w \in Workers, Create(w) PROVE VisibleInv'
  BY <1>0, <1>5 DEF Create, disk, State
<1>6. CASE Stop
  BY <1>6 DEF Stop, disk
<1>7. CASE FinalSave
  BY <1>7 DEF FinalSave, disk
<1>8. ASSUME NEW w \in Workers, WriteTemp(w) \/ SyncTemp(w) PROVE VisibleInv'
  BY <1>8 DEF WriteTemp, SyncTemp, Saving, disk, TypeOK
<1>9. ASSUME NEW w \in Workers, Rename(w) PROVE VisibleInv'
  BY <1>9 DEF Rename, Snapshot
<1>10. ASSUME NEW w \in Workers, SyncDir(w) PROVE VisibleInv'
  BY <1>0, <1>10 DEF SyncDir, Saving, Down, Unlock, LockInv, Snapshot
<1>11. ASSUME NEW w \in Workers, SaveFails(w) PROVE VisibleInv'
  BY <1>0, <1>11 DEF SaveFails, Down, Unlock, disk, NoSave, LockInv
<1>12. CASE Crash \/ PowerLoss
  BY <1>12 DEF Crash, PowerLoss, Down
<1>13. CASE Damage
  BY <1>13 DEF Damage, process
<1>14. CASE UNCHANGED vars
  BY <1>14 DEF vars, process, disk
<1> QED
  BY <1>1, <1>2, <1>3, <1>4, <1>5, <1>6, <1>7, <1>8, <1>9, <1>10, <1>11, <1>12, <1>13, <1>14
     DEF Next

-----------------------------------------------------------------------------
\* Fewer rows and more ids leave a set of rows sound.
LEMMA SoundSubset ==
    ASSUME NEW S \in SUBSET Row, NEW T \in SUBSET S, NEW n \in Nat, NEW k \in Nat,
           n <= k, Sound(S, n)
    PROVE  Sound(T, k)
  BY DEF Sound, Row

\* The next number and the name of a fixture are new ids, or name their row.
LEMMA SoundNumber ==
    ASSUME NEW S \in SUBSET Row, NEW n \in Nat, Sound(S, n),
           NEW from \in FixtureNames \cup (Nat \ {0})
    PROVE  Sound(S \cup {[id |-> n + 1, from |-> from]}, n + 1)
<1>1. n + 1 \notin FixtureNames
  BY SnapshotAssumption
<1>2. \A s \in S : s.id # n + 1
  BY <1>1 DEF Sound, Row
<1> QED  BY <1>1, <1>2, SnapshotAssumption DEF Sound, Row

LEMMA SoundFixture ==
    ASSUME NEW S \in SUBSET Row, NEW n \in Nat, Sound(S, n), NEW f \in FixtureNames
    PROVE  Sound(S \cup {[id |-> f, from |-> f]}, n)
<1>1. f \notin Nat
  BY SnapshotAssumption
<1>2. \A s \in S : s.id = f => s = [id |-> f, from |-> f]
  BY DEF Sound, Row
<1> QED  BY <1>1, <1>2 DEF Sound, Row

LEMMA IdsNext == TypeOK /\ LockInv /\ AheadInv /\ IdsInv /\ [Next]_vars => IdsInv'
<1> SUFFICES ASSUME TypeOK, LockInv, AheadInv, IdsInv, [Next]_vars PROVE IdsInv'
  OBVIOUS
<1>0. /\ mem \in State /\ file \in File /\ durable \in File
      /\ Main \in Workers /\ Requesters \subseteq Workers
      /\ job \in [Workers -> SUBSET Row] /\ Rows \in SUBSET Row
      /\ mem.seq \in Nat /\ file.seq \in Nat /\ durable.seq \in Nat
  BY DEF TypeOK, Workers, Rows, State, File
<1>1. CASE Start
  <2>1. Rows' = file.rows /\ mem'.seq = file.seq
    BY <1>0, <1>1 DEF Start, Loaded, LockInv, Running, Rows
  <2>2. Sound(file'.rows, file'.seq)
    <3>1. file' = file \/ file' = Unreadable("absent")
      BY <1>1 DEF Start
    <3> QED  BY <3>1 DEF Unreadable, Sound, IdsInv
  <2> QED  BY <1>1, <2>1, <2>2 DEF Start, IdsInv
<1>2. ASSUME NEW w \in Workers, NEW from \in FixtureNames \cup (Nat \ {0}),
             TakeId(w, from), UNCHANGED disk
      PROVE  IdsInv'
  <2>1. mem'.rows = mem.rows /\ mem'.seq = mem.seq + 1
    BY <1>0, <1>2 DEF TakeId, State
  <2>2. Rows' \subseteq Rows \cup {[id |-> mem.seq + 1, from |-> from]}
    BY <1>0, <1>2, <2>1 DEF TakeId, NewRow, Rows
  <2>3. Sound(Rows \cup {[id |-> mem.seq + 1, from |-> from]}, mem.seq + 1)
    BY <1>0, SoundNumber DEF IdsInv
  <2>4. Rows \cup {[id |-> mem.seq + 1, from |-> from]} \in SUBSET Row
    BY <1>0 DEF Row
  <2>5. Sound(Rows', mem'.seq)
    BY <1>0, <2>1, <2>2, <2>3, <2>4, SoundSubset
  <2> QED  BY <1>2, <2>5 DEF IdsInv, disk
<1>3. CASE SeedNext
  <2>1. Head(todo) \in FixtureNames
    BY <1>3 DEF SeedNext, TypeOK
  <2>2. CASE TakeId(Main, Head(todo))
    BY <1>0, <1>2, <1>3, <2>1, <2>2 DEF SeedNext
  <2>3. CASE /\ job' = [job EXCEPT ![Main] = {[id |-> Head(todo), from |-> Head(todo)]}]
             /\ UNCHANGED mem
    <3>1. Rows' \subseteq Rows \cup {[id |-> Head(todo), from |-> Head(todo)]}
      BY <1>0, <2>3 DEF Rows
    <3>2. Sound(Rows \cup {[id |-> Head(todo), from |-> Head(todo)]}, mem.seq)
      BY <1>0, <2>1, SoundFixture DEF IdsInv
    <3>3. Rows \cup {[id |-> Head(todo), from |-> Head(todo)]} \in SUBSET Row
      BY <1>0, <2>1 DEF Row
    <3>4. Sound(Rows', mem'.seq)
      BY <1>0, <2>3, <3>1, <3>2, <3>3, SoundSubset
    <3> QED  BY <1>3, <3>4 DEF SeedNext, IdsInv, disk
  <2> QED  BY <1>3, <2>2, <2>3 DEF SeedNext
<1>4. ASSUME NEW w \in Requesters, Request(w) PROVE IdsInv'
  <2>1. asked' \in Nat \ {0}
    BY <1>4 DEF Request, TypeOK
  <2> QED  BY <1>0, <1>2, <1>4, <2>1 DEF Request
<1>5. ASSUME Rows' \subseteq Rows, mem'.seq = mem.seq, UNCHANGED disk PROVE IdsInv'
  <2>1. Sound(Rows', mem'.seq)
    BY <1>0, <1>5, SoundSubset DEF IdsInv
  <2> QED  BY <1>5, <2>1 DEF IdsInv, disk
<1>6. ASSUME NEW w \in Workers, Create(w) PROVE IdsInv'
  <2>1. Rows' \subseteq Rows /\ mem'.seq = mem.seq
    BY <1>0, <1>6 DEF Create, Rows, State
  <2> QED  BY <1>5, <1>6, <2>1 DEF Create
<1>7. CASE SeedEnd \/ Stop \/ FinalSave \/ (\E w \in Workers : WriteTemp(w) \/ SyncTemp(w))
  BY <1>5, <1>7 DEF SeedEnd, Stop, FinalSave, WriteTemp, SyncTemp, Rows
<1>8. ASSUME NEW w \in Workers, Rename(w) PROVE IdsInv'
  <2>1. Rows' = Rows /\ UNCHANGED <<mem, durable>> /\ file' = Snapshot(mem)
    BY <1>8 DEF Rename, Rows
  <2>2. Sound(mem.rows, mem.seq)
    BY <1>0, SoundSubset DEF IdsInv, Rows
  <2> QED  BY <2>1, <2>2 DEF IdsInv, Snapshot
<1>9. ASSUME Down \/ (\E w \in Workers : Unlock(w)) PROVE Sound(Rows', mem'.seq)
  <2>1. CASE Down
    <3>1. Rows' = {}
      BY <2>1 DEF Down, EmptyState, Rows
    <3> QED  BY <3>1 DEF Sound
  <2>2. CASE \E w \in Workers : Unlock(w)
    <3>1. Rows' \subseteq Rows /\ mem' = mem
      BY <1>0, <2>2 DEF Unlock, Rows
    <3> QED  BY <1>0, <3>1, SoundSubset DEF IdsInv
  <2> QED  BY <1>9, <2>1, <2>2
<1>10. ASSUME NEW w \in Workers, SyncDir(w) \/ SaveFails(w) PROVE IdsInv'
  <2>1. Down \/ Unlock(w)
    BY <1>10 DEF SyncDir, SaveFails
  <2>2. file' = file /\ durable' \in {file, durable}
    BY <1>10 DEF SyncDir, SaveFails, disk
  <2> QED  BY <1>9, <2>1, <2>2 DEF IdsInv
<1>11. CASE Crash
  BY <1>9, <1>11 DEF Crash, IdsInv, disk
<1>12. CASE PowerLoss
  <2>1. file' \in {file, durable} /\ durable' = file'
    BY <1>12 DEF PowerLoss, LockInv
  <2> QED  BY <1>9, <1>12, <2>1 DEF PowerLoss, IdsInv
<1>13. CASE Damage
  <2>1. Rows' = Rows /\ mem' = mem
    BY <1>13 DEF Damage, process, Rows
  <2>2. file' = Unreadable("damaged") /\ durable' = file'
    BY <1>13 DEF Damage
  <2> QED  BY <2>1, <2>2 DEF IdsInv, Unreadable, Sound
<1>14. CASE UNCHANGED vars
  BY <1>5, <1>14 DEF vars, process, Rows
<1> QED
  BY <1>1, <1>3, <1>4, <1>6, <1>7, <1>8, <1>10, <1>11, <1>12, <1>13, <1>14 DEF Next

-----------------------------------------------------------------------------
\* The inductive invariant.
THEOREM SnapshotInvariant == Spec => []IInv
<1>1. IInv /\ [Next]_vars => IInv'
  BY TypeNext, LockNext, AheadNext, AckedNext, VisibleNext, IdsNext DEF IInv
<1> QED  BY InitIInv, <1>1, PTL DEF Spec

\* What was answered with success is on disk ever after, if the directory
\* fsync does what the code takes it to do.
THEOREM AckedKept == ASSUME DirSyncMayFail = FALSE PROVE Spec => []AckedSurvive
<1>1. IInv => AckedSurvive
  BY DEF IInv, AckedInv, AckedSurvive
<1> QED  BY SnapshotInvariant, <1>1, PTL

\* No snapshot is ever seen half written, whatever fails.
THEOREM NeverTorn == Spec => []FileNeverTorn
<1>1. IInv => FileNeverTorn
  BY DEF IInv, AheadInv, FileNeverTorn
<1> QED  BY SnapshotInvariant, <1>1, PTL

\* Between saves a reader sees what is in the file or was refused.
THEOREM ReadersSeeTheFile == Spec => []VisibleIsOnFile
<1>1. IInv => VisibleIsOnFile
  BY DEF IInv, TypeOK, State, VisibleInv, LockInv, VisibleIsOnFile, Running, EmptyState
<1> QED  BY SnapshotInvariant, <1>1, PTL

\* Ids are unique across restarts, among the rows in memory, in the file and in
\* the directory on disk, even when the directory fsync fails unnoticed.
THEOREM IdsNeverReused == Spec => []IdsUnique
<1>1. IInv => IdsUnique
  <2> SUFFICES ASSUME IInv PROVE IdsUnique
    OBVIOUS
  <2>1. durable.rows \subseteq file.rows
    BY DEF IInv, AheadInv
  <2>2. CASE Running
    <3>1. mem.rows \cup file.rows \cup durable.rows \subseteq Rows
      BY <2>1, <2>2 DEF IInv, AheadInv, Rows
    <3> QED  BY <3>1 DEF IInv, IdsInv, Sound, IdsUnique
  <2>3. CASE ~Running
    <3>1. mem.rows \cup file.rows \cup durable.rows \subseteq file.rows
      BY <2>1, <2>3 DEF IInv, LockInv, EmptyState
    <3> QED  BY <3>1 DEF IInv, IdsInv, Sound, IdsUnique
  <2> QED  BY <2>2, <2>3
<1> QED  BY SnapshotInvariant, <1>1, PTL

\* The rows on disk only grow, until someone damages the file; samples are
\* such rows until they are trimmed.
THEOREM DiskAdvances == Spec => SnapshotsAdvance
<1>1. ASSUME IInv, [Next]_vars
      PROVE  [\/ durable'.is = "damaged"
              \/ /\ durable.rows \subseteq durable'.rows
                 /\ durable.seq <= durable'.seq]_vars
  <2>1. durable.seq \in Nat /\ durable.seq <= file.seq /\ durable.rows \subseteq file.rows
    BY <1>1 DEF IInv, TypeOK, File, AheadInv
  <2>2. UNCHANGED durable \/ durable' = file \/ durable'.is = "damaged"
    <3>1. CASE \E w \in Workers : SyncDir(w)
      BY <3>1 DEF SyncDir
    <3>2. CASE PowerLoss
      BY <1>1, <3>2 DEF PowerLoss, IInv, LockInv
    <3>3. CASE Damage
      BY <3>3 DEF Damage, Unreadable
    <3> QED
      BY <1>1, <3>1, <3>2, <3>3
         DEF Next, Start, SeedNext, SeedEnd, Request, Create, Stop, FinalSave, WriteTemp,
             SyncTemp, Rename, SaveFails, Crash, disk, vars
  <2> QED  BY <2>1, <2>2
<1> QED  BY SnapshotInvariant, <1>1, PTL DEF Spec, SnapshotsAdvance
=============================================================================
