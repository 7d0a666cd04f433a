----------------------------- MODULE OfflineFile -----------------------------
(***************************************************************************)
(* Signed offline files: their import, the floors kept beside them, their  *)
(* restoration in a later process and what a snapshot shows of them.  From *)
(* sdk/rust/src/offline.rs, the offline half of InstalledStorage in        *)
(* sdk/rust/src/installed.rs and the offline branches of                   *)
(* sdk/rust/src/access.rs.                                                 *)
(*                                                                         *)
(* There is no server here: a file is checked against the wall clock, which *)
(* the user may set, the elapsed clock, which restarts lose, and floors on *)
(* disk, which no later step may lower.  Times are whole seconds.  Online  *)
(* access appears as the two fields of the record that exclude an offline  *)
(* file: the credential and the pending activation.                        *)
(***************************************************************************)
EXTENDS Clock

CONSTANTS Files,      \* signed files with good signatures, for this or another installation
          NoFile,     \* no file
          MaxTime,    \* bound: seconds of real time
          Skews,      \* bound: how far the wall clock may be set from real time
          Start,      \* the second at which the system starts
          MaxInst     \* bound: installation ids drawn

ConstantsOK ==
  /\ NoFile \notin Files /\ Files \subseteq [inst : Nat, seq : Nat, iat : Nat, exp : Nat]
  /\ {Tolerance, MaxTime, Start, MaxInst} \subseteq Nat /\ 0 < Start /\ Start =< MaxTime /\ 1 =< MaxInst
  /\ 0 \in Skews /\ \A s \in Skews : s \in Int /\ Start + s >= 0

VARIABLES
  time,      \* seconds of real time, and the elapsed clock
  skew,      \* wall clock minus time
  rec,       \* the Record on disk
  poisoned,  \* DiskState.poisoned
  pc,        \* closed, open, or importing (between save_offline and the last check)
  mem,       \* State.offline: the Runtime
  next,      \* the Runtime an import is about to put there
  accepted,  \* history: the <<installation, file>> pairs ever saved
  seen,      \* history: the highest time floor ever saved for this installation
  owed,      \* history: believed time when this process took up the clock, at least
  paid,      \* history: owed, as of the last durable floor
  since      \* history: when this process took up the clock

storage == <<rec, poisoned>>
history == <<accepted, seen, owed, paid, since>>
vars == <<time, skew, storage, pc, mem, next, history>>

Wall == time + skew

\* Persisted, with the rest of the Record it excludes.  seq = 0: no offline field.
NoOffline == [seq |-> 0, id |-> NoFile, verifiedAt |-> 0, floor |-> 0, wall |-> 0,
              file |-> NoFile]
Records == [inst : 1..MaxInst, off : [seq : Nat, id : Files \cup {NoFile}, verifiedAt : Nat,
                                      floor : Nat, wall : Nat, file : Files \cup {NoFile}],
            cred : BOOLEAN, pend : BOOLEAN]
Runtimes == [file : Files \cup {NoFile}, anchor : Anchors, off : {NoOffline} \cup
               [seq : Nat, id : Files, verifiedAt : Nat, floor : Nat, wall : Nat,
                file : Files \cup {NoFile}],
             authorized : BOOLEAN, uncertain : BOOLEAN]
NoRuntime == [file |-> NoFile, anchor |-> NoAnchor, off |-> NoOffline,
              authorized |-> FALSE, uncertain |-> FALSE]

Anchored == mem.anchor # NoAnchor
Believed == Now(mem.anchor, time, Wall)

TypeOK ==
  /\ time \in Start..MaxTime
  /\ skew \in Skews
  /\ rec \in Records
  /\ poisoned \in BOOLEAN
  /\ pc \in {"closed", "open", "importing"}
  /\ mem \in Runtimes /\ next \in Runtimes
  /\ accepted \subseteq (1..MaxInst) \X Files
  /\ {seen, owed, paid, since} \subseteq Nat

Init ==
  /\ time = Start
  /\ skew = 0
  /\ rec = [inst |-> 1, off |-> NoOffline, cred |-> FALSE, pend |-> FALSE]
  /\ poisoned = FALSE
  /\ pc = "closed"
  /\ mem = NoRuntime /\ next = NoRuntime
  /\ accepted = {}
  /\ seen = 0 /\ owed = 0 /\ paid = 0 /\ since = 0

-----------------------------------------------------------------------------
(* The clocks *)

Tick ==
  /\ time < MaxTime
  /\ time' = time + 1
  /\ UNCHANGED <<skew, next, storage, pc, mem, history>>

SetWall(s) ==
  /\ s # skew
  /\ skew' = s
  /\ UNCHANGED <<time, next, storage, pc, mem, history>>

-----------------------------------------------------------------------------
(* The record *)

\* offline::verify, for a file whose form and signature are good.
Verify(f, inst, now, minimum) ==
  /\ f.inst = inst
  /\ f.seq >= minimum /\ f.seq >= 1
  /\ f.iat =< now + Tolerance
  /\ f.exp > now /\ f.exp > f.iat

\* Record::validate, of what a record of this client can get wrong.
Validate(r) ==
  /\ (r.off.seq = 0) = (r.off.id = NoFile)
  /\ r.off.floor >= r.off.verifiedAt
  /\ r.off.file # NoFile => r.off.seq > 0 /\ ~r.cred /\ ~r.pend

\* DiskState::commit: a failure poisons the storage and leaves the old record or the new.
CommitOver(old, bad, new) ==
  IF bad THEN {[rec |-> old, poisoned |-> TRUE, ok |-> FALSE]}
  ELSE {[rec |-> new, poisoned |-> FALSE, ok |-> TRUE],
        [rec |-> old, poisoned |-> TRUE, ok |-> FALSE],
        [rec |-> new, poisoned |-> TRUE, ok |-> FALSE]}

Commit(new) == CommitOver(rec, poisoned, new)

Applied(o) == rec' = o.rec /\ poisoned' = o.poisoned

\* Mutant: logging out forgets the offline record with its floors.
ForgetOffline(r) == [r EXCEPT !.off = NoOffline]

\* Mutant: the issuance id goes with the file.
ForgetIssuance(r) == [r EXCEPT !.off.file = NoFile, !.off.id = NoFile]

\* clear_offline_authority: the file goes, sequence and floors stay.
ClearAuthority(r) == [r EXCEPT !.off.file = NoFile]

\* clear_cached(true, credential): the pending activation goes, and the file.
ClearCached(credential) ==
  Commit([ClearAuthority(rec) EXCEPT !.pend = FALSE, !.cred = @ /\ ~credential])

\* Mutant: a pending activation survives the import.
SaveBeside(off) == Commit([rec EXCEPT !.off = off, !.cred = FALSE])

\* save_offline: refused when it would lower anything; online access goes.
SaveOffline(off) ==
  IF /\ rec.off.seq > 0
     /\ \/ off.seq < rec.off.seq
        \/ off.seq = rec.off.seq /\ off.id # rec.off.id
        \/ off.floor < rec.off.floor
        \/ off.wall < rec.off.wall
  THEN {[rec |-> rec, poisoned |-> poisoned, ok |-> FALSE]}
  ELSE Commit([rec EXCEPT !.off = off, !.cred = FALSE, !.pend = FALSE])

\* Mutant: the runtime keeps its authority when the record loses the file.
StillAuthorized(m) == m

\* clear_access and its like: the runtime stays, for its anchor, without authority.
Deauthorized(m) == [m EXCEPT !.authorized = FALSE]

\* What the history remembers of a checkpoint that reached the disk.
Remember ==
  /\ seen' = Later(seen, rec'.off.floor)
  /\ paid' = IF rec'.off.floor > rec.off.floor /\ Anchored THEN owed + (time - since) ELSE paid

-----------------------------------------------------------------------------
(* Checkpoints *)

Raised(now) == [mem.off EXCEPT !.floor = Later(@, now), !.wall = Later(@, Wall)]

\* persist_offline_checkpoint: only the floors of the saved file may move, and up.
Persist(off) ==
  IF \/ rec.off.file = NoFile
     \/ off.file # rec.off.file \/ off.seq # rec.off.seq \/ off.id # rec.off.id
     \/ off.verifiedAt # rec.off.verifiedAt
     \/ off.floor < rec.off.floor \/ off.wall < rec.off.wall
  THEN {[rec |-> rec, poisoned |-> poisoned, ok |-> FALSE]}
  ELSE Commit([rec EXCEPT !.off = off])

\* checkpoint_offline, as the set of its outcomes.
CheckpointOffline ==
  IF ~mem.authorized THEN {[rec |-> rec, poisoned |-> poisoned, ok |-> TRUE, mem |-> mem]}
  ELSE IF Believed = Uncertain \/ Wall + Tolerance < mem.off.wall \/ Believed < mem.off.floor
  THEN {[rec |-> rec, poisoned |-> poisoned, ok |-> FALSE,
         mem |-> [mem EXCEPT !.uncertain = TRUE]]}
  ELSE {[rec |-> o.rec, poisoned |-> o.poisoned, ok |-> o.ok,
         mem |-> IF o.ok THEN [mem EXCEPT !.off = Raised(Believed), !.uncertain = FALSE]
                 ELSE Deauthorized(mem)] : o \in Persist(Raised(Believed))}

\* The worker of open_parsed, at any moment; its checkpoints are 60 seconds apart.
WorkerCheckpoint ==
  /\ pc = "open" /\ mem.authorized
  /\ \E o \in CheckpointOffline : Applied(o) /\ mem' = o.mem
  /\ Remember
  /\ UNCHANGED <<time, skew, next, pc, accepted, owed, since>>

\* close, or the last handle dropped: a checkpoint, then the backend is released.
Close ==
  /\ pc = "open"
  /\ \E o \in CheckpointOffline : rec' = o.rec
  /\ pc' = "closed" /\ poisoned' = FALSE /\ mem' = NoRuntime /\ next' = NoRuntime
  /\ Remember
  /\ UNCHANGED <<time, skew, accepted, owed, since>>

Crash ==
  /\ pc # "closed"
  /\ pc' = "closed" /\ poisoned' = FALSE /\ mem' = NoRuntime /\ next' = NoRuntime
  /\ UNCHANGED <<time, skew, rec, history>>

-----------------------------------------------------------------------------
(* Opening *)

\* Mutant: a new process trusts the wall clock alone.
RestoredWall(off) == [server |-> Wall, elapsed |-> time, wall |-> Wall]

\* restore_offline: time goes on from the floor, or from the wall clock if later.
RestoredAnchor(off) == [server |-> Later(off.floor, Wall), elapsed |-> time, wall |-> Wall]

\* The saved file still passes the checks it passed when it was imported;
\* otherwise open fails with CorruptState.
Restores(off) ==
  /\ Verify(off.file, rec.inst, off.verifiedAt, off.seq)
  /\ off.file.seq = off.seq /\ off.file = off.id
  /\ off.verifiedAt >= off.file.iat - Tolerance /\ off.verifiedAt < off.file.exp

Open ==
  /\ pc = "closed"
  /\ pc' = "open"
  /\ IF rec.off.file = NoFile
     THEN /\ mem' = [NoRuntime EXCEPT !.off = rec.off]
          /\ UNCHANGED <<owed, since>>
     ELSE /\ Restores(rec.off)
          /\ mem' = [file |-> rec.off.file, anchor |-> RestoredAnchor(rec.off), off |-> rec.off,
                     authorized |-> TRUE, uncertain |-> Wall + Tolerance < rec.off.wall]
          /\ owed' = paid /\ since' = time
  /\ UNCHANGED <<time, skew, next, storage, accepted, seen, paid>>

\* open with another fingerprint: a new installation id and an empty record.
OpenRebound ==
  /\ pc = "closed" /\ rec.inst < MaxInst
  /\ rec' = [inst |-> rec.inst + 1, off |-> NoOffline, cred |-> FALSE, pend |-> FALSE]
  /\ pc' = "open"
  /\ mem' = NoRuntime
  /\ seen' = 0 /\ owed' = 0 /\ paid' = 0 /\ since' = 0
  /\ UNCHANGED <<time, skew, next, poisoned, accepted>>

-----------------------------------------------------------------------------
(* Import *)

\* The clocks refuse an import: the wall clock is behind its floor, or the
\* process's own estimate is uncertain or behind.
ImportUncertain ==
  /\ pc = "open" /\ ~poisoned
  /\ \/ Wall + Tolerance < rec.off.wall /\ mem' = mem
     \/ /\ Wall + Tolerance >= rec.off.wall /\ Anchored
        /\ Believed = Uncertain \/ Believed < rec.off.floor
        /\ mem' = [mem EXCEPT !.uncertain = TRUE]
  /\ UNCHANGED <<time, skew, next, storage, pc, history>>

\* The latest of the clocks a new file is checked against.
ImportTime == Later(Later(Wall, rec.off.floor), IF Anchored THEN Believed ELSE 0)

\* import_offline_file up to the commit of the new record.  The answer of the
\* clocks is the same for the whole step: Start::capture.
ImportSaves(f) ==
  LET now == ImportTime
      trusted == Later(now, f.iat)
      off == [seq |-> f.seq, id |-> f, verifiedAt |-> now, floor |-> trusted,
              wall |-> Later(rec.off.wall, Wall), file |-> f]
  IN /\ pc = "open" /\ ~poisoned
     /\ Wall + Tolerance >= rec.off.wall
     /\ Anchored => Believed # Uncertain /\ Believed >= rec.off.floor
     /\ Verify(f, rec.inst, now, Later(1, rec.off.seq))
     /\ f.seq = rec.off.seq => f = rec.off.id
     /\ \E o \in SaveOffline(off) :
          /\ Applied(o)
          /\ IF o.ok
             THEN /\ pc' = "importing"
                  /\ mem' = Deauthorized([mem EXCEPT !.uncertain = @ /\ ~Anchored])
                  /\ next' = [file |-> f, off |-> off, authorized |-> TRUE, uncertain |-> FALSE,
                              anchor |-> [server |-> trusted, elapsed |-> time, wall |-> Wall]]
             ELSE /\ mem' = [mem EXCEPT !.uncertain = @ /\ ~Anchored]
                  /\ UNCHANGED <<pc, next>>
          /\ IF o.rec = rec THEN UNCHANGED <<accepted, seen, paid>>
             ELSE /\ accepted' = accepted \cup {<<rec.inst, f>>}
                  /\ seen' = trusted
                  /\ paid' = IF seen = 0 THEN now
                             ELSE IF Anchored THEN owed + (time - since) ELSE paid
     /\ UNCHANGED <<time, skew, owed, since>>

\* The clocks are read again after the commit and agree with the new floors.
ImportFinishes ==
  LET now == Now(next.anchor, time, Wall)
  IN /\ pc = "importing"
     /\ now # Uncertain
     /\ Wall + Tolerance >= next.off.wall /\ now >= next.off.floor
     /\ mem' = [next EXCEPT !.off.wall = Later(@, Wall)]
     /\ next' = NoRuntime
     /\ pc' = "open"
     /\ owed' = paid /\ since' = next.anchor.elapsed
     /\ UNCHANGED <<time, skew, storage, accepted, seen, paid>>

\* They do not, or the call was cancelled: the new file is dropped again, and
\* the runtime before the import stays, without authority.
ImportDrops ==
  /\ pc = "importing"
  /\ \E o \in ClearCached(FALSE) : Applied(o)
  /\ next' = NoRuntime
  /\ pc' = "open"
  /\ UNCHANGED <<time, skew, mem, history>>

-----------------------------------------------------------------------------
(* Snapshots and online access *)

\* A snapshot, or require_access, marks what the clocks said.
Snapshot ==
  /\ pc = "open" /\ ~poisoned /\ mem.authorized
  /\ mem' = [mem EXCEPT !.uncertain = Believed = Uncertain \/ Wall + Tolerance < mem.off.wall]
  /\ UNCHANGED <<time, skew, storage, pc, next, history>>

\* sync_storage after a failed commit: the state is cleared.
StorageFails ==
  /\ pc = "open" /\ poisoned /\ mem.authorized
  /\ mem' = Deauthorized(mem)
  /\ UNCHANGED <<time, skew, next, storage, pc, history>>

\* logout: a checkpoint, whose failure is reported at the end, and invalidate.
\* The two commits are one step: nothing runs between them.
Logout ==
  /\ pc = "open"
  /\ \E o \in CheckpointOffline :
       /\ mem' = Deauthorized(o.mem)
       /\ \E c \in CommitOver(o.rec, o.poisoned,
                 [ClearAuthority(o.rec) EXCEPT !.pend = FALSE, !.cred = FALSE]) : Applied(c)
  /\ Remember
  /\ UNCHANGED <<time, skew, next, pc, accepted, owed, since>>

\* activate: a checkpoint, which must succeed, then prepare_activation.
Activate ==
  /\ pc = "open" /\ ~poisoned
  /\ \E o \in CheckpointOffline :
       IF ~o.ok THEN Applied(o) /\ mem' = o.mem
       ELSE \E c \in CommitOver(o.rec, o.poisoned, [ClearAuthority(o.rec) EXCEPT !.pend = TRUE]) :
              /\ Applied(c)
              /\ mem' = IF c.ok THEN Deauthorized(o.mem) ELSE o.mem
  /\ Remember
  /\ UNCHANGED <<time, skew, next, pc, accepted, owed, since>>

\* commit_access: the activation was granted.
CommitAccess ==
  /\ pc = "open" /\ ~poisoned /\ rec.pend
  /\ \E o \in Commit([ClearAuthority(rec) EXCEPT !.pend = FALSE, !.cred = TRUE]) : Applied(o)
  /\ UNCHANGED <<time, skew, next, pc, mem, history>>

\* resolve_pending_activation.
ResolvePendingActivation ==
  /\ pc = "open" /\ ~poisoned /\ rec.pend
  /\ \E o \in ClearCached(FALSE) :
       /\ Applied(o)
       /\ mem' = IF o.ok THEN Deauthorized([mem EXCEPT !.file = NoFile]) ELSE mem
  /\ UNCHANGED <<time, skew, next, pc, history>>

Next ==
  \/ Tick \/ \E s \in Skews : SetWall(s)
  \/ Open \/ OpenRebound \/ Close \/ Crash
  \/ ImportUncertain \/ ImportFinishes \/ ImportDrops
  \/ \E f \in Files : ImportSaves(f)
  \/ WorkerCheckpoint \/ Snapshot \/ StorageFails
  \/ Logout \/ Activate \/ CommitAccess \/ ResolvePendingActivation

Spec == Init /\ [][Next]_vars

-----------------------------------------------------------------------------
(* Properties *)

\* A snapshot taken now would say Access::Offline.
Shown ==
  /\ pc = "open" /\ ~poisoned /\ mem.authorized /\ mem.file # NoFile
  /\ Believed # Uncertain /\ Wall + Tolerance >= mem.off.wall
  /\ Believed < mem.file.exp

\* Record::validate and restore_offline accept every record the client writes,
\* whatever step a crash interrupts: a client never locks itself out of its
\* own directory with CorruptState.
OwnRecordOpens ==
  /\ Validate(rec)
  /\ rec.off.file # NoFile => Restores(rec.off)

\* A file once replaced by a newer one, or in conflict with the first file of
\* its sequence, is never shown again: not after a logout, an online
\* activation, a failed commit or a restart.
NewestFileOnly ==
  Shown => \A a \in accepted : a[1] = rec.inst =>
             /\ a[2].seq =< mem.file.seq
             /\ a[2].seq = mem.file.seq => a[2] = mem.file

\* A file is shown only at a time no earlier than any floor ever made durable
\* for this installation: one that was over stays over, whatever the wall
\* clock says and whatever happened to the record in between.
OverStaysOver == Shown => Believed >= seen /\ mem.file.exp > seen

\* Restarting, logging out, setting the clock back or importing the file again
\* buys no time: believed time covers every second that processes have run
\* since the first import, up to what a crash left unsaved.
ReimportNeverExtends == Shown => Believed >= owed + (time - since)

\* What a process keeps in memory is what is on disk: a file the snapshot shows
\* is the file a restart would restore, with floors that are no lower.
MemoryMatchesRecord ==
  Shown => /\ rec.off.file = mem.file
           /\ rec.off.floor =< mem.off.floor /\ rec.off.wall =< mem.off.wall
=============================================================================
