------------------------------ MODULE StateFile ------------------------------
(***************************************************************************)
(* The private state directory of an installed client on Linux             *)
(* (sdk/rust/src/installed_linux.rs, with DiskState and                    *)
(* InstalledStorage::open of sdk/rust/src/installed.rs).                   *)
(*                                                                         *)
(* The directory holds two names.  orbit-storage.lock is the lease: an     *)
(* flock on it admits one process, and its content is the write marker,    *)
(* empty when the record is settled and one byte while a write is under    *)
(* way.  orbit-storage.json is the record.  A commit fences the directory  *)
(* with the marker, replaces the record by a rename, and lifts the fence.  *)
(*                                                                         *)
(* Every system call that changes the directory is a step of its own.  A   *)
(* step may fail, the process may die after any step, and the machine may  *)
(* lose power: then only what has reached the disk is left.  A record is   *)
(* represented by the number of the commit that wrote it.                  *)
(***************************************************************************)
EXTENDS Integers, FiniteSets

CONSTANTS Procs,       \* processes that may open the directory
          NoProc,      \* no process holds the lease
          MaxRecords   \* bound: how many commits are started in a behaviour

ASSUME ProcsAssumption == NoProc \notin Procs
ASSUME MaxRecordsAssumption == MaxRecords \in Nat

Absent == 0      \* orbit-storage.json does not exist
Torn == -1       \* it exists and its content did not survive a power loss

VARIABLES
  lock,       \* the name orbit-storage.lock, as seen (vol) and on disk (dur)
  marker,     \* content of orbit-storage.lock
  data,       \* the record that the name orbit-storage.json leads to
  flushed,    \* records whose content was synchronised
  holder,     \* the process whose descriptor has the flock
  pc,         \* where each process is
  fresh,      \* the processes that created the lock file (new in Backend::open)
  opening,    \* the processes whose write belongs to InstalledStorage::open
  mem,        \* DiskState.record of the process
  staged,     \* the record the process is writing
  written,    \* the number of commits started so far
  result,     \* what the last open of the process returned
  floor,      \* history: no open may return a record older than this
  established,\* history: some commit has been acknowledged
  interrupted \* history: a step failed, a process died or power was lost

files == <<lock, marker, data, flushed>>
procs == <<pc, fresh, opening, mem, staged>>
history == <<floor, established, interrupted>>
vars == <<files, holder, procs, written, result, history>>

(***************************************************************************)
(* The phases of a process.  The name of a phase is the call it makes      *)
(* next; "closed", "ready" and "poisoned" are the resting places.          *)
(***************************************************************************)
OpenPhases  == {"flock", "checkMarker", "syncLease", "syncParent", "read"}
WritePhases == {"mark", "markSync", "stage", "stageSync", "rename",
                "dirSync", "unmark", "unmarkSync", "remark", "remarkSync"}
Phases == {"closed", "ready", "poisoned"} \cup OpenPhases \cup WritePhases

\* The phases in which the process has the flock.
Leased == Phases \ {"closed", "flock"}
\* The phases between the durable fence and the attempt to lift it.
Fenced == {"stage", "stageSync", "rename", "dirSync", "unmark"}
\* The phases in which the new record is known to be in place.
Replaced == {"unmark", "unmarkSync", "remark", "remarkSync"}

Results == {"none", "ok", "InstallationInUse", "CorruptState", "Storage"}
Contents == Absent..MaxRecords
Layers(S) == [vol : S, dur : S]

TypeOK ==
  /\ lock \in Layers({"absent", "present"})
  /\ marker \in Layers({"empty", "pending"})
  /\ data \in Layers(Contents \cup {Torn})
  /\ flushed \subseteq Contents
  /\ holder \in Procs \cup {NoProc}
  /\ pc \in [Procs -> Phases]
  /\ fresh \subseteq Procs
  /\ opening \subseteq Procs
  /\ mem \in [Procs -> Contents]
  /\ staged \in [Procs -> Contents]
  /\ written \in Contents
  /\ result \in [Procs -> Results]
  /\ floor \in Contents
  /\ established \in BOOLEAN
  /\ interrupted \in BOOLEAN

Init ==
  /\ lock = [vol |-> "absent", dur |-> "absent"]
  /\ marker = [vol |-> "empty", dur |-> "empty"]
  /\ data = [vol |-> Absent, dur |-> Absent]
  /\ flushed = {}
  /\ holder = NoProc
  /\ pc = [p \in Procs |-> "closed"]
  /\ fresh = {}
  /\ opening = {}
  /\ mem = [p \in Procs |-> Absent]
  /\ staged = [p \in Procs |-> Absent]
  /\ written = 0
  /\ result = [p \in Procs |-> "none"]
  /\ floor = 0
  /\ established = FALSE
  /\ interrupted = FALSE

-----------------------------------------------------------------------------
(* Helpers *)

Synced(f) == [f EXCEPT !.dur = f.vol]

Goto(p, phase) == pc' = [pc EXCEPT ![p] = phase]

\* Dropping the descriptor of the lease file gives up the flock.
Unlocked(p) == IF holder = p THEN NoProc ELSE holder

\* Backend::open or InstalledStorage::open returns the error e.
OpenReturns(p, e) ==
  /\ Goto(p, "closed")
  /\ result' = [result EXCEPT ![p] = e]
  /\ holder' = Unlocked(p)

\* A commit starts: DiskState::commit has checked the backend.
StartWrite(p, inOpen) ==
  /\ written < MaxRecords
  /\ written' = written + 1
  /\ staged' = [staged EXCEPT ![p] = written + 1]
  /\ opening' = IF inOpen THEN opening \cup {p} ELSE opening \ {p}
  /\ Goto(p, "mark")

-----------------------------------------------------------------------------
(* Backend::open and InstalledStorage::open *)

\* openat(LOCK, CREATE | EXCL), else openat(LOCK).
OpenLock(p) ==
  /\ pc[p] = "closed"
  /\ fresh' = IF lock.vol = "absent" THEN fresh \cup {p} ELSE fresh \ {p}
  /\ lock' = [lock EXCEPT !.vol = "present"]
  /\ result' = [result EXCEPT ![p] = "none"]
  /\ Goto(p, "flock")
  /\ UNCHANGED <<marker, data, flushed, holder, opening, mem, staged, written, history>>

\* Mutant: the lease is taken in shared mode.
TakeLeaseShared(p) ==
  /\ pc[p] = "flock"
  /\ holder' = p
  /\ Goto(p, "checkMarker")
  /\ UNCHANGED <<files, fresh, opening, mem, staged, written, result, history>>

\* Mutant: the marker is looked at before the lease is held.
TakeLeaseAfterMarker(p) ==
  /\ pc[p] = "flock"
  /\ \/ /\ marker.vol = "empty" /\ holder = NoProc
        /\ holder' = p
        /\ Goto(p, "checkMarker")
        /\ UNCHANGED result
     \/ /\ marker.vol = "empty" /\ holder # NoProc
        /\ OpenReturns(p, "InstallationInUse")
     \/ /\ marker.vol # "empty"
        /\ OpenReturns(p, "CorruptState")
  /\ UNCHANGED <<files, fresh, opening, mem, staged, written, history>>

\* flock(NonBlockingLockExclusive): WOULDBLOCK is InstallationInUse.
TakeLease(p) ==
  /\ pc[p] = "flock"
  /\ \/ /\ holder = NoProc
        /\ holder' = p
        /\ Goto(p, "checkMarker")
        /\ UNCHANGED result
     \/ /\ holder # NoProc
        /\ OpenReturns(p, "InstallationInUse")
  /\ UNCHANGED <<files, fresh, opening, mem, staged, written, history>>

\* check_write_marker(&lease, &[])
CheckMarker(p) ==
  /\ pc[p] = "checkMarker"
  /\ \/ /\ marker.vol = "empty"
        /\ Goto(p, IF p \in fresh THEN "syncLease" ELSE "read")
        /\ UNCHANGED <<holder, result>>
     \/ /\ marker.vol # "empty"
        /\ OpenReturns(p, "CorruptState")
  /\ UNCHANGED <<files, fresh, opening, mem, staged, written, history>>

SyncLease(p) ==
  /\ pc[p] = "syncLease"
  /\ marker' = Synced(marker)
  /\ Goto(p, "syncParent")
  /\ UNCHANGED <<lock, data, flushed, holder, fresh, opening, mem, staged, written, result, history>>

SyncParent(p) ==
  /\ pc[p] = "syncParent"
  /\ lock' = Synced(lock)
  /\ data' = Synced(data)
  /\ Goto(p, "read")
  /\ UNCHANGED <<marker, flushed, holder, fresh, opening, mem, staged, written, result, history>>

\* Opening DATA decides between a new installation, an established one and
\* CorruptState.  A new installation commits its first record before open
\* returns, and so does one whose machine fingerprint changed.
ReadData(p) ==
  /\ pc[p] = "read"
  /\ \/ /\ (data.vol = Absent <=> p \notin fresh) \/ data.vol = Torn
        /\ OpenReturns(p, "CorruptState")
        /\ UNCHANGED <<opening, mem, staged, written>>
     \/ /\ data.vol = Absent /\ p \in fresh
        /\ StartWrite(p, TRUE)
        /\ UNCHANGED <<mem, holder, result>>
     \/ /\ data.vol \notin {Absent, Torn} /\ p \notin fresh
        /\ StartWrite(p, TRUE)
        /\ UNCHANGED <<mem, holder, result>>
     \/ /\ data.vol \notin {Absent, Torn} /\ p \notin fresh
        /\ mem' = [mem EXCEPT ![p] = data.vol]
        /\ result' = [result EXCEPT ![p] = "ok"]
        /\ Goto(p, "ready")
        /\ UNCHANGED <<holder, opening, staged, written>>
  /\ UNCHANGED <<files, fresh, history>>

\* Any call of open may fail with Error::Storage.
OpenFails(p) ==
  /\ pc[p] \in OpenPhases
  /\ OpenReturns(p, "Storage")
  /\ interrupted' = TRUE
  /\ UNCHANGED <<files, fresh, opening, mem, staged, written, floor, established>>

-----------------------------------------------------------------------------
(* Backend::write, called by DiskState::commit *)

Commit(p) ==
  /\ pc[p] = "ready"
  /\ StartWrite(p, FALSE)
  /\ UNCHANGED <<files, holder, fresh, mem, result, history>>

\* Mutant: a marker that is not WRITE_PENDING.
MarkOther(p) ==
  /\ pc[p] = "mark"
  /\ marker' = [marker EXCEPT !.vol = "other"]
  /\ Goto(p, "markSync")
  /\ UNCHANGED <<lock, data, flushed, holder, fresh, opening, mem, staged, written, result, history>>

\* write_pending_marker, up to its sync
Mark(p) ==
  /\ pc[p] = "mark"
  /\ marker' = [marker EXCEPT !.vol = "pending"]
  /\ Goto(p, "markSync")
  /\ UNCHANGED <<lock, data, flushed, holder, fresh, opening, mem, staged, written, result, history>>

\* The sync of write_pending_marker: the fence is durable from here on.
MarkSync(p) ==
  /\ pc[p] = "markSync"
  /\ marker' = Synced(marker)
  /\ floor' = staged[p]
  /\ Goto(p, "stage")
  /\ UNCHANGED <<lock, data, flushed, holder, fresh, opening, mem, staged, written, result, established, interrupted>>

\* The temporary file gets the bytes of the record ...
Stage(p) ==
  /\ pc[p] = "stage"
  /\ Goto(p, "stageSync")
  /\ UNCHANGED <<files, holder, fresh, opening, mem, staged, written, result, history>>

\* Mutant: sync_all of the temporary file is missing.
StageUnsynced(p) ==
  /\ pc[p] = "stageSync"
  /\ Goto(p, "rename")
  /\ UNCHANGED <<files, holder, fresh, opening, mem, staged, written, result, history>>

\* ... is synchronised ...
StageSync(p) ==
  /\ pc[p] = "stageSync"
  /\ flushed' = flushed \cup {staged[p]}
  /\ Goto(p, "rename")
  /\ UNCHANGED <<lock, marker, data, holder, fresh, opening, mem, staged, written, result, history>>

\* ... and replaces DATA.
Rename(p) ==
  /\ pc[p] = "rename"
  /\ data' = [data EXCEPT !.vol = staged[p]]
  /\ Goto(p, "dirSync")
  /\ UNCHANGED <<lock, marker, flushed, holder, fresh, opening, mem, staged, written, result, history>>

\* Mutant: the directory is not synchronised after the rename.
DirUnsynced(p) ==
  /\ pc[p] = "dirSync"
  /\ Goto(p, "unmark")
  /\ UNCHANGED <<files, holder, fresh, opening, mem, staged, written, result, history>>

DirSync(p) ==
  /\ pc[p] = "dirSync"
  /\ lock' = Synced(lock)
  /\ data' = Synced(data)
  /\ Goto(p, "unmark")
  /\ UNCHANGED <<marker, flushed, holder, fresh, opening, mem, staged, written, result, history>>

\* lease.set_len(0)
Unmark(p) ==
  /\ pc[p] = "unmark"
  /\ marker' = [marker EXCEPT !.vol = "empty"]
  /\ Goto(p, "unmarkSync")
  /\ UNCHANGED <<lock, data, flushed, holder, fresh, opening, mem, staged, written, result, history>>

\* lease.sync_all() and the final verify: the commit is acknowledged.
UnmarkSync(p) ==
  /\ pc[p] = "unmarkSync"
  /\ marker' = Synced(marker)
  /\ mem' = [mem EXCEPT ![p] = staged[p]]
  /\ result' = [result EXCEPT ![p] = "ok"]
  /\ established' = TRUE
  /\ Goto(p, "ready")
  /\ UNCHANGED <<lock, data, flushed, holder, fresh, opening, staged, written, floor, interrupted>>

\* A failed write poisons the storage; when the write belongs to open, open
\* fails and drops the backend.
GiveUp(p) ==
  \/ /\ p \in opening
     /\ OpenReturns(p, "Storage")
  \/ /\ p \notin opening
     /\ Goto(p, "poisoned")
     /\ UNCHANGED <<holder, result>>

\* A call of write fails before the fence is being lifted.
WriteFails(p) ==
  /\ pc[p] \in {"mark", "markSync", "stage", "stageSync", "rename", "dirSync"}
  /\ GiveUp(p)
  /\ interrupted' = TRUE
  /\ UNCHANGED <<files, fresh, opening, mem, staged, written, floor, established>>

\* Lifting the fence fails: write puts the marker back, best effort.
UnmarkFails(p) ==
  /\ pc[p] \in {"unmark", "unmarkSync"}
  /\ Goto(p, "remark")
  /\ interrupted' = TRUE
  /\ UNCHANGED <<files, holder, fresh, opening, mem, staged, written, result, floor, established>>

Remark(p) ==
  /\ pc[p] = "remark"
  /\ \/ /\ marker' = [marker EXCEPT !.vol = "pending"]
        /\ Goto(p, "remarkSync")
        /\ UNCHANGED <<holder, result>>
     \/ /\ GiveUp(p)
        /\ UNCHANGED marker
  /\ UNCHANGED <<lock, data, flushed, fresh, opening, mem, staged, written, history>>

RemarkSync(p) ==
  /\ pc[p] = "remarkSync"
  /\ marker' \in {Synced(marker), marker}
  /\ GiveUp(p)
  /\ UNCHANGED <<lock, data, flushed, fresh, opening, mem, staged, written, history>>

-----------------------------------------------------------------------------
(* The rest of the life of a process, and of the machine *)

\* DiskState::check: a failed verify poisons the storage.
CheckFails(p) ==
  /\ pc[p] = "ready"
  /\ Goto(p, "poisoned")
  /\ interrupted' = TRUE
  /\ UNCHANGED <<files, holder, fresh, opening, mem, staged, written, result, floor, established>>

\* InstalledStorage::close drops the backend.
Close(p) ==
  /\ pc[p] \in {"ready", "poisoned"}
  /\ Goto(p, "closed")
  /\ holder' = Unlocked(p)
  /\ UNCHANGED <<files, fresh, opening, mem, staged, written, result, history>>

\* The process dies; the kernel closes its descriptors and keeps its writes.
Crash(p) ==
  /\ pc[p] # "closed"
  /\ Goto(p, "closed")
  /\ holder' = Unlocked(p)
  /\ interrupted' = TRUE
  /\ UNCHANGED <<files, fresh, opening, mem, staged, written, result, floor, established>>

\* The kernel writes one change back without being asked.
WriteBack ==
  /\ \/ lock' = Synced(lock) /\ UNCHANGED <<marker, data>>
     \/ marker' = Synced(marker) /\ lock.dur = "present" /\ UNCHANGED <<lock, data>>
     \/ data' = Synced(data) /\ UNCHANGED <<lock, marker>>
  /\ UNCHANGED <<flushed, holder, procs, written, result, history>>

\* What a power loss leaves of a record.
Survives(r) == IF r \in flushed \cup {Absent} THEN {r} ELSE {r, Torn}

PowerLoss ==
  /\ lock' = [lock EXCEPT !.vol = lock.dur]
  /\ marker' = LET left == IF lock.dur = "present" THEN marker.dur ELSE "empty"
               IN  [vol |-> left, dur |-> left]
  /\ \E r \in Survives(data.dur) : data' = [vol |-> r, dur |-> r]
  /\ holder' = NoProc
  /\ pc' = [p \in Procs |-> "closed"]
  /\ interrupted' = TRUE
  /\ UNCHANGED <<flushed, fresh, opening, mem, staged, written, result, floor, established>>

Opening(p) ==
  \/ OpenLock(p) \/ TakeLease(p) \/ CheckMarker(p) \/ SyncLease(p)
  \/ SyncParent(p) \/ ReadData(p) \/ OpenFails(p)

Writing(p) ==
  \/ Commit(p) \/ Mark(p) \/ MarkSync(p) \/ Stage(p) \/ StageSync(p)
  \/ Rename(p) \/ DirSync(p) \/ Unmark(p) \/ UnmarkSync(p)
  \/ WriteFails(p) \/ UnmarkFails(p) \/ Remark(p) \/ RemarkSync(p)

Next ==
  \/ \E p \in Procs : Opening(p) \/ Writing(p) \/ CheckFails(p) \/ Close(p) \/ Crash(p)
  \/ WriteBack
  \/ PowerLoss

Spec == Init /\ [][Next]_vars

-----------------------------------------------------------------------------
(* Properties *)

\* Once the fence of a commit is durable, no process is given an older record:
\* not after a failed write, a crash or a power loss at any later step.  This
\* is "a grant or credential from before an incomplete invalidation cannot be
\* restored" (advanced.md:117-118) for Backend::write and Backend::open.
NoRollback == \A p \in Procs : pc[p] = "ready" => mem[p] >= floor

\* The record a process works from is the one a power loss would leave, whole:
\* Backend::write synchronises content, name and marker in the right order.
ReadyIsDurable ==
  \A p \in Procs : pc[p] = "ready" =>
    /\ data.vol = mem[p]
    /\ data.dur = mem[p]
    /\ mem[p] \in flushed
    /\ lock.dur = "present"

\* At most one process is past the flock (one InstallationInUse lease), across
\* crashes and the closing of descriptors.
OneLease == \A p, q \in Procs : pc[p] \in Leased /\ pc[q] \in Leased => p = q

\* Where nothing was ever interrupted, an established installation is never
\* reported as CorruptState, whatever the other processes are doing: the marker
\* of a running write is only looked at under the lease.
NoFalseCorruption ==
  [][\A p \in Procs :
       result[p] # "CorruptState" /\ result'[p] = "CorruptState"
         => interrupted \/ ~established]_vars

\* "A second process receives Error::InstallationInUse" (advanced.md:119-120):
\* with no failure at all, that is the only error an open can end in.
SecondProcessInUse ==
  [][\A p \in Procs :
       result[p] # "CorruptState" /\ result'[p] = "CorruptState"
         => interrupted]_vars
=============================================================================
