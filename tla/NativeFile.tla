------------------------------- MODULE NativeFile -------------------------------
(***************************************************************************)
(* The installed record on Windows and macOS                               *)
(* (sdk/rust/src/installed_windows.rs, installed_macos.rs, the native      *)
(* crate they call, and InstalledStorage in installed.rs above them): a    *)
(* lease file that doubles as the write marker, a data file replaced as a  *)
(* whole, and a record tied to the machine it was made on.                 *)
(*                                                                         *)
(* The two backends differ where AtomicLease does: Windows creates the     *)
(* lease file with no sharing, so whoever creates it holds it; macOS       *)
(* creates it and asks for the flock afterwards.  The Linux backend has a  *)
(* module of its own, StateFile, with the detail of its inodes.            *)
(***************************************************************************)
EXTENDS Naturals, FiniteSets

CONSTANTS Procs, Creds, NoCred, NoProc, MaxGen,
          Machines,     \* fingerprints, "none" where there is none to be had
          AtomicLease,
          MaxLosses     \* bound: power losses

VARIABLES
  lock,      \* the lease file: whether it is there, and on disk
  marker,    \* its content: as the system shows it, and as it is on disk
  holder,    \* the process that has the lease
  data,      \* the named data file: as shown, as on disk, its content flushed
  pc, created, mem, new,    \* per process; mem is DiskState.record
  machine,   \* the machine the directory is on
  corrupt, interrupted,     \* an open answered CorruptState; a write or open was cut short
  losses

env == <<machine, losses>>
files == <<lock, marker, data>>
vars == <<files, holder, pc, created, mem, new, env, corrupt, interrupted>>

Records == [gen : 0..MaxGen, cred : Creds \cup {NoCred}, machine : Machines]
Pseudo(name) == [gen |-> 0, cred |-> name, machine |-> "none"]
Fresh == Pseudo("fresh")
Torn == Pseudo("torn")
Nothing == Pseudo("nothing")

\* The part of a write during which the new record must not show.
Writing == {"marked", "staged", "replaced", "durable"}
Leased == {"verify", "syncLock", "read", "ready", "write", "sync"} \cup Writing

TypeOK ==
  /\ lock \in [there : BOOLEAN, durable : BOOLEAN]
  /\ marker \in [seen : BOOLEAN, disk : BOOLEAN]
  /\ holder \in Procs \cup {NoProc}
  /\ data \in [seen : Records \cup {Fresh}, disk : Records \cup {Fresh}, flushed : BOOLEAN]
  /\ pc \in [Procs -> {"out", "opened"} \cup Leased]
  /\ created \in [Procs -> BOOLEAN]
  /\ mem \in [Procs -> Records \cup {Fresh, Nothing}]
  /\ new \in [Procs -> Records \cup {Nothing}]
  /\ machine \in Machines
  /\ corrupt \in BOOLEAN /\ interrupted \in BOOLEAN
  /\ losses \in 0..MaxLosses

Init ==
  /\ lock = [there |-> FALSE, durable |-> FALSE]
  /\ marker = [seen |-> FALSE, disk |-> FALSE]
  /\ holder = NoProc
  /\ data = [seen |-> Fresh, disk |-> Fresh, flushed |-> TRUE]
  /\ pc = [p \in Procs |-> "out"]
  /\ created = [p \in Procs |-> FALSE]
  /\ mem = [p \in Procs |-> Nothing]
  /\ new = [p \in Procs |-> Nothing]
  /\ machine \in Machines
  /\ corrupt = FALSE /\ interrupted = FALSE
  /\ losses = 0

-----------------------------------------------------------------------------

Goto(p, l) == pc' = [pc EXCEPT ![p] = l]

\* The backend is dropped, which gives the lease back: the open was refused, the
\* storage is poisoned or closed.
Out(p) ==
  /\ Goto(p, "out")
  /\ mem' = [mem EXCEPT ![p] = Nothing]
  /\ new' = [new EXCEPT ![p] = Nothing]
  /\ holder' = IF holder = p THEN NoProc ELSE holder
  /\ UNCHANGED created

\* The open ends in CorruptState.
Corrupt(p) == Out(p) /\ corrupt' = TRUE /\ UNCHANGED <<files, env, interrupted>>

\* The lease file is created new, or it is there already.
OpenLock(p) ==
  /\ pc[p] = "out"
  /\ created' = [created EXCEPT ![p] = ~lock.there]
  /\ lock' = [lock EXCEPT !.there = TRUE]
  /\ IF ~lock.there /\ AtomicLease THEN holder' = p /\ Goto(p, "verify")
     ELSE Goto(p, "opened") /\ UNCHANGED holder
  /\ UNCHANGED <<marker, data, mem, new, env, corrupt, interrupted>>

\* Mutant: a second process shares the lease.
TakeLeaseShared(p) ==
  /\ pc[p] = "opened"
  /\ holder' = p /\ Goto(p, "verify")
  /\ UNCHANGED <<files, created, mem, new, env, corrupt, interrupted>>

\* Opening the file without sharing, or flock without waiting; InstallationInUse
\* for the process that does not get it.
TakeLease(p) ==
  /\ pc[p] = "opened"
  /\ IF holder = NoProc
     THEN holder' = p /\ Goto(p, "verify") /\ UNCHANGED <<created, mem, new>>
     ELSE Out(p)
  /\ UNCHANGED <<files, env, corrupt, interrupted>>

\* check_write_marker(&lease, &[]).
VerifyLease(p) ==
  /\ pc[p] = "verify"
  /\ IF marker.seen THEN Corrupt(p)
     ELSE /\ Goto(p, IF created[p] THEN "syncLock" ELSE "read")
          /\ UNCHANGED <<files, holder, created, mem, new, env, corrupt, interrupted>>

\* The new lease file is flushed, and its directory entry with it.
SyncLock(p) ==
  /\ pc[p] = "syncLock"
  /\ lock' = [lock EXCEPT !.durable = TRUE]
  /\ Goto(p, "read")
  /\ UNCHANGED <<marker, data, holder, created, mem, new, env, corrupt, interrupted>>

\* Mutant: the credential of another machine is taken over.
BoundAnywhere(r) == TRUE

\* The record's fingerprint and provider are this machine's.
BoundHere(r) == r.machine = machine

\* Mutant: the last generation is not the last.
NeverLast(r) == FALSE

LastGeneration(r) == r.gen = MaxGen

\* Another machine: a new installation, without the old one's authority.
Rebound(r) == [gen |-> r.gen + 1, cred |-> NoCred, machine |-> machine]

\* A record is missing exactly when this process created the lease file.
MissingAllowed(p) == created[p]

\* read, and InstalledStorage::open on what it returns.
Read(p) ==
  /\ pc[p] = "read"
  /\ LET r == data.seen IN
     IF r = Fresh /\ MissingAllowed(p)
     THEN /\ mem' = [mem EXCEPT ![p] = Fresh]
          /\ new' = [new EXCEPT ![p] = [gen |-> 0, cred |-> NoCred, machine |-> machine]]
          /\ Goto(p, "write")
          /\ UNCHANGED <<files, holder, created, env, corrupt, interrupted>>
     ELSE IF r = Fresh \/ created[p] THEN Corrupt(p)
     ELSE IF BoundHere(r)
     THEN /\ mem' = [mem EXCEPT ![p] = r]
          /\ Goto(p, "ready")
          /\ UNCHANGED <<files, holder, created, new, env, corrupt, interrupted>>
     ELSE IF LastGeneration(r) THEN Out(p) /\ UNCHANGED <<files, env, corrupt, interrupted>>
     ELSE /\ mem' = [mem EXCEPT ![p] = r]
          /\ new' = [new EXCEPT ![p] = Rebound(r)]
          /\ Goto(p, "write")
          /\ UNCHANGED <<files, holder, created, env, corrupt, interrupted>>

-----------------------------------------------------------------------------
(* save, invalidate and commit *)

\* save: its caller's version is the record's.
Save(p, c) ==
  /\ pc[p] = "ready"
  /\ new' = [new EXCEPT ![p] = [mem[p] EXCEPT !.cred = c]]
  /\ Goto(p, "write")
  /\ UNCHANGED <<files, holder, created, mem, env, corrupt, interrupted>>

\* clear_cached(false, true); at MAX_GENERATION it is refused and nothing changes.
Invalidate(p) ==
  /\ pc[p] = "ready"
  /\ ~LastGeneration(mem[p])
  /\ new' = [new EXCEPT ![p] = [mem[p] EXCEPT !.gen = @ + 1, !.cred = NoCred]]
  /\ Goto(p, "write")
  /\ UNCHANGED <<files, holder, created, mem, env, corrupt, interrupted>>

\* Mutant: the marker is not flushed.
PendingUnflushed == [seen |-> TRUE, disk |-> marker.disk]

\* write_pending_marker / write_pending: written and flushed.
Pending == [seen |-> TRUE, disk |-> TRUE]

WriteMarker(p) ==
  /\ pc[p] = "write"
  /\ marker' = Pending
  /\ Goto(p, "marked")
  /\ UNCHANGED <<lock, data, holder, created, mem, new, env, corrupt, interrupted>>

\* Mutant: the new file is renamed unflushed.
StageUnflushed == FALSE

\* The new file's content is flushed before the rename.
StageFlushed == TRUE

\* protect_user_data on Windows; a new file under a random name, written whole.
Stage(p) ==
  /\ pc[p] = "marked"
  /\ Goto(p, "staged")
  /\ UNCHANGED <<files, holder, created, mem, new, env, corrupt, interrupted>>

\* replace_storage_ciphertext / renameat.
Replace(p) ==
  /\ pc[p] = "staged"
  /\ data' = [data EXCEPT !.seen = new[p], !.flushed = StageFlushed]
  /\ Goto(p, "replaced")
  /\ UNCHANGED <<lock, marker, holder, created, mem, new, env, corrupt, interrupted>>

\* What is on disk under the name once the directory is written.
Entry == IF data.flushed THEN data.seen ELSE Torn

\* Mutant: the replacement is not synchronised.
NotWritten == data

\* file.sync_all after the replacement / parent.sync_all.
Written == [data EXCEPT !.disk = Entry]

SyncData(p) ==
  /\ pc[p] = "replaced"
  /\ data' = Written
  /\ Goto(p, "durable")
  /\ UNCHANGED <<lock, marker, holder, created, mem, new, env, corrupt, interrupted>>

\* set_len(0) ...
Clear(p) ==
  /\ pc[p] = "durable"
  /\ marker' = [marker EXCEPT !.seen = FALSE]
  /\ Goto(p, "sync")
  /\ UNCHANGED <<lock, data, holder, created, mem, new, env, corrupt, interrupted>>

\* ... and the flush of it; commit takes the record over.
ClearSync(p) ==
  /\ pc[p] = "sync"
  /\ marker' = [marker EXCEPT !.disk = FALSE]
  /\ mem' = [mem EXCEPT ![p] = new[p]]
  /\ new' = [new EXCEPT ![p] = Nothing]
  /\ Goto(p, "ready")
  /\ UNCHANGED <<lock, data, holder, created, env, corrupt, interrupted>>

\* Any of it fails: before the marker is written whole, behind it, or while it
\* is cleared, when it is put back where that is possible.  The storage is
\* poisoned and answers nothing any more.
WriteFails(p) ==
  /\ \/ pc[p] = "write" /\ marker' \in {marker, [seen |-> TRUE, disk |-> FALSE], Pending}
     \/ pc[p] \in Writing /\ marker' = marker
     \/ pc[p] \in {"durable", "sync"} /\ marker' \in {marker, [marker EXCEPT !.seen = TRUE], Pending}
  /\ Out(p)
  /\ interrupted' = TRUE
  /\ UNCHANGED <<lock, data, env, corrupt>>

\* close, or verify found the directory changed by others.
Leave(p) ==
  /\ pc[p] = "ready"
  /\ Out(p)
  /\ UNCHANGED <<files, env, corrupt, interrupted>>

-----------------------------------------------------------------------------
(* The environment *)

Crash(p) ==
  /\ pc[p] \notin {"out", "ready"}
  /\ Out(p)
  /\ interrupted' = TRUE
  /\ UNCHANGED <<files, env, corrupt>>

\* The system writes back by itself.
WriteBack ==
  /\ \/ marker.disk # marker.seen /\ marker' = [marker EXCEPT !.disk = marker.seen] /\ UNCHANGED <<lock, data>>
     \/ lock.there /\ ~lock.durable /\ lock' = [lock EXCEPT !.durable = TRUE] /\ UNCHANGED <<marker, data>>
     \/ data.disk # Entry /\ data' = Written /\ UNCHANGED <<lock, marker>>
  /\ UNCHANGED <<holder, pc, created, mem, new, env, corrupt, interrupted>>

PowerLoss ==
  /\ losses < MaxLosses /\ losses' = losses + 1
  /\ lock' = [lock EXCEPT !.there = lock.durable]
  /\ marker' = IF lock.durable THEN [seen |-> marker.disk, disk |-> marker.disk]
               ELSE [seen |-> FALSE, disk |-> FALSE]
  /\ data' = [seen |-> data.disk, disk |-> data.disk, flushed |-> TRUE]
  /\ holder' = NoProc
  /\ pc' = [p \in Procs |-> "out"]
  /\ mem' = [p \in Procs |-> Nothing]
  /\ new' = [p \in Procs |-> Nothing]
  /\ interrupted' = TRUE
  /\ UNCHANGED <<created, machine, corrupt>>

\* The directory is moved to another machine, or the identity of this one
\* changes, while nobody has it open.
Move ==
  /\ \A p \in Procs : pc[p] = "out"
  /\ machine' \in Machines \ {machine}
  /\ UNCHANGED <<files, holder, pc, created, mem, new, losses, corrupt, interrupted>>

Steps(p) ==
  \/ OpenLock(p) \/ TakeLease(p) \/ VerifyLease(p) \/ SyncLock(p) \/ Read(p)
  \/ Invalidate(p) \/ WriteMarker(p) \/ Stage(p) \/ Replace(p) \/ SyncData(p)
  \/ Clear(p) \/ ClearSync(p) \/ WriteFails(p) \/ Leave(p) \/ Crash(p)

Next ==
  \/ \E p \in Procs : Steps(p)
  \/ \E p \in Procs, c \in Creds : Save(p, c)
  \/ WriteBack \/ PowerLoss \/ Move

Spec == Init /\ [][Next]_vars

-----------------------------------------------------------------------------
(* Properties *)

\* A credential serves only on the machine it was obtained on: whoever works
\* from a record has rebound it first if the directory was moved
\* (InstalledStorage::open, the fingerprint comparison).
MachineBound ==
  \A p \in Procs : pc[p] = "ready" => mem[p].machine = machine /\ mem[p] = data.seen

\* "a second process receives `Error::InstallationInUse`" (advanced.md:119):
\* CorruptState is for a directory whose writer or first opener was cut short.
SecondProcessInUse == corrupt => interrupted

-----------------------------------------------------------------------------
(* The credential store this implements *)

\* A write does not show before its marker is cleared; an interrupted one
\* leaves the store fenced for good.
Plain(r) == [gen |-> r.gen, cred |-> r.cred]

Shown == IF holder # NoProc /\ pc[holder] \in Writing THEN Plain(mem[holder])
         ELSE IF marker = [seen |-> TRUE, disk |-> TRUE] THEN [gen |-> 0, cred |-> "fenced"]
         ELSE Plain(data.seen)

Views == [p \in Procs |-> IF pc[p] = "sync" THEN Plain(new[p])
                          ELSE IF mem[p] = Fresh THEN Plain(Nothing) ELSE Plain(mem[p])]
=============================================================================
