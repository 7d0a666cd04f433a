------------------------------ MODULE SecretStore ------------------------------
(***************************************************************************)
(* SecretServiceStorage: a credential kept in the desktop keyring, behind  *)
(* a lease and a write marker in a private directory                       *)
(* (sdk/rust/src/storage/secret_service.rs with lease.rs, helper.rs,       *)
(* format.rs and storage/codec.rs; an adapter built for tests only).       *)
(*                                                                         *)
(* The keyring is written by a helper process that is killed after five    *)
(* seconds.  A killed or orphaned helper may still get its write through   *)
(* later: `late` holds those writes.  A store that the helper reports done *)
(* is taken to be durable in the keyring.                                  *)
(***************************************************************************)
EXTENDS Naturals, FiniteSets

CONSTANTS Procs, Creds, NoCred, NoProc, MaxGen,
          Left,       \* records the keyring may have from an earlier directory
          MaxLosses   \* bound: power losses

VARIABLES
  lock,      \* the lock file: whether it is there, and on disk
  marker,    \* its content: as the system shows it, and as it is on disk
  holder,    \* the process that holds the flock
  keyring,   \* the record in the keyring, or Fresh
  late,      \* writes that may still reach the keyring
  pc, created, mem, new,   \* per process; mem is State, new the record being written
  losses

vars == <<lock, marker, holder, keyring, late, pc, created, mem, new, losses>>
disk == <<lock, marker, keyring, late, losses>>

Records == [gen : 0..MaxGen, cred : Creds \cup {NoCred}]
Fresh == [gen |-> 0, cred |-> "fresh"]
Fenced == [gen |-> 0, cred |-> "fenced"]
Nothing == [gen |-> 0, cred |-> "nothing"]

\* While it writes, nothing must show of the new record before the marker is
\* cleared.
Writing == {"marked", "stored"}
Leased == {"verify", "syncLock", "lookup", "ready", "write", "sync"} \cup Writing

TypeOK ==
  /\ lock \in [there : BOOLEAN, durable : BOOLEAN]
  /\ marker \in [seen : BOOLEAN, disk : BOOLEAN]
  /\ holder \in Procs \cup {NoProc}
  /\ keyring \in Records \cup {Fresh}
  /\ late \subseteq Records
  /\ pc \in [Procs -> {"out", "opened"} \cup Leased]
  /\ created \in [Procs -> BOOLEAN]
  /\ mem \in [Procs -> Records \cup {Fresh, Nothing}]
  /\ new \in [Procs -> Records \cup {Nothing}]
  /\ losses \in 0..MaxLosses

\* A new directory.  The keyring knows nothing of it, or still has the record of
\* a directory of the same name that was removed.
Init ==
  /\ lock = [there |-> FALSE, durable |-> FALSE]
  /\ marker = [seen |-> FALSE, disk |-> FALSE]
  /\ holder = NoProc
  /\ keyring \in {Fresh} \cup Left
  /\ late = {}
  /\ pc = [p \in Procs |-> "out"]
  /\ created = [p \in Procs |-> FALSE]
  /\ mem = [p \in Procs |-> Nothing]
  /\ new = [p \in Procs |-> Nothing]
  /\ losses = 0

-----------------------------------------------------------------------------

Goto(p, l) == pc' = [pc EXCEPT ![p] = l]

\* The storage is dropped, or an open or a write failed and poisoned it: it
\* answers nothing any more.  Dropping it releases the flock.
Out(p) ==
  /\ pc' = [pc EXCEPT ![p] = "out"]
  /\ mem' = [mem EXCEPT ![p] = Nothing]
  /\ new' = [new EXCEPT ![p] = Nothing]
  /\ holder' = IF holder = p THEN NoProc ELSE holder
  /\ UNCHANGED created

\* Lease::open: O_CREAT | O_EXCL, or the file that is there.
OpenLock(p) ==
  /\ pc[p] = "out"
  /\ created' = [created EXCEPT ![p] = ~lock.there]
  /\ lock' = [lock EXCEPT !.there = TRUE]
  /\ Goto(p, "opened")
  /\ UNCHANGED <<marker, holder, keyring, late, mem, new, losses>>

\* Mutant: an open that meets the lease waits for nobody.
TakeLeaseAnyway(p) ==
  /\ pc[p] = "opened"
  /\ holder' = p /\ Goto(p, "verify")
  /\ UNCHANGED <<disk, created, mem, new>>

\* flock without waiting; a process that does not get it gives up.
TakeLease(p) ==
  /\ pc[p] = "opened"
  /\ IF holder = NoProc
     THEN holder' = p /\ Goto(p, "verify") /\ UNCHANGED <<created, mem, new>>
     ELSE Out(p)
  /\ UNCHANGED disk

\* Mutant: opening does not look at the marker.
MarkerClearAnyway == TRUE

\* Lease::verify_marker(&[]).
MarkerClear == ~marker.seen

\* A pending marker ends the open.
VerifyLease(p) ==
  /\ pc[p] = "verify"
  /\ IF MarkerClear
     THEN Goto(p, IF created[p] THEN "syncLock" ELSE "lookup") /\ UNCHANGED <<holder, created, mem, new>>
     ELSE Out(p)
  /\ UNCHANGED disk

\* Mutant: the file is made durable without its directory entry.
SyncLockAlone(p) ==
  /\ pc[p] = "syncLock"
  /\ marker' = [marker EXCEPT !.disk = @ \/ marker.seen]
  /\ Goto(p, "lookup")
  /\ UNCHANGED <<lock, holder, keyring, late, created, mem, new, losses>>

\* The new file and its directory entry are made durable.
SyncLock(p) ==
  /\ pc[p] = "syncLock"
  /\ lock' = [lock EXCEPT !.durable = TRUE]
  /\ marker' = [marker EXCEPT !.disk = @ \/ marker.seen]
  /\ Goto(p, "lookup")
  /\ UNCHANGED <<holder, keyring, late, created, mem, new, losses>>

\* helper::lookup and what open makes of it: a record is taken over, a new
\* directory gets the first record, an old one without a record is refused.
Lookup(p) ==
  /\ pc[p] = "lookup"
  /\ \/ /\ keyring # Fresh
        /\ mem' = [mem EXCEPT ![p] = keyring]
        /\ Goto(p, "ready")
        /\ UNCHANGED <<holder, created, new>>
     \/ /\ keyring = Fresh /\ created[p]
        /\ mem' = [mem EXCEPT ![p] = Fresh]
        /\ new' = [new EXCEPT ![p] = [gen |-> 0, cred |-> NoCred]]
        /\ Goto(p, "write")
        /\ UNCHANGED <<holder, created>>
     \/ keyring = Fresh /\ ~created[p] /\ Out(p)
  /\ UNCHANGED disk

-----------------------------------------------------------------------------
(* save, invalidate and commit *)

\* save refuses another version than the current one, so its record keeps it.
Save(p, c) ==
  /\ pc[p] = "ready"
  /\ new' = [new EXCEPT ![p] = [gen |-> mem[p].gen, cred |-> c]]
  /\ Goto(p, "write")
  /\ UNCHANGED <<disk, holder, created, mem>>

\* Mutant: the last version is not the last.
NeverAtLimit(p) == FALSE

AtLimit(p) == mem[p].gen = MaxGen

\* invalidate; at MAX_GENERATION the storage is poisoned instead.
Invalidate(p) ==
  /\ pc[p] = "ready"
  /\ IF AtLimit(p) THEN Out(p)
     ELSE /\ new' = [new EXCEPT ![p] = [gen |-> mem[p].gen + 1, cred |-> NoCred]]
          /\ Goto(p, "write")
          /\ UNCHANGED <<holder, created, mem>>
  /\ UNCHANGED disk

\* write_pending: the marker, synchronised.
Mark == [seen |-> TRUE, disk |-> TRUE]

\* begin_write.
BeginWrite(p) ==
  /\ pc[p] = "write"
  /\ marker' = Mark
  /\ Goto(p, "marked")
  /\ UNCHANGED <<lock, keyring, late, losses, holder, created, mem, new>>

\* It fails: the marker is as it was, or visible, or on disk as well.
BeginWriteFails(p) ==
  /\ pc[p] = "write"
  /\ marker' \in {marker, [seen |-> TRUE, disk |-> FALSE], [seen |-> TRUE, disk |-> TRUE]}
  /\ Out(p)
  /\ UNCHANGED <<lock, keyring, late, losses>>

\* helper::store succeeded: spawned, written to, reaped, silent, status 0.
Store(p) ==
  /\ pc[p] = "marked"
  /\ keyring' = new[p]
  /\ Goto(p, "stored")
  /\ UNCHANGED <<lock, marker, late, losses, holder, created, mem, new>>

\* Mutant: a failed write clears the marker behind it.
AfterFailedStore == [seen |-> FALSE, disk |-> FALSE]

\* A failed write leaves the marker: commit ends before complete_write.
KeepMarker == marker

\* helper::store failed: refused, or killed at the deadline, when its write has
\* reached the keyring, or will, or never does.
StoreFails(p) ==
  /\ pc[p] = "marked"
  /\ \/ keyring' = new[p] /\ late' = late
     \/ keyring' = keyring /\ late' \in {late, late \cup {new[p]}}
  /\ marker' = KeepMarker
  /\ Out(p)
  /\ UNCHANGED <<lock, losses>>

\* complete_write: set_len(0) ...
Clear(p) ==
  /\ pc[p] = "stored"
  /\ marker' = [marker EXCEPT !.seen = FALSE]
  /\ Goto(p, "sync")
  /\ UNCHANGED <<lock, keyring, late, losses, holder, created, mem, new>>

\* ... and sync_all; then commit takes the new record over.
ClearSync(p) ==
  /\ pc[p] = "sync"
  /\ marker' = [marker EXCEPT !.disk = FALSE]
  /\ mem' = [mem EXCEPT ![p] = new[p]]
  /\ new' = [new EXCEPT ![p] = Nothing]
  /\ Goto(p, "ready")
  /\ UNCHANGED <<lock, keyring, late, losses, holder, created>>

\* Clearing fails: the marker is put back where that is still possible.
ClearFails(p) ==
  /\ pc[p] \in {"stored", "sync"}
  /\ marker' \in {marker, [marker EXCEPT !.seen = TRUE], Mark}
  /\ Out(p)
  /\ UNCHANGED <<lock, keyring, late, losses>>

\* The open fails at a system call or at the helper, check finds the directory
\* or the lock file changed by others, or the storage is dropped.
Leave(p) ==
  /\ pc[p] \in {"opened", "verify", "syncLock", "lookup", "ready"}
  /\ Out(p)
  /\ UNCHANGED disk

-----------------------------------------------------------------------------
(* The environment *)

\* A process dies.  Its helper, if it runs, goes on without it.
Crash(p) ==
  /\ pc[p] # "out"
  /\ late' \in IF pc[p] = "marked" THEN {late, late \cup {new[p]}} ELSE {late}
  /\ Out(p)
  /\ UNCHANGED <<lock, marker, keyring, losses>>

\* A write whose helper was killed or orphaned gets through, or does not.
LateWrite(r) ==
  /\ r \in late
  /\ late' = late \ {r}
  /\ keyring' \in {keyring, r}
  /\ UNCHANGED <<lock, marker, holder, pc, created, mem, new, losses>>

\* The kernel writes the lock file back by itself.
WriteBack ==
  /\ \/ marker.disk # marker.seen /\ marker' = [marker EXCEPT !.disk = marker.seen] /\ UNCHANGED lock
     \/ lock.there /\ ~lock.durable /\ lock' = [lock EXCEPT !.durable = TRUE] /\ UNCHANGED marker
  /\ UNCHANGED <<holder, keyring, late, pc, created, mem, new, losses>>

PowerLoss ==
  /\ losses < MaxLosses /\ losses' = losses + 1
  /\ lock' = [lock EXCEPT !.there = lock.durable]
  /\ marker' = IF lock.durable THEN [seen |-> marker.disk, disk |-> marker.disk]
               ELSE [seen |-> FALSE, disk |-> FALSE]
  /\ keyring' \in {keyring} \cup late \cup {new[p] : p \in {q \in Procs : pc[q] = "marked"}}
  /\ late' = {}
  /\ holder' = NoProc
  /\ pc' = [p \in Procs |-> "out"]
  /\ mem' = [p \in Procs |-> Nothing]
  /\ new' = [p \in Procs |-> Nothing]
  /\ UNCHANGED created

Steps(p) ==
  \/ OpenLock(p) \/ TakeLease(p) \/ VerifyLease(p) \/ SyncLock(p) \/ Lookup(p)
  \/ Invalidate(p) \/ BeginWrite(p) \/ BeginWriteFails(p) \/ Store(p) \/ StoreFails(p)
  \/ Clear(p) \/ ClearSync(p) \/ ClearFails(p) \/ Leave(p) \/ Crash(p)

Next ==
  \/ \E p \in Procs : Steps(p)
  \/ \E p \in Procs, c \in Creds : Save(p, c)
  \/ \E r \in late : LateWrite(r)
  \/ WriteBack \/ PowerLoss

Spec == Init /\ [][Next]_vars

-----------------------------------------------------------------------------
(* Properties *)

\* A process that works from a record works from the one in the keyring, and no
\* straggling helper can change it: writes are fenced before the helper starts
\* and the fence outlives a helper whose end is unknown (lease.rs, begin_write).
ReadyMatchesKeyring ==
  \A p \in Procs : pc[p] = "ready" => mem[p] = keyring /\ late = {}

\* Every process that got past the flock has it alone until it is done.
LeaseIsExclusive == \A p \in Procs : pc[p] \in Leased => holder = p

\* A helper writes the keyring behind a marker whose file and directory entry
\* are on disk, so that the fence outlives a power loss: "Persist the new
\* directory entry as well as the file before any subsequent pending marker can
\* authorize a keyring write" (lease.rs:101).  Only the creator
\* of the file sees to that, so it holds where no record was left over: nobody
\* else gets to write first there.
FenceIsDurable == \A p \in Procs : pc[p] \in Writing => lock.durable

-----------------------------------------------------------------------------
(* The credential store this implements, where no record is left over *)

\* The record a process reads is the store's; a write that is under way does
\* not show before its marker is cleared; an interrupted one leaves the store
\* fenced for good, once the marker is on disk.
Shown == IF holder # NoProc /\ pc[holder] \in Writing THEN mem[holder]
         ELSE IF marker = Mark THEN Fenced ELSE keyring

Views == [p \in Procs |-> IF pc[p] = "sync" THEN new[p]
                          ELSE IF mem[p] = Fresh THEN Nothing ELSE mem[p]]
=============================================================================
