------------------------------- MODULE DpapiStore -------------------------------
(***************************************************************************)
(* WindowsStorage of sdk/rust/src/storage/windows.rs: one credential in a  *)
(* file under the user's protection, behind a lease file that is opened    *)
(* without sharing.  Unlike the other stores it writes no pending marker:  *)
(* the replacement of the file is the moment a write takes effect, and     *)
(* what a failed or interrupted write left behind is what the next process *)
(* finds.                                                                  *)
(*                                                                         *)
(* The calls of one process are serialised by its mutex.  A caller keeps   *)
(* the version it loaded and may save with it much later.                  *)
(***************************************************************************)
EXTENDS Naturals

CONSTANTS Procs, Creds, NoCred, NoProc, MaxGen,
          MaxWrites,    \* bound: writes
          MaxLosses     \* bound: power losses

VARIABLES
  lock,      \* the lease file: whether it is there, and on disk
  holder,    \* the process that has it open
  data,      \* the data file: as shown, as on disk, its content flushed
  pc, created, mem, new,   \* per process; mem is State.generation and .credential
  held,      \* per process: the version its caller loaded last
  acked,     \* history: the number of the last write that returned Ok
  losses

vars == <<lock, holder, data, pc, created, mem, new, held, acked, losses>>

\* n numbers the writes, for the history.
Records == [gen : 0..MaxGen, cred : Creds \cup {NoCred}, n : 0..MaxWrites]
Pseudo(name) == [gen |-> 0, cred |-> name, n |-> 0]
Fresh == Pseudo("fresh")
Torn == Pseudo("torn")
Nothing == Pseudo("nothing")

Phases == {"out", "read", "ready", "write", "staged", "replaced", "poisoned"}

TypeOK ==
  /\ lock \in [there : BOOLEAN, durable : BOOLEAN]
  /\ holder \in Procs \cup {NoProc}
  /\ data \in [seen : Records \cup {Fresh}, disk : Records \cup {Fresh}, flushed : BOOLEAN]
  /\ pc \in [Procs -> Phases]
  /\ created \in [Procs -> BOOLEAN]
  /\ mem \in [Procs -> Records \cup {Nothing}]
  /\ new \in [Procs -> Records \cup {Nothing}]
  /\ held \in [Procs -> 0..MaxGen]
  /\ acked \in 0..MaxWrites
  /\ losses \in 0..MaxLosses

Init ==
  /\ lock = [there |-> FALSE, durable |-> FALSE]
  /\ holder = NoProc
  /\ data = [seen |-> Fresh, disk |-> Fresh, flushed |-> TRUE]
  /\ pc = [p \in Procs |-> "out"]
  /\ created = [p \in Procs |-> FALSE]
  /\ mem = [p \in Procs |-> Nothing]
  /\ new = [p \in Procs |-> Nothing]
  /\ held = [p \in Procs |-> 0]
  /\ acked = 0
  /\ losses = 0

-----------------------------------------------------------------------------
(* open *)

Goto(p, l) == pc' = [pc EXCEPT ![p] = l]

\* The storage is dropped, or its process is gone: the lease is given back.
Out(p) ==
  /\ Goto(p, "out")
  /\ mem' = [mem EXCEPT ![p] = Nothing]
  /\ new' = [new EXCEPT ![p] = Nothing]
  /\ held' = [held EXCEPT ![p] = 0]
  /\ holder' = IF holder = p THEN NoProc ELSE holder
  /\ UNCHANGED created

\* State::poison: the credential is forgotten, the lease is kept.
Poison(p) ==
  /\ Goto(p, "poisoned")
  /\ mem' = [mem EXCEPT ![p] = Nothing]
  /\ new' = [new EXCEPT ![p] = Nothing]
  /\ UNCHANGED <<held, holder, created>>

\* Mutant: the lease file is opened with sharing.
Shared == TRUE

\* share_mode(0): the file can be opened by one process.
Free == holder = NoProc

\* lease: the file is created, or opened as it is; Error::Storage if another
\* process has it.
TakeLease(p) ==
  /\ pc[p] = "out" /\ Free
  /\ holder' = p
  /\ created' = [created EXCEPT ![p] = ~lock.there]
  /\ lock' = [lock EXCEPT !.there = TRUE]
  /\ Goto(p, "read")
  /\ UNCHANGED <<data, mem, new, held, acked, losses>>

\* A missing file is a new store exactly when this process created the lease.
MissingAllowed(p) == created[p]

\* read_ciphertext, unprotect_user_data and decode, or the first commit.
Read(p) ==
  /\ pc[p] = "read"
  /\ IF data.seen \notin {Fresh, Torn}
     THEN /\ mem' = [mem EXCEPT ![p] = data.seen]
          /\ Goto(p, "ready")
          /\ UNCHANGED <<holder, created, new, held>>
     ELSE IF data.seen = Fresh /\ MissingAllowed(p)
     THEN /\ new' = [new EXCEPT ![p] = [gen |-> 0, cred |-> NoCred, n |-> 0]]
          /\ Goto(p, "write")
          /\ UNCHANGED <<holder, created, mem, held>>
     ELSE Out(p)
  /\ UNCHANGED <<lock, data, acked, losses>>

\* open fails for another reason: a directory that is not pinned or local.
OpenFails(p) == pc[p] = "read" /\ Out(p) /\ UNCHANGED <<lock, data, acked, losses>>

-----------------------------------------------------------------------------
(* load, save, invalidate *)

\* load: the caller remembers the version.
Load(p) ==
  /\ pc[p] = "ready" /\ held[p] # mem[p].gen
  /\ held' = [held EXCEPT ![p] = mem[p].gen]
  /\ UNCHANGED <<lock, holder, data, pc, created, mem, new, acked, losses>>

Commits(p, gen, cred) ==
  /\ mem[p].n < MaxWrites
  /\ new' = [new EXCEPT ![p] = [gen |-> gen, cred |-> cred, n |-> mem[p].n + 1]]
  /\ Goto(p, "write")
  /\ UNCHANGED <<lock, holder, data, created, mem, held, acked, losses>>

\* Mutant: the version of a save is not looked at.
AnyVersion(p) == TRUE

\* StaleResponse unless the version is current.
CurrentVersion(p) == held[p] = mem[p].gen

Save(p, c) == pc[p] = "ready" /\ CurrentVersion(p) /\ Commits(p, held[p], c)

\* At MAX_GENERATION the storage is poisoned.
Invalidate(p) ==
  /\ pc[p] = "ready"
  /\ IF mem[p].gen = MaxGen THEN Poison(p) /\ UNCHANGED <<lock, data, acked, losses>>
     ELSE Commits(p, mem[p].gen + 1, NoCred)

-----------------------------------------------------------------------------
(* commit *)

\* encode, protect_user_data and the checks of their size; a new file under a
\* random name is written.
Stage(p) ==
  /\ pc[p] = "write"
  /\ Goto(p, "staged")
  /\ UNCHANGED <<lock, holder, data, created, mem, new, held, acked, losses>>

\* Mutant: the new file is renamed unflushed.
StageUnflushed == FALSE

\* sync_all of the new file, before it is renamed.
StageFlushed == TRUE

\* replace_storage_ciphertext.
Replace(p) ==
  /\ pc[p] = "staged"
  /\ data' = [data EXCEPT !.seen = new[p], !.flushed = StageFlushed]
  /\ Goto(p, "replaced")
  /\ UNCHANGED <<lock, holder, created, mem, new, held, acked, losses>>

\* What is on disk under the name once the directory is written.
Entry == IF data.flushed THEN data.seen ELSE Torn

\* Mutant: the replacement is not flushed.
NotWritten == data

\* sync_all of the replaced file.
Written == [data EXCEPT !.disk = Entry]

\* commit returns Ok and takes the record over.
SyncData(p) ==
  /\ pc[p] = "replaced"
  /\ data' = Written
  /\ mem' = [mem EXCEPT ![p] = new[p]]
  /\ new' = [new EXCEPT ![p] = Nothing]
  /\ acked' = new[p].n
  /\ Goto(p, "ready")
  /\ UNCHANGED <<lock, holder, created, held, losses>>

\* Any step of it fails.  The first commit's failure fails the open.
CommitFails(p) ==
  /\ pc[p] \in {"write", "staged", "replaced"}
  /\ IF mem[p] = Nothing THEN Out(p) ELSE Poison(p)
  /\ UNCHANGED <<lock, data, acked, losses>>

Leave(p) == pc[p] \in {"ready", "poisoned"} /\ Out(p) /\ UNCHANGED <<lock, data, acked, losses>>

-----------------------------------------------------------------------------
(* The environment *)

Crash(p) ==
  /\ pc[p] \in {"read", "write", "staged", "replaced"} /\ Out(p)
  /\ UNCHANGED <<lock, data, acked, losses>>

\* The system writes back by itself.
WriteBack ==
  /\ \/ lock.there /\ ~lock.durable /\ lock' = [lock EXCEPT !.durable = TRUE] /\ UNCHANGED data
     \/ data.disk # Entry /\ data' = Written /\ UNCHANGED lock
  /\ UNCHANGED <<holder, pc, created, mem, new, held, acked, losses>>

PowerLoss ==
  /\ losses < MaxLosses /\ losses' = losses + 1
  /\ lock' = [lock EXCEPT !.there = lock.durable]
  /\ data' = [seen |-> data.disk, disk |-> data.disk, flushed |-> TRUE]
  /\ holder' = NoProc
  /\ pc' = [p \in Procs |-> "out"]
  /\ mem' = [p \in Procs |-> Nothing]
  /\ new' = [p \in Procs |-> Nothing]
  /\ held' = [p \in Procs |-> 0]
  /\ UNCHANGED <<created, acked>>

Steps(p) ==
  \/ TakeLease(p) \/ Read(p) \/ OpenFails(p) \/ Load(p) \/ Invalidate(p)
  \/ Stage(p) \/ Replace(p) \/ SyncData(p) \/ CommitFails(p) \/ Leave(p) \/ Crash(p)

Next ==
  \/ \E p \in Procs : Steps(p)
  \/ \E p \in Procs, c \in Creds : Save(p, c)
  \/ WriteBack \/ PowerLoss

Spec == Init /\ [][Next]_vars

-----------------------------------------------------------------------------
(* Properties *)

\* After save or invalidate returned Ok, no process is given an older record,
\* whatever later write was cut short, by a crash or by a loss of power: an
\* invalidated credential does not come back.
NeverOlder == \A p \in Procs : pc[p] = "ready" => mem[p].n >= acked

\* A process works from the record in the file, from the open to the drop, and
\* nobody else writes it meanwhile.
WorksFromFile == \A p \in Procs : pc[p] = "ready" => mem[p] = data.seen

-----------------------------------------------------------------------------
(* The credential store this implements, as long as the machine keeps running *)

\* Each write takes effect when the file is replaced, and a store whose set-up
\* was interrupted is fenced.  A loss of power may undo a replacement that was
\* never acknowledged after another process has read it.
Plain(r) == [gen |-> r.gen, cred |-> r.cred]

Shown == IF data.seen = Fresh /\ lock.there /\ (holder = NoProc \/ ~created[holder])
         THEN [gen |-> 0, cred |-> "fenced"] ELSE Plain(data.seen)

Views == [p \in Procs |-> IF pc[p] = "replaced" THEN Plain(new[p]) ELSE Plain(mem[p])]
=============================================================================
