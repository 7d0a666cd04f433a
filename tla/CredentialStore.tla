---------------------------- MODULE CredentialStore ----------------------------
(***************************************************************************)
(* What the Storage trait promises its caller (sdk/rust/src/storage.rs,    *)
(* with MemoryStorage as its plainest form): one versioned credential, a   *)
(* save that must carry the current version, an invalidation that moves    *)
(* the version, and nothing that brings an older state back.  Storage that *)
(* outlives a process adds one outcome: after an interrupted write it is   *)
(* fenced, and no process is given anything from it again.                 *)
(***************************************************************************)
EXTENDS Naturals

CONSTANTS Procs, Creds, NoCred, MaxGen

VARIABLES
  store,   \* the record, or Fresh before the first, or Fenced
  view     \* per process: the record it works from, or Nothing

vars == <<store, view>>

Records == [gen : 0..MaxGen, cred : Creds \cup {NoCred}]
Fresh == [gen |-> 0, cred |-> "fresh"]
Fenced == [gen |-> 0, cred |-> "fenced"]
Nothing == [gen |-> 0, cred |-> "nothing"]
First == [gen |-> 0, cred |-> NoCred]

Init == store \in {Fresh} \cup Records /\ view = [p \in Procs |-> Nothing]

\* One process at a time.
Open(p) ==
  /\ \A q \in Procs : view[q] = Nothing
  /\ store # Fenced
  /\ store' = IF store = Fresh THEN First ELSE store
  /\ view' = [view EXCEPT ![p] = store']

\* Both change the record and the process's view of it together.
Write(p, r) == view[p] # Nothing /\ store' = r /\ view' = [view EXCEPT ![p] = r]

\* save(version, credential): the version stays and must be the current one.
Save(p, c) == Write(p, [gen |-> view[p].gen, cred |-> c])

\* invalidate().
Invalidate(p) ==
  view[p].gen < MaxGen /\ Write(p, [gen |-> view[p].gen + 1, cred |-> NoCred])

\* The process is done with the store, was refused by it, or died; a write it
\* had begun is undone or fences the store.
Leave(p) ==
  /\ view' = [view EXCEPT ![p] = Nothing]
  /\ store' \in {store, Fenced}

\* The machine stopped.
LeaveAll ==
  /\ view' = [p \in Procs |-> Nothing]
  /\ store' \in {store, Fenced}

Next ==
  \/ \E p \in Procs : Open(p) \/ Invalidate(p) \/ Leave(p)
  \/ \E p \in Procs, c \in Creds : Save(p, c)
  \/ LeaveAll

Spec == Init /\ [][Next]_vars
=============================================================================
