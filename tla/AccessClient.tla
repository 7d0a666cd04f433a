----------------------------- MODULE AccessClient -----------------------------
(***************************************************************************)
(* The installed client's access to an ordinary licence: the in-memory     *)
(* State of sdk/rust/src/access.rs, the record of                          *)
(* sdk/rust/src/installed.rs, and the calls that move both.                *)
(*                                                                         *)
(* Callers share one client.  Calls that talk to Orbit run under a serial  *)
(* lock and suspend while a request is in flight; logout, deactivate,      *)
(* resolve_pending_activation and the checks of access do not take that    *)
(* lock and may run at every suspension.  A call remembers the generation  *)
(* it started from and its answer is dropped when the generation moved.    *)
(*                                                                         *)
(* A commit of the record is one step here, with the outcomes that module  *)
(* StateFile justifies.  A credential and a grant are represented by the   *)
(* activation they belong to; an activation by its operation id; and an    *)
(* operation id, which is random in the code, by the generation of the     *)
(* record that first carried it.  Floating sessions, offline files and     *)
(* customer accounts are outside this module.                              *)
(***************************************************************************)
EXTENDS Integers, FiniteSets

CONSTANTS Threads,        \* tasks that call the client
          NoThread,       \* nobody holds the serial lock
          LicenceKeys,    \* licence keys a caller may enter
          NoKey,          \* no key
          MaxGeneration   \* MAX_GENERATION of the record, i64::MAX in the code

ASSUME ThreadsAssumption == NoThread \notin Threads
ASSUME KeysAssumption == NoKey \notin LicenceKeys
ASSUME MaxGenerationAssumption == MaxGeneration \in Nat

None == 0                          \* no activation
Ops == 1..MaxGeneration
Stages == {"fresh", "due", "expired"}

\* What the signed grant says, and how old it is: fresh until refresh_after,
\* due until exp, then expired.
Grants == [act : Ops, offline : BOOLEAN, stage : Stages]
NoGrant == [act |-> None, offline |-> FALSE, stage |-> "expired"]
NoPending == [op |-> None, key |-> NoKey]

VARIABLES
  rec,       \* the record on disk: Record
  bricked,   \* the write marker was left behind: the next open is CorruptState
  life,      \* closed, opening, open, closing (the closed flag is set)
  poisoned,  \* DiskState.poisoned
  mem,       \* the State of the client
  serial,    \* holder of the serial lock
  current,   \* the calls whose generation is still State.generation
  call,      \* what each task is doing
  net,       \* activations that were sent
  issued,    \* activations the server has carried out
  revoked,   \* activations the server no longer honours
  epoch,     \* history: completed logouts and deactivations
  settled    \* history: activations whose outcome the client has recorded

storage == <<rec, bricked, poisoned>>
server == <<net, issued, revoked>>
vars == <<storage, life, mem, serial, current, call, server, epoch, settled>>

Records == [gen : 0..MaxGeneration, cred : Ops \cup {None},
            pend : [op : Ops, key : LicenceKeys] \cup {NoPending},
            access : Grants \cup {NoGrant}, born : 0..MaxGeneration]
Memories == [ver : 0..MaxGeneration, cred : Ops \cup {None},
             claims : Grants \cup {NoGrant}, restored : BOOLEAN, transient : BOOLEAN,
             born : 0..MaxGeneration]

\* The answers a call distinguishes.  "unverified" is a good reply whose
\* signing keys could not be fetched, "discard" a denial that names the
\* credential, "invalid" every other error that is not a denial.
Replies == {"ok", "unverified", "transient", "denied", "discard", "version", "invalid"}

Calls == [pc : {"idle", "wait", "sent", "got"},
          kind : {"none", "activate", "refresh", "refreshIfNeeded"},
          key : LicenceKeys \cup {NoKey}, act : Ops \cup {None},
          reply : Replies \cup {"none"}, grant : Grants \cup {NoGrant},
          born : 0..MaxGeneration]
Idle == [pc |-> "idle", kind |-> "none", key |-> NoKey, act |-> None,
         reply |-> "none", grant |-> NoGrant, born |-> 0]

EmptyRecord == [gen |-> 0, cred |-> None, pend |-> NoPending, access |-> NoGrant, born |-> 0]
EmptyMemory == [ver |-> 0, cred |-> None, claims |-> NoGrant, restored |-> FALSE,
                transient |-> FALSE, born |-> 0]

TypeOK ==
  /\ rec \in Records
  /\ bricked \in BOOLEAN
  /\ life \in {"closed", "opening", "open", "closing"}
  /\ poisoned \in BOOLEAN
  /\ mem \in Memories
  /\ serial \in Threads \cup {NoThread}
  /\ current \subseteq Threads
  /\ call \in [Threads -> Calls]
  /\ net \subseteq Ops
  /\ issued \subseteq net
  /\ revoked \subseteq issued
  /\ epoch \in 0..MaxGeneration
  /\ settled \subseteq Ops

Init ==
  /\ rec = EmptyRecord
  /\ bricked = FALSE
  /\ life = "closed"
  /\ poisoned = FALSE
  /\ mem = EmptyMemory
  /\ serial = NoThread
  /\ current = {}
  /\ call = [t \in Threads |-> Idle]
  /\ net = {}
  /\ issued = {}
  /\ revoked = {}
  /\ epoch = 0
  /\ settled = {}

-----------------------------------------------------------------------------
(* The record: DiskState::commit and the methods of InstalledStorage *)

Outcome(r, b, p, ok) == [rec |-> r, bricked |-> b, poisoned |-> p, ok |-> ok]

\* A commit refused before anything is written.
Refused == {Outcome(rec, bricked, poisoned, FALSE)}

\* DiskState::commit.  A failed write poisons the storage and leaves the old
\* record, the new one, or a directory that no longer opens.
Commit(new) ==
  IF poisoned THEN Refused
  ELSE {Outcome(new, FALSE, FALSE, TRUE), Outcome(rec, FALSE, TRUE, FALSE),
        Outcome(new, FALSE, TRUE, FALSE), Outcome(rec, TRUE, TRUE, FALSE)}

\* Mutant: the limit of the generation is not checked.
CommitPastLimit(new) == Commit([new EXCEPT !.gen = rec.gen + 1])

\* A commit that also moves the generation: refused at MAX_GENERATION.
CommitNext(new) ==
  IF rec.gen = MaxGeneration THEN Refused ELSE Commit([new EXCEPT !.gen = rec.gen + 1])

Applied(o) == rec' = o.rec /\ bricked' = o.bricked /\ poisoned' = o.poisoned

\* Mutant: the cached grant outlives the credential.
ClearCredentialOnly(clearPending, clearCredential) ==
  CommitNext([rec EXCEPT !.access = IF clearCredential THEN @ ELSE NoGrant,
                         !.pend = IF clearPending THEN NoPending ELSE @,
                         !.cred = IF clearCredential THEN None ELSE @])

\* InstalledStorage::clear_cached(clear_pending, clear_credential)
ClearCached(clearPending, clearCredential) ==
  CommitNext([rec EXCEPT !.access = NoGrant,
                         !.pend = IF clearPending THEN NoPending ELSE @,
                         !.cred = IF clearCredential THEN None ELSE @,
                         !.born = IF clearCredential THEN 0 ELSE @])

\* InstalledStorage::prepare_activation, once the input is accepted.
PrepareActivation(key) ==
  CommitNext([rec EXCEPT !.access = NoGrant,
                         !.pend = IF @ = NoPending THEN [op |-> rec.gen + 1, key |-> key] ELSE @])

\* InstalledStorage::commit_access; born is the history of the call.
CommitAccess(grant, activation, born) ==
  IF rec.gen # mem.ver THEN Refused
  ELSE Commit([rec EXCEPT !.cred = grant.act, !.access = grant,
                          !.pend = IF activation THEN NoPending ELSE @, !.born = born])

\* InstalledStorage::checkpoint, forced or due: the cache keeps its grant only
\* when the client still has an anchor and both clocks moved forward.
Checkpoint(hasAnchor, clockOk) ==
  IF rec.access = NoGrant THEN {Outcome(rec, bricked, poisoned, ~poisoned)}
  ELSE IF hasAnchor /\ clockOk THEN Commit(rec)
  ELSE {[o EXCEPT !.ok = o.ok /\ ~hasAnchor] : o \in Commit([rec EXCEPT !.access = NoGrant])}

-----------------------------------------------------------------------------
(* The memory: clear, sync_storage and the access of a snapshot *)

\* clear and clear_access; both also move State.generation.
Cleared(m) == [EmptyMemory EXCEPT !.ver = m.ver]

SyncOk == life \in {"opening", "open"} /\ ~poisoned
InSync == SyncOk /\ mem.ver = rec.gen

\* What sync_storage leaves of the memory, and of the calls' generations.
SyncedMem ==
  IF life = "closing" \/ InSync THEN mem
  ELSE IF poisoned THEN Cleared(mem) ELSE [Cleared(mem) EXCEPT !.ver = rec.gen]
SyncedCurrent == IF life = "closing" \/ InSync THEN current ELSE {}

\* Record::validate, of what a record of this client can get wrong: a cached
\* grant belongs to the stored credential.
Validate(r) == r.access # NoGrant => r.cred = r.access.act

\* snapshot_state_at: without a trusted time the grant does not count.
Access(clockOk) ==
  IF mem.claims = NoGrant \/ ~clockOk
  THEN IF mem.cred = None THEN "Denied" ELSE "RefreshRequired"
  ELSE CASE mem.restored -> "RefreshRequired"
         [] ~mem.restored /\ mem.claims.stage = "expired" -> "Expired"
         [] ~mem.restored /\ mem.claims.stage # "expired" /\ mem.transient ->
              IF mem.claims.offline THEN "Offline" ELSE "RefreshRequired"
         [] OTHER -> IF mem.claims.stage = "due" THEN "RefreshRequired" ELSE "Online"

\* The last section of require_access: the storage is synchronised once more
\* after the refresh, and the decision is taken from that state.
Granted == InSync /\ Access(TRUE) \in {"Online", "Offline"}

-----------------------------------------------------------------------------
(* Calls *)

Set(t, c) == call' = [call EXCEPT ![t] = c]

\* The call of t returns.  While the client is being opened, its first refresh
\* decides whether open succeeds.
Return(t, result) ==
  /\ Set(t, Idle)
  /\ serial' = IF serial = t THEN NoThread ELSE serial
  /\ life' = IF life # "opening" THEN life
             ELSE IF result \in {"ok", "transient", "version"} THEN "open" ELSE "closing"

\* generation(): the call starts.
Begin(t, kind, key) ==
  /\ life = "open"
  /\ call[t].pc = "idle"
  /\ mem' = SyncedMem
  /\ IF SyncOk
     THEN /\ Set(t, [Idle EXCEPT !.pc = "wait", !.kind = kind, !.key = key, !.born = epoch])
          /\ current' = SyncedCurrent \cup {t}
     ELSE current' = SyncedCurrent /\ UNCHANGED call
  /\ UNCHANGED <<storage, life, serial, server, epoch, settled>>

\* The serial lock is free and the call takes it; check_generation rejects it.
Rejected(t) ==
  /\ call[t].pc = "wait"
  /\ serial = NoThread
  /\ ~(InSync /\ t \in current)
  /\ mem' = SyncedMem
  /\ current' = SyncedCurrent \ {t}
  /\ Return(t, "stale")
  /\ UNCHANGED <<storage, server, epoch, settled>>

Admitted(t) == call[t].pc = "wait" /\ serial = NoThread /\ InSync /\ t \in current

\* Mutant: access to the old licence is kept until the answer comes.
ActivateKeepingAccess(t) ==
  /\ Admitted(t)
  /\ call[t].kind = "activate"
  /\ rec.pend = NoPending \/ rec.pend.key = call[t].key
  /\ \E o \in PrepareActivation(call[t].key) :
       /\ o.ok
       /\ Applied(o)
       /\ mem' = [mem EXCEPT !.ver = o.rec.gen]
       /\ current' = {t}
       /\ serial' = t
       /\ net' = net \cup {o.rec.pend.op}
       /\ Set(t, [call[t] EXCEPT !.pc = "sent", !.act = o.rec.pend.op])
  /\ UNCHANGED <<life, issued, revoked, epoch, settled>>

\* activate_as: the intent is durable before the request leaves.
Activate(t) ==
  /\ Admitted(t)
  /\ call[t].kind = "activate"
  /\ rec.pend = NoPending \/ rec.pend.key = call[t].key
  /\ \E o \in PrepareActivation(call[t].key) :
       /\ Applied(o)
       /\ IF o.ok
          THEN /\ mem' = [mem EXCEPT !.ver = o.rec.gen, !.claims = NoGrant,
                                     !.restored = FALSE, !.transient = FALSE]
               /\ current' = {t}
               /\ serial' = t
               /\ net' = net \cup {o.rec.pend.op}
               /\ Set(t, [call[t] EXCEPT !.pc = "sent", !.act = o.rec.pend.op])
               /\ UNCHANGED life
          ELSE /\ Return(t, "storage")
               /\ current' = current \ {t}
               /\ UNCHANGED <<mem, net>>
  /\ UNCHANGED <<issued, revoked, epoch, settled>>

\* Another activation is unresolved (or the pending one is a day old).
ActivateBlocked(t) ==
  /\ Admitted(t)
  /\ call[t].kind = "activate"
  /\ rec.pend # NoPending
  /\ Return(t, "pending")
  /\ current' = current \ {t}
  /\ UNCHANGED <<storage, mem, server, epoch, settled>>

\* Mutant: a pending activation does not hold back the refresh.
RefreshWhilePending(t) ==
  /\ Admitted(t)
  /\ call[t].kind \in {"refresh", "refreshIfNeeded"}
  /\ mem.cred # None
  /\ serial' = t
  /\ Set(t, [call[t] EXCEPT !.pc = "sent", !.act = mem.cred])
  /\ UNCHANGED <<storage, life, mem, current, server, epoch, settled>>

\* refresh_inner_mode: the request carries the credential in memory.
Refresh(t) ==
  /\ Admitted(t)
  /\ call[t].kind \in {"refresh", "refreshIfNeeded"}
  /\ rec.pend = NoPending
  /\ call[t].kind = "refreshIfNeeded" =>
       \E clockOk \in BOOLEAN : Access(clockOk) \in {"RefreshRequired", "Expired", "Offline"}
  /\ mem.cred # None
  /\ serial' = t
  /\ Set(t, [call[t] EXCEPT !.pc = "sent", !.act = mem.cred])
  /\ UNCHANGED <<storage, life, mem, current, server, epoch, settled>>

\* refresh_inner_mode returns early: PendingActivation, nothing due, a retry
\* deadline not reached, or no credential.
RefreshSkipped(t) ==
  /\ Admitted(t)
  /\ call[t].kind \in {"refresh", "refreshIfNeeded"}
  /\ rec.pend # NoPending \/ mem.cred = None \/ call[t].kind = "refreshIfNeeded"
  /\ Return(t, "skipped")
  /\ current' = current \ {t}
  /\ UNCHANGED <<storage, mem, server, epoch, settled>>

\* The answer to the request of t, after the retries of the transport.  The
\* clock of a grant runs from here.
Live(a) == a \in issued \ revoked
Reply(t) ==
  /\ call[t].pc = "sent"
  /\ \E r \in Replies, offline \in BOOLEAN :
       /\ r \in {"ok", "unverified"} => Live(call[t].act)
       /\ r = "discard" /\ call[t].kind # "activate" => ~Live(call[t].act)
       /\ Set(t, [call[t] EXCEPT !.pc = "got", !.reply = r,
            !.grant = IF r = "ok" THEN [act |-> call[t].act, offline |-> offline, stage |-> "fresh"]
                      ELSE NoGrant])
  /\ UNCHANGED <<storage, life, mem, serial, current, server, epoch, settled>>

-----------------------------------------------------------------------------
(* accept_for_licence, the state section, one action per kind of answer *)

Activation(t) == call[t].kind = "activate"

\* Mutant: a dropped answer leaves the serial lock behind.
AcceptStaleLocked(t) ==
  /\ call[t].pc = "got"
  /\ ~(InSync /\ t \in current)
  /\ mem' = SyncedMem
  /\ current' = SyncedCurrent \ {t}
  /\ Set(t, Idle)
  /\ life' = IF life = "opening" THEN "closing" ELSE life
  /\ UNCHANGED <<storage, serial, server, epoch, settled>>

\* The answer is dropped: the client is closed or broken, or the generation moved.
AcceptStale(t) ==
  /\ call[t].pc = "got"
  /\ ~(InSync /\ t \in current)
  /\ mem' = SyncedMem
  /\ current' = SyncedCurrent \ {t}
  /\ Return(t, "stale")
  /\ UNCHANGED <<storage, server, epoch, settled>>

\* Mutant: the generation is not compared again after the await.
AcceptableWithoutGeneration(t) == call[t].pc = "got" /\ InSync

Acceptable(t) == call[t].pc = "got" /\ InSync /\ t \in current

\* What the record says of the outcome of the activation of t.
Settle(t, o) ==
  settled' = IF Activation(t) /\ o.rec.pend = NoPending THEN settled \cup {call[t].act} ELSE settled

AcceptOk(t) ==
  /\ Acceptable(t)
  /\ call[t].reply = "ok"
  /\ \E o \in CommitAccess(call[t].grant, Activation(t), call[t].born) :
       /\ Applied(o)
       /\ Settle(t, o)
       /\ IF o.ok
          THEN /\ mem' = [mem EXCEPT !.cred = call[t].act, !.claims = call[t].grant,
                                     !.restored = FALSE, !.transient = FALSE,
                                     !.born = call[t].born]
               /\ current' = current \ {t}
          ELSE mem' = Cleared(mem) /\ current' = {}
       /\ Return(t, IF o.ok THEN "ok" ELSE "storage")
  /\ UNCHANGED <<server, epoch>>

\* Orbit could not be reached.  Restored access becomes usable offline, once
\* its clock evidence has been saved.
AcceptTransient(t) ==
  /\ Acceptable(t)
  /\ call[t].reply = "transient"
  /\ \E clockOk \in BOOLEAN :
     \E o \in IF mem.restored THEN Checkpoint(mem.claims # NoGrant, clockOk)
              ELSE {Outcome(rec, bricked, poisoned, TRUE)} :
       /\ Applied(o)
       /\ mem' = IF o.ok THEN [mem EXCEPT !.restored = FALSE, !.transient = TRUE] ELSE mem
       /\ Return(t, IF o.ok THEN "transient" ELSE "clock")
  /\ current' = current \ {t}
  /\ UNCHANGED <<server, epoch, settled>>

\* Mutant: the cache on disk is left for the next start.
AcceptUnverifiedInMemory(t) ==
  /\ Acceptable(t)
  /\ call[t].reply = "unverified"
  /\ mem' = [mem EXCEPT !.claims = NoGrant, !.restored = FALSE, !.transient = TRUE]
  /\ Return(t, "transient")
  /\ current' = {}
  /\ UNCHANGED <<storage, server, epoch, settled>>

\* The reply cannot be verified for now: cached authority is given up, the
\* credential is kept.
AcceptUnverified(t) ==
  /\ Acceptable(t)
  /\ call[t].reply = "unverified"
  /\ \E o \in ClearCached(FALSE, FALSE) :
       /\ Applied(o)
       /\ mem' = IF o.ok
                 THEN [mem EXCEPT !.claims = NoGrant, !.ver = o.rec.gen,
                                  !.restored = FALSE, !.transient = TRUE]
                 ELSE [mem EXCEPT !.claims = NoGrant]
       /\ Return(t, IF o.ok THEN "transient" ELSE "storage")
  /\ current' = {}
  /\ UNCHANGED <<server, epoch, settled>>

\* A denial or another definite error.  Only a denial settles an activation,
\* and only discards_credential gives up the credential.
Definitive(t) == call[t].reply \in {"denied", "discard"} \/ (Activation(t) /\ call[t].reply = "version")
Discards(t) == call[t].reply = "discard"
AcceptError(t) ==
  /\ Acceptable(t)
  /\ call[t].reply \in {"denied", "discard", "version", "invalid"}
  /\ \E o \in ClearCached(Definitive(t), Discards(t)) :
       /\ Applied(o)
       /\ Settle(t, o)
       /\ mem' = [mem EXCEPT !.claims = NoGrant, !.restored = FALSE, !.transient = FALSE,
                             !.cred = IF Discards(t) THEN None ELSE @,
                             !.born = IF Discards(t) THEN 0 ELSE @,
                             !.ver = IF o.ok THEN o.rec.gen ELSE @]
       /\ Return(t, IF o.ok THEN call[t].reply ELSE "storage")
  /\ current' = {}
  /\ UNCHANGED <<server, epoch>>

\* The future of the call is dropped or its token cancelled at a suspension.
Drop(t) ==
  /\ call[t].pc # "idle"
  /\ Return(t, "cancelled")
  /\ current' = current \ {t}
  /\ UNCHANGED <<storage, mem, server, epoch, settled>>

-----------------------------------------------------------------------------
(* Calls that do not take the serial lock *)

\* logout, and deactivate up to its request: clear, then invalidate.
Invalidate ==
  \E o \in ClearCached(FALSE, TRUE) :
    /\ Applied(o)
    /\ mem' = [Cleared(mem) EXCEPT !.ver = IF o.ok THEN o.rec.gen ELSE @]
    /\ current' = {}
    /\ epoch' = IF o.ok THEN epoch + 1 ELSE epoch

Logout ==
  /\ life \in {"open", "closing"}
  /\ Invalidate
  /\ UNCHANGED <<life, serial, call, server, settled>>

Deactivate ==
  /\ life = "open"
  /\ InSync
  /\ mem.cred # None
  /\ Invalidate
  /\ UNCHANGED <<life, serial, call, server, settled>>

ResolvePendingActivation ==
  /\ life \in {"open", "closing"}
  /\ rec.pend # NoPending
  /\ \E o \in ClearCached(TRUE, FALSE) :
       /\ Applied(o)
       /\ settled' = IF o.rec.pend = NoPending THEN settled \cup {rec.pend.op} ELSE settled
       /\ IF o.ok
          THEN /\ mem' = [mem EXCEPT !.ver = o.rec.gen, !.claims = NoGrant]
               /\ current' = {}
          ELSE UNCHANGED <<mem, current>>
  /\ UNCHANGED <<life, serial, call, server, epoch>>

\* Mutant: the new generation of the record is not adopted.
ClockUncertainOldVersion ==
  /\ life = "open"
  /\ InSync
  /\ mem.claims # NoGrant
  /\ \E o \in ClearCached(FALSE, FALSE) :
       /\ Applied(o)
       /\ mem' = [mem EXCEPT !.claims = NoGrant]
  /\ current' = {}
  /\ UNCHANGED <<life, serial, call, server, epoch, settled>>

\* checked_snapshot_locked finds that the clock of the grant cannot be trusted.
ClockUncertain ==
  /\ life = "open"
  /\ InSync
  /\ mem.claims # NoGrant
  /\ \E o \in ClearCached(FALSE, FALSE) :
       /\ Applied(o)
       /\ mem' = [mem EXCEPT !.claims = NoGrant, !.ver = IF o.ok THEN o.rec.gen ELSE @]
  /\ current' = {}
  /\ UNCHANGED <<life, serial, call, server, epoch, settled>>

\* snapshot() and every other check synchronise first.
Observe ==
  /\ life = "open"
  /\ ~InSync
  /\ mem' = SyncedMem
  /\ current' = SyncedCurrent
  /\ UNCHANGED <<storage, life, serial, call, server, epoch, settled>>

\* The worker's checkpoint, at most once a minute.
WorkerCheckpoint ==
  /\ life = "open"
  /\ \E clockOk \in BOOLEAN : \E o \in Checkpoint(mem.claims # NoGrant, clockOk) : Applied(o)
  /\ UNCHANGED <<life, mem, serial, current, call, server, epoch, settled>>

-----------------------------------------------------------------------------
(* Opening, closing and dying *)

\* open_parsed: the record is read, rebound when the machine fingerprint
\* changed, and its cached grant restored but not usable yet.  A client with a
\* credential and nothing pending validates before open returns.
Opened(t, r, m) ==
  /\ rec' = r
  /\ mem' = m
  /\ IF m.cred # None /\ r.pend = NoPending
     THEN /\ life' = "opening"
          /\ Set(t, [Idle EXCEPT !.pc = "wait", !.kind = "refresh", !.born = epoch])
          /\ current' = {t}
     ELSE life' = "open" /\ UNCHANGED <<call, current>>

Loaded(r) == [EmptyMemory EXCEPT !.ver = r.gen, !.cred = r.cred, !.born = r.born]
Restorable(g) == g # NoGrant /\ g.stage # "expired" /\ g.offline

Open(t) ==
  /\ life = "closed"
  /\ ~bricked
  /\ Opened(t, rec, [Loaded(rec) EXCEPT !.claims = IF Restorable(rec.access) THEN rec.access ELSE @,
                                        !.restored = Restorable(rec.access)])
  /\ UNCHANGED <<bricked, poisoned, serial, server, epoch, settled>>

\* open continues after a commit, or fails with it and lets the storage go.
OpenedAfter(t, o) ==
  /\ bricked' = o.bricked
  /\ IF o.ok THEN Opened(t, o.rec, Loaded(o.rec))
     ELSE rec' = o.rec /\ UNCHANGED <<life, mem, call, current>>

\* restore() fails, the clocks of the cache being inconsistent: it is cleared.
OpenUncertain(t) ==
  /\ life = "closed"
  /\ ~bricked
  /\ rec.access # NoGrant
  /\ \E o \in ClearCached(FALSE, FALSE) : OpenedAfter(t, o)
  /\ UNCHANGED <<poisoned, serial, server, epoch, settled>>

\* The fingerprint changed: a new installation without any saved authority.
OpenRebound(t) ==
  /\ life = "closed"
  /\ ~bricked
  /\ \E o \in CommitNext(EmptyRecord) :
       /\ OpenedAfter(t, o)
       /\ settled' = IF o.rec.pend = NoPending THEN settled \cup ({rec.pend.op} \ {None}) ELSE settled
  /\ UNCHANGED <<poisoned, serial, server, epoch>>

\* close(): the flag is set and the requests are cancelled ...
BeginClose ==
  /\ life = "open"
  /\ life' = "closing"
  /\ UNCHANGED <<storage, mem, serial, current, call, server, epoch, settled>>

Gone == /\ life' = "closed"
        /\ mem' = EmptyMemory
        /\ serial' = NoThread
        /\ current' = {}
        /\ call' = [t \in Threads |-> Idle]

\* ... then close takes the serial lock, saves the clocks and lets go.
FinishClose ==
  /\ life = "closing"
  /\ serial = NoThread
  /\ \E clockOk \in BOOLEAN : \E o \in Checkpoint(mem.claims # NoGrant, clockOk) :
       rec' = o.rec /\ bricked' = o.bricked
  /\ poisoned' = FALSE
  /\ Gone
  /\ UNCHANGED <<server, epoch, settled>>

Crash ==
  /\ life # "closed"
  /\ Gone
  /\ poisoned' = FALSE
  /\ UNCHANGED <<rec, bricked, server, epoch, settled>>

\* DiskState::check finds that the directory was tampered with.
StorageFails ==
  /\ life \in {"opening", "open", "closing"}
  /\ poisoned' = TRUE
  /\ UNCHANGED <<rec, bricked, life, mem, serial, current, call, server, epoch, settled>>

-----------------------------------------------------------------------------
(* The server and time *)

\* An activation is carried out at most once, whenever its request arrives; it
\* replaces what this installation had.
ServerActivates ==
  /\ \E a \in net \ issued :
       /\ issued' = issued \cup {a}
       /\ revoked' = issued
  /\ UNCHANGED <<storage, life, mem, serial, current, call, net, epoch, settled>>

ServerRevokes ==
  /\ \E a \in issued \ revoked : revoked' = revoked \cup {a}
  /\ UNCHANGED <<storage, life, mem, serial, current, call, net, issued, epoch, settled>>

Older(g) ==
  IF g = NoGrant THEN g ELSE [g EXCEPT !.stage = IF g.stage = "fresh" THEN "due" ELSE "expired"]
Age ==
  /\ rec' = [rec EXCEPT !.access = Older(@)]
  /\ mem' = [mem EXCEPT !.claims = Older(@)]
  /\ call' = [t \in Threads |-> [call[t] EXCEPT !.grant = Older(@)]]
  /\ UNCHANGED <<bricked, poisoned, life, serial, current, server, epoch, settled>>

-----------------------------------------------------------------------------

Running(t) ==
  \/ Rejected(t) \/ Activate(t) \/ ActivateBlocked(t) \/ Refresh(t) \/ RefreshSkipped(t)
  \/ Reply(t) \/ AcceptStale(t) \/ AcceptOk(t) \/ AcceptTransient(t) \/ AcceptUnverified(t)
  \/ AcceptError(t)

Starting(t) ==
  \/ Begin(t, "refresh", NoKey)
  \/ Begin(t, "refreshIfNeeded", NoKey)
  \/ \E k \in LicenceKeys : Begin(t, "activate", k)
  \/ Open(t) \/ OpenUncertain(t) \/ OpenRebound(t)

Local ==
  \/ Logout \/ Deactivate \/ ResolvePendingActivation \/ ClockUncertain \/ Observe
  \/ WorkerCheckpoint \/ BeginClose \/ FinishClose \/ Crash \/ StorageFails

Next ==
  \/ \E t \in Threads : Starting(t) \/ Running(t) \/ Drop(t)
  \/ Local
  \/ ServerActivates \/ ServerRevokes \/ Age

Spec == Init /\ [][Next]_vars

\* A request ends within the transport's operation timeout, the serial lock is
\* a fair tokio mutex, and close() runs to its end once it may.
Fairness == WF_vars(FinishClose) /\ \A t \in Threads : SF_vars(Running(t))
FairSpec == Spec /\ Fairness

-----------------------------------------------------------------------------
(* Properties *)

\* sync_storage never finds a record it did not expect: every call that moves
\* the generation of the record hands the new one to State.storage_version, so
\* that no caller loses its access to another caller's bookkeeping.
VersionInSync == life # "closed" /\ ~poisoned => mem.ver = rec.gen

\* A check that passes (require_access) rests on the activation whose
\* credential is in memory and on disk, and nothing is pending.
AccessIsBacked ==
  Granted =>
    /\ mem.claims.act = mem.cred
    /\ rec.cred = mem.cred
    /\ rec.pend = NoPending

\* What is written is what Record::validate accepts on the next open.
RecordIsValid == Validate(rec)

\* No answer to a call that began before a completed logout or deactivate, and
\* no record from before it, brings a credential back.
LogoutIsFinal ==
  /\ mem.cred # None => mem.born = epoch
  /\ rec.cred # None /\ ~bricked => rec.born = epoch

\* No activation that may have reached the server is forgotten: its operation
\* id stays in the record, across crashes, logouts, failed writes and unrelated
\* denials, until the server's verdict on it, resolve_pending_activation, or a
\* new installation identity.  (Importing an offline file, which is outside
\* this module, drops it too: save_offline, installed.rs:838.)
NoLostActivation == net \subseteq settled \cup {rec.pend.op}

\* Restarting the application gains no authority: whatever a restart could
\* restore from the record, the running client still has.  (At MAX_GENERATION
\* the record can no longer be invalidated and every such call reports it.)
RestartGainsNothing ==
  InSync /\ rec.gen < MaxGeneration /\ Restorable(rec.access) => mem.claims = rec.access

\* No call hangs: the serial lock is given back on every path of activate,
\* refresh and accept_for_licence, stale, failed and cancelled ones included.
EveryCallReturns == \A t \in Threads : call[t].pc # "idle" ~> call[t].pc = "idle"

\* close() always completes, whatever calls it interrupts.
CloseCompletes == life = "closing" ~> life = "closed"
=============================================================================
