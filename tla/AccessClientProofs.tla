-------------------------- MODULE AccessClientProofs --------------------------
(***************************************************************************)
(* TLAPS proofs about the installed client of module AccessClient, for     *)
(* every set of tasks and licence keys and every MAX_GENERATION.           *)
(***************************************************************************)
EXTENDS AccessClient, TLAPS

(***************************************************************************)
(* The inductive invariant                                                 *)
(***************************************************************************)

\* A client that is not open holds nothing, and a directory that no longer
\* opens is only in use by a client that has noticed.
LifeInv ==
  /\ life = "closed" =>
       /\ mem = EmptyMemory /\ serial = NoThread /\ current = {} /\ ~poisoned
       /\ \A t \in Threads : call[t] = Idle
  /\ bricked /\ life # "closed" => poisoned

\* The record: what Record::validate asks for, no cached grant beside a
\* pending activation, and a generation that has counted every logout.
RecordInv ==
  /\ rec.access # NoGrant => rec.cred = rec.access.act /\ rec.pend = NoPending
  /\ rec.cred # None => rec.born = epoch
  /\ epoch =< rec.gen

\* The memory against the record, as long as the storage works.
MemoryInv ==
  /\ mem.cred # None => mem.born = epoch
  /\ mem.claims # NoGrant => mem.claims.act = mem.cred
  /\ life # "closed" /\ ~poisoned =>
       /\ mem.ver = rec.gen
       /\ mem.cred # None => mem.cred = rec.cred
       /\ mem.claims # NoGrant => rec.pend = NoPending
       /\ rec.gen < MaxGeneration /\ Restorable(rec.access) => mem.claims = rec.access

\* A call whose generation is current began after the last logout; what it
\* waits for is the activation in the record, or nothing is pending there.
CallInv(t) ==
  /\ call[t].kind = "activate" => call[t].key \in LicenceKeys
  /\ call[t].pc \in {"sent", "got"} => serial = t
  /\ call[t].pc = "got" /\ call[t].reply = "ok" =>
       call[t].grant # NoGrant /\ call[t].grant.act = call[t].act
  /\ t \in current =>
       /\ call[t].pc # "idle"
       /\ call[t].born = epoch
       /\ call[t].pc \in {"sent", "got"} /\ ~poisoned =>
            IF call[t].kind = "activate" THEN call[t].act \in Ops /\ rec.pend.op = call[t].act
            ELSE rec.pend = NoPending

Safe == LifeInv /\ RecordInv /\ MemoryInv /\ (\A t \in Threads : CallInv(t)) /\ NoLostActivation

IInv == TypeOK /\ Safe

(***************************************************************************)
(* What a commit may leave                                                 *)
(***************************************************************************)

Outcomes == [rec : Records, bricked : BOOLEAN, poisoned : BOOLEAN, ok : BOOLEAN]

\* The outcomes of a commit of r: the new record, or a poisoned storage over
\* one of the two.
CommitLeaves(o, r) ==
  /\ o \in Outcomes
  /\ o.ok => ~poisoned /\ o.rec = r /\ ~o.bricked /\ ~o.poisoned
  /\ ~o.ok => o.poisoned /\ o.rec \in {rec, r}
  /\ poisoned => ~o.ok /\ o.rec = rec /\ o.bricked = bricked

\* The same for a commit that moves the generation, which may be at its limit.
NextLeaves(o, r) ==
  \/ /\ rec.gen = MaxGeneration
     /\ o = Outcome(rec, bricked, poisoned, FALSE)
  \/ rec.gen < MaxGeneration /\ CommitLeaves(o, [r EXCEPT !.gen = rec.gen + 1])

\* DiskState::commit leaves what CommitLeaves says.
LEMMA CommitOutcome ==
  ASSUME TypeOK, NEW r \in Records, NEW o \in Commit(r)
  PROVE  CommitLeaves(o, r)
<1>1. CASE poisoned
  <2>1. poisoned = TRUE /\ bricked \in BOOLEAN /\ rec \in Records
    BY <1>1, Zenon DEF TypeOK
  <2>2. o = [rec |-> rec, bricked |-> bricked, poisoned |-> TRUE, ok |-> FALSE]
    BY <1>1, <2>1, Zenon DEF Commit, Refused, Outcome
  <2>3. o \in Outcomes
    BY <2>1, <2>2, Zenon DEF Outcomes
  <2>4. o.rec = rec /\ o.bricked = bricked /\ o.poisoned = TRUE /\ o.ok = FALSE
    BY <2>2, Zenon
  <2> QED BY <1>1, <2>3, <2>4, Zenon DEF CommitLeaves
<1>2. CASE ~poisoned
  <2>1. rec \in Records
    BY DEF TypeOK
  <2>2. o \in {Outcome(r, FALSE, FALSE, TRUE), Outcome(rec, FALSE, TRUE, FALSE),
               Outcome(r, FALSE, TRUE, FALSE), Outcome(rec, TRUE, TRUE, FALSE)}
    BY <1>2, Zenon DEF Commit
  <2> USE <1>2, <2>1 DEF Outcome, Outcomes, CommitLeaves
  <2>3. CASE o = Outcome(r, FALSE, FALSE, TRUE)   BY <2>3
  <2>4. CASE o = Outcome(rec, FALSE, TRUE, FALSE) BY <2>4
  <2>5. CASE o = Outcome(r, FALSE, TRUE, FALSE)   BY <2>5
  <2>6. CASE o = Outcome(rec, TRUE, TRUE, FALSE)  BY <2>6
  <2> QED BY <2>2, <2>3, <2>4, <2>5, <2>6, Zenon
<1> QED BY <1>1, <1>2

\* A commit with a new generation leaves what NextLeaves says.
LEMMA CommitNextOutcome ==
  ASSUME TypeOK, NEW r \in Records, NEW o \in CommitNext(r)
  PROVE  NextLeaves(o, r)
<1>1. CASE rec.gen = MaxGeneration
  BY <1>1 DEF CommitNext, Refused, NextLeaves
<1>2. CASE rec.gen # MaxGeneration
  <2>1. rec.gen < MaxGeneration /\ rec.gen + 1 \in 0..MaxGeneration
    BY <1>2, MaxGenerationAssumption DEF TypeOK, Records
  <2>2. [r EXCEPT !.gen = rec.gen + 1] \in Records
    BY <2>1 DEF Records
  <2>3. o \in Commit([r EXCEPT !.gen = rec.gen + 1])
    BY <1>2 DEF CommitNext
  <2> QED BY <2>1, <2>2, <2>3, CommitOutcome DEF NextLeaves
<1> QED BY <1>1, <1>2

\* The record that clear_cached asks for.
ClearedRecord(p, c) == [rec EXCEPT !.access = NoGrant,
                                   !.pend = IF p THEN NoPending ELSE @,
                                   !.cred = IF c THEN None ELSE @,
                                   !.born = IF c THEN 0 ELSE @]

\* It is a record.
LEMMA ClearedRecordType ==
  ASSUME TypeOK, NEW p \in BOOLEAN, NEW c \in BOOLEAN
  PROVE  ClearedRecord(p, c) \in Records
<1>1. 0 \in 0..MaxGeneration /\ rec \in Records
  BY MaxGenerationAssumption DEF TypeOK
<1>2. CASE p /\ c   BY <1>1, <1>2 DEF Records, ClearedRecord
<1>3. CASE p /\ ~c  BY <1>1, <1>3 DEF Records, ClearedRecord
<1>4. CASE ~p /\ c  BY <1>1, <1>4 DEF Records, ClearedRecord
<1>5. CASE ~p /\ ~c BY <1>1, <1>5 DEF Records, ClearedRecord
<1> QED BY <1>2, <1>3, <1>4, <1>5

\* clear_cached leaves what a commit of that record leaves.
LEMMA ClearCachedOutcome ==
  ASSUME TypeOK, NEW p \in BOOLEAN, NEW c \in BOOLEAN, NEW o \in ClearCached(p, c)
  PROVE  NextLeaves(o, ClearedRecord(p, c))
BY ClearedRecordType, CommitNextOutcome DEF ClearCached, ClearedRecord

\* The record that prepare_activation asks for.
Prepared(key) ==
  [rec EXCEPT !.access = NoGrant,
              !.pend = IF @ = NoPending THEN [op |-> rec.gen + 1, key |-> key] ELSE @]

\* It is a record, and something is pending in it.
LEMMA PreparedType ==
  ASSUME TypeOK, NEW key \in LicenceKeys, rec.gen < MaxGeneration
  PROVE  Prepared(key) \in Records /\ Prepared(key).pend.op \in Ops
<1>1. rec.gen + 1 \in Ops
  BY MaxGenerationAssumption DEF TypeOK, Records, Ops
<1> QED BY <1>1 DEF TypeOK, Records, Prepared

\* prepare_activation leaves what a commit of that record leaves.
LEMMA PrepareOutcome ==
  ASSUME TypeOK, NEW key \in LicenceKeys, NEW o \in PrepareActivation(key)
  PROVE  NextLeaves(o, Prepared(key))
<1>1. CASE rec.gen = MaxGeneration
  BY <1>1 DEF PrepareActivation, CommitNext, Refused, NextLeaves
<1>2. CASE rec.gen # MaxGeneration
  <2>1. rec.gen < MaxGeneration
    BY <1>2, MaxGenerationAssumption DEF TypeOK, Records
  <2> QED BY <2>1, PreparedType, CommitNextOutcome DEF PrepareActivation, Prepared
<1> QED BY <1>1, <1>2

\* commit_access leaves what a commit of the record with the grant leaves.
LEMMA CommitAccessOutcome ==
  ASSUME TypeOK, NEW g \in Grants \cup {NoGrant}, NEW a \in BOOLEAN,
         NEW b \in 0..MaxGeneration, NEW o \in CommitAccess(g, a, b), rec.gen = mem.ver
  PROVE  CommitLeaves(o, [rec EXCEPT !.cred = g.act, !.access = g,
                                     !.pend = IF a THEN NoPending ELSE @, !.born = b])
<1>1. g.act \in Ops \cup {None} /\ rec \in Records
  BY DEF TypeOK, Grants, NoGrant
<1>2. [rec EXCEPT !.cred = g.act, !.access = g,
                  !.pend = IF a THEN NoPending ELSE @, !.born = b] \in Records
  <2>1. CASE a   BY <1>1, <2>1 DEF Records
  <2>2. CASE ~a  BY <1>1, <2>2 DEF Records
  <2> QED BY <2>1, <2>2
<1> QED BY <1>2, CommitOutcome DEF CommitAccess

\* A checkpoint keeps the record but for its cached grant, which it may drop.
LEMMA CheckpointOutcome ==
  ASSUME TypeOK, NEW h \in BOOLEAN, NEW k \in BOOLEAN, NEW o \in Checkpoint(h, k)
  PROVE  /\ o \in Outcomes
         /\ o.rec \in {rec, [rec EXCEPT !.access = NoGrant]}
         /\ o.bricked => bricked \/ o.poisoned
         /\ poisoned => o.poisoned /\ o.rec = rec /\ o.bricked = bricked
<1>1. CASE rec.access = NoGrant
  <2>1. o = [rec |-> rec, bricked |-> bricked, poisoned |-> poisoned, ok |-> ~poisoned]
    BY <1>1, Zenon DEF Checkpoint, Outcome
  <2>2. o.rec = rec /\ o.bricked = bricked /\ o.poisoned = poisoned
    BY <2>1, Zenon
  <2>3. rec \in Records /\ bricked \in BOOLEAN /\ poisoned \in BOOLEAN /\ (~poisoned) \in BOOLEAN
    BY Zenon DEF TypeOK
  <2>4. o \in Outcomes
    BY <2>1, <2>3, Zenon DEF Outcomes
  <2> QED BY <2>2, <2>4, Zenon
<1>2. CASE rec.access # NoGrant /\ h /\ k
  BY <1>2, CommitOutcome DEF Checkpoint, CommitLeaves, TypeOK, Outcomes
<1>3. CASE rec.access # NoGrant /\ ~(h /\ k)
  <2>1. [rec EXCEPT !.access = NoGrant] \in Records
    BY DEF TypeOK, Records
  <2>2. PICK q \in Commit([rec EXCEPT !.access = NoGrant]) : o = [q EXCEPT !.ok = q.ok /\ ~h]
    BY <1>3 DEF Checkpoint
  <2> QED BY <2>1, <2>2, CommitOutcome DEF CommitLeaves, Outcomes
<1> QED BY <1>1, <1>2, <1>3

(***************************************************************************)
(* Type correctness                                                        *)
(***************************************************************************)

\* A commit keeps the types of what is stored.
LEMMA AppliedType ==
  ASSUME NEW o \in Outcomes, Applied(o)
  PROVE  rec' \in Records /\ bricked' \in BOOLEAN /\ poisoned' \in BOOLEAN
BY DEF Applied, Outcomes

\* NextLeaves, outcome by outcome.
LEMMA NextLeavesType ==
  ASSUME TypeOK, NEW r, NEW o, NextLeaves(o, r)
  PROVE  /\ o \in Outcomes
         /\ o.ok => /\ rec.gen < MaxGeneration /\ o.rec = [r EXCEPT !.gen = rec.gen + 1]
                    /\ ~poisoned /\ ~o.poisoned /\ ~o.bricked
         /\ ~o.ok => \/ /\ rec.gen = MaxGeneration
                        /\ o.rec = rec /\ o.bricked = bricked /\ o.poisoned = poisoned
                     \/ /\ rec.gen < MaxGeneration
                        /\ o.poisoned /\ o.rec \in {rec, [r EXCEPT !.gen = rec.gen + 1]}
         /\ poisoned => o.poisoned /\ o.rec = rec /\ o.bricked = bricked
<1>1. CASE rec.gen < MaxGeneration
  <2>1. rec.gen # MaxGeneration
    BY <1>1, MaxGenerationAssumption
  <2> QED BY <1>1, <2>1, Zenon DEF NextLeaves, CommitLeaves
<1>2. CASE ~(rec.gen < MaxGeneration)
  <2>1. o = Outcome(rec, bricked, poisoned, FALSE) /\ rec.gen = MaxGeneration
    BY <1>2 DEF NextLeaves
  <2>2. o \in Outcomes
    BY <2>1, Zenon DEF TypeOK, Outcome, Outcomes
  <2>3. o.rec = rec /\ o.bricked = bricked /\ o.poisoned = poisoned /\ o.ok = FALSE
    BY <2>1, Zenon DEF Outcome
  <2> QED BY <2>1, <2>2, <2>3, Zenon
<1> QED BY <1>1, <1>2

\* What sync_storage leaves has the type of a memory.
LEMMA SyncedType == ASSUME TypeOK PROVE SyncedMem \in Memories /\ SyncedCurrent \subseteq Threads
<1>1. /\ 0 \in 0..MaxGeneration /\ rec.gen \in 0..MaxGeneration /\ mem.ver \in 0..MaxGeneration
      /\ mem \in Memories
  BY MaxGenerationAssumption DEF TypeOK, Records, Memories
<1>2. Cleared(mem) \in Memories
  BY <1>1 DEF Cleared, EmptyMemory, Memories
<1>3. [Cleared(mem) EXCEPT !.ver = rec.gen] \in Memories
  BY <1>1, <1>2 DEF Memories
<1> QED BY <1>1, <1>2, <1>3, Zenon DEF SyncedMem, SyncedCurrent, TypeOK

\* A call whose request was sent.
LEMMA CallSent ==
  ASSUME NEW c \in Calls, NEW a \in Ops \cup {None}
  PROVE  [c EXCEPT !.pc = "sent", !.act = a] \in Calls
BY DEF Calls

\* A call with its answer.
LEMMA CallGot ==
  ASSUME NEW c \in Calls, NEW r \in Replies, NEW g \in Grants \cup {NoGrant}
  PROVE  [c EXCEPT !.pc = "got", !.reply = r, !.grant = g] \in Calls
BY DEF Calls

\* What the fields of a call range over.
LEMMA CallType ==
  ASSUME NEW c \in Calls
  PROVE  /\ c.key \in LicenceKeys \cup {NoKey} /\ c.act \in Ops \cup {None}
         /\ c.grant \in Grants \cup {NoGrant} /\ c.born \in 0..MaxGeneration
BY DEF Calls

(***************************************************************************)
(* The record after a commit, field by field                               *)
(***************************************************************************)

\* What a commit does to the storage, whatever it asks for.
Stored(o) ==
  /\ o \in Outcomes
  /\ rec' \in Records /\ bricked' \in BOOLEAN /\ poisoned' \in BOOLEAN
  /\ o.rec = rec'
  /\ o.ok => ~poisoned /\ ~poisoned' /\ ~bricked'
  /\ poisoned => ~o.ok /\ poisoned' /\ rec' = rec
  /\ bricked' => poisoned' \/ (bricked /\ ~poisoned)

\* A commit, applied.
LEMMA CommitStored ==
  ASSUME TypeOK, NEW r, NEW o, CommitLeaves(o, r), Applied(o)
  PROVE  /\ Stored(o)
         /\ o.ok => rec' = r
         /\ ~o.ok => poisoned' /\ rec' \in {rec, r}
<1>1. rec' = o.rec /\ bricked' = o.bricked /\ poisoned' = o.poisoned
  BY DEF Applied
<1>2. rec' \in Records /\ bricked' \in BOOLEAN /\ poisoned' \in BOOLEAN
  BY AppliedType DEF CommitLeaves
<1> QED BY <1>1, <1>2, Zenon DEF CommitLeaves, Stored

\* A commit that moves the generation, applied.
LEMMA NextStored ==
  ASSUME TypeOK, NEW r, NEW o, NextLeaves(o, r), Applied(o)
  PROVE  /\ Stored(o)
         /\ o.ok => rec.gen < MaxGeneration /\ rec' = [r EXCEPT !.gen = rec.gen + 1]
         /\ ~o.ok => /\ \/ rec' = rec
                        \/ rec.gen < MaxGeneration /\ rec' = [r EXCEPT !.gen = rec.gen + 1]
                     /\ poisoned' \/ (rec' = rec /\ rec.gen = MaxGeneration)
<1>1. rec' = o.rec /\ bricked' = o.bricked /\ poisoned' = o.poisoned
  BY DEF Applied
<1>2. Stored(o)
  <2>1. /\ o \in Outcomes
        /\ o.ok => ~poisoned /\ ~o.poisoned /\ ~o.bricked
        /\ ~o.ok => (o.bricked = bricked /\ o.poisoned = poisoned) \/ o.poisoned
        /\ poisoned => o.poisoned /\ o.rec = rec
    BY NextLeavesType, Zenon
  <2>2. rec' \in Records /\ bricked' \in BOOLEAN /\ poisoned' \in BOOLEAN
    BY <2>1, AppliedType
  <2> QED BY <1>1, <2>1, <2>2, Zenon DEF Stored
<1> QED BY <1>1, <1>2, NextLeavesType, Zenon

\* The record moved on to the next generation without its cached grant.
Moved(p, c) ==
  /\ rec.gen < MaxGeneration /\ rec'.gen = rec.gen + 1
  /\ rec'.access = NoGrant
  /\ rec'.pend = IF p THEN NoPending ELSE rec.pend
  /\ rec'.cred = IF c THEN None ELSE rec.cred
  /\ rec'.born = IF c THEN 0 ELSE rec.born

\* clear_cached moves the record, or leaves it: poisoned, or at the limit.
LEMMA ClearCachedRecord ==
  ASSUME TypeOK, NEW p \in BOOLEAN, NEW c \in BOOLEAN, NEW o \in ClearCached(p, c), Applied(o)
  PROVE  /\ Stored(o)
         /\ o.ok => Moved(p, c)
         /\ ~o.ok => /\ rec' = rec \/ Moved(p, c)
                     /\ poisoned' \/ (rec' = rec /\ rec.gen = MaxGeneration)
<1>1. NextLeaves(o, ClearedRecord(p, c)) /\ ClearedRecord(p, c) \in Records
  BY ClearCachedOutcome, ClearedRecordType
<1>2. ASSUME rec' = [ClearedRecord(p, c) EXCEPT !.gen = rec.gen + 1], rec.gen < MaxGeneration
      PROVE  Moved(p, c)
  BY <1>1, <1>2 DEF Moved, Records, ClearedRecord
<1> QED BY <1>1, <1>2, NextStored, Zenon

\* The intent of an activation is recorded.
Begun(key) ==
  /\ rec.gen < MaxGeneration /\ rec'.gen = rec.gen + 1
  /\ rec'.access = NoGrant
  /\ rec'.pend = IF rec.pend = NoPending THEN [op |-> rec.gen + 1, key |-> key] ELSE rec.pend
  /\ rec'.pend.op \in Ops
  /\ rec'.cred = rec.cred
  /\ rec'.born = rec.born

\* prepare_activation records the intent, or leaves the record.
LEMMA PrepareRecord ==
  ASSUME TypeOK, NEW key \in LicenceKeys, NEW o \in PrepareActivation(key), Applied(o)
  PROVE  /\ Stored(o)
         /\ o.ok => Begun(key)
         /\ ~o.ok => /\ rec' = rec \/ Begun(key)
                     /\ poisoned' \/ (rec' = rec /\ rec.gen = MaxGeneration)
<1>1. NextLeaves(o, Prepared(key))
  BY PrepareOutcome
<1>2. ASSUME rec' = [Prepared(key) EXCEPT !.gen = rec.gen + 1], rec.gen < MaxGeneration
      PROVE  Begun(key)
  <2>1. Prepared(key) \in Records /\ Prepared(key).pend.op \in Ops
    BY <1>2, PreparedType
  <2> QED BY <1>2, <2>1 DEF Begun, Records, Prepared, TypeOK
<1> QED BY <1>1, <1>2, NextStored, Zenon

\* An accepted grant g is recorded, with the epoch b its call began in.
Accepted(g, a, b) ==
  /\ rec'.gen = rec.gen
  /\ rec'.access = g
  /\ rec'.cred = g.act
  /\ rec'.pend = IF a THEN NoPending ELSE rec.pend
  /\ rec'.born = b

\* commit_access records the grant, or poisons the storage.
LEMMA CommitAccessRecord ==
  ASSUME TypeOK, NEW g \in Grants \cup {NoGrant}, NEW a \in BOOLEAN,
         NEW b \in 0..MaxGeneration, NEW o \in CommitAccess(g, a, b), rec.gen = mem.ver, Applied(o)
  PROVE  /\ Stored(o)
         /\ o.ok => Accepted(g, a, b)
         /\ ~o.ok => poisoned' /\ (rec' = rec \/ Accepted(g, a, b))
<1> DEFINE r == [rec EXCEPT !.cred = g.act, !.access = g,
                            !.pend = IF a THEN NoPending ELSE @, !.born = b]
<1>1. CommitLeaves(o, r)
  BY CommitAccessOutcome
<1>2. ASSUME rec' = r PROVE Accepted(g, a, b)
  BY <1>2 DEF TypeOK, Records, Accepted
<1> HIDE DEF r
<1> QED BY <1>1, <1>2, CommitStored, Zenon

\* A checkpoint changes nothing of the record but its cached grant.
LEMMA CheckpointRecord ==
  ASSUME TypeOK, NEW h \in BOOLEAN, NEW k \in BOOLEAN, NEW o \in Checkpoint(h, k)
  PROVE  /\ o \in Outcomes
         /\ o.rec = rec \/ o.rec.access = NoGrant
         /\ o.rec.gen = rec.gen /\ o.rec.cred = rec.cred /\ o.rec.pend = rec.pend
         /\ o.rec.born = rec.born
         /\ o.bricked => bricked \/ o.poisoned
         /\ poisoned => o.poisoned
BY CheckpointOutcome DEF TypeOK, Records

(***************************************************************************)
(* The steps that do not write                                             *)
(***************************************************************************)

\* Facts every step starts from.
LEMMA Facts ==
  ASSUME IInv
  PROVE  /\ TypeOK /\ Safe
         /\ Idle \in Calls /\ EmptyMemory \in Memories /\ EmptyRecord \in Records
         /\ \A t \in Threads : call[t] \in Calls
         /\ rec \in Records /\ mem \in Memories
         /\ 0 \in 0..MaxGeneration /\ mem.ver \in 0..MaxGeneration /\ rec.gen \in 0..MaxGeneration
<1>1. Idle \in Calls /\ EmptyMemory \in Memories /\ EmptyRecord \in Records
  BY MaxGenerationAssumption DEF Idle, Calls, EmptyMemory, Memories, EmptyRecord, Records, None
<1>2. TypeOK /\ \A t \in Threads : call[t] \in Calls
  BY DEF IInv, TypeOK
<1>3. rec \in Records /\ mem \in Memories
  BY <1>2 DEF TypeOK
<1>4. 0 \in 0..MaxGeneration /\ mem.ver \in 0..MaxGeneration /\ rec.gen \in 0..MaxGeneration
  BY <1>3, MaxGenerationAssumption DEF Memories, Records
<1> QED BY <1>1, <1>2, <1>3, <1>4 DEF IInv

\* sync_storage leaves the memory alone, or clears it over a broken storage.
LEMMA SyncedSafe ==
  ASSUME IInv, life # "closed"
  PROVE  /\ SyncedMem \in Memories
         /\ SyncedMem = mem \/ (SyncedMem = Cleared(mem) /\ poisoned)
         /\ SyncedCurrent \subseteq current
<1>1. SyncedMem \in Memories
  BY SyncedType DEF IInv
<1>2. SyncedCurrent \subseteq current
  BY Zenon DEF SyncedCurrent
<1>3. ~poisoned => mem.ver = rec.gen
  BY DEF IInv, Safe, MemoryInv
<1>4. life \in {"opening", "open", "closing"}
  BY DEF IInv, TypeOK
<1> QED BY <1>1, <1>2, <1>3, <1>4, Zenon DEF SyncedMem, InSync, SyncOk

\* What the client holds after sync_storage is what it held, or nothing.
LEMMA SyncedMemory ==
  ASSUME IInv, life # "closed", mem' = SyncedMem, UNCHANGED <<rec, poisoned, epoch>>
  PROVE  MemoryInv'
<1>1. CASE mem' = mem
  BY <1>1 DEF IInv, Safe, MemoryInv, Restorable
<1>2. CASE mem' = Cleared(mem) /\ poisoned
  BY <1>2 DEF Cleared, EmptyMemory, MemoryInv, NoGrant, None
<1> QED BY <1>1, <1>2, SyncedSafe

\* A call that is under way belongs to a client that is not closed.
LEMMA ActiveIsOpen ==
  ASSUME IInv, NEW t \in Threads, call[t].pc # "idle"
  PROVE  life # "closed"
BY DEF IInv, Safe, LifeInv, Idle

\* The call of t returns and nothing is written.
LEMMA ReturnStep ==
  ASSUME IInv, NEW t \in Threads, call[t].pc # "idle", NEW result,
         Return(t, result), mem' = SyncedMem \/ UNCHANGED mem, current' \subseteq current \ {t},
         UNCHANGED <<storage, server, epoch, settled>>
  PROVE  IInv'
<1>1. life # "closed"
  BY ActiveIsOpen
<1>2. TypeOK'
  BY Facts, SyncedSafe, <1>1 DEF TypeOK, Return, Set, storage, server
<1>3. LifeInv' /\ RecordInv'
  BY <1>1 DEF IInv, TypeOK, Safe, LifeInv, RecordInv, Return, storage
<1>4. MemoryInv'
  <2>1. CASE mem' = SyncedMem
    BY <1>1, <2>1, SyncedMemory DEF storage
  <2>2. CASE mem' = mem
    BY <1>1, <2>2 DEF IInv, Safe, MemoryInv, Restorable, storage
  <2> QED BY <2>1, <2>2
<1>5. \A u \in Threads : CallInv(u)'
  BY DEF IInv, TypeOK, Safe, CallInv, Return, Set, storage, Idle
<1>6. NoLostActivation'
  BY DEF IInv, Safe, NoLostActivation, storage, server
<1> QED BY <1>2, <1>3, <1>4, <1>5, <1>6 DEF IInv, Safe

\* A call starts, or finds the storage broken.
LEMMA BeginStep ==
  ASSUME IInv, NEW t \in Threads, NEW k \in {"activate", "refresh", "refreshIfNeeded"},
         NEW key \in LicenceKeys \cup {NoKey}, k = "activate" => key \in LicenceKeys,
         Begin(t, k, key)
  PROVE  IInv'
<1> DEFINE c == [Idle EXCEPT !.pc = "wait", !.kind = k, !.key = key, !.born = epoch]
<1>1. life = "open" /\ mem' = SyncedMem /\ UNCHANGED <<rec, bricked, poisoned, life, serial, server, epoch, settled>>
  BY DEF Begin, storage
<1>2. c \in Calls /\ c.pc = "wait" /\ c.kind = k /\ c.key = key /\ c.born = epoch /\ c.reply = "none"
  BY Facts DEF Calls, TypeOK, Idle
<1>3. \/ call' = [call EXCEPT ![t] = c] /\ current' \subseteq current \cup {t}
      \/ call' = call /\ current' \subseteq current
  BY <1>1, SyncedSafe DEF Begin, Set
<1> HIDE DEF c
<1>4. TypeOK'
  BY <1>1, <1>2, <1>3, Facts, SyncedSafe DEF TypeOK, server
<1>5. LifeInv' /\ RecordInv'
  BY <1>1 DEF IInv, TypeOK, Safe, LifeInv, RecordInv
<1>6. MemoryInv'
  BY <1>1, SyncedMemory
<1>7. \A u \in Threads : CallInv(u)'
  BY <1>1, <1>2, <1>3 DEF IInv, TypeOK, Safe, CallInv
<1>8. NoLostActivation'
  BY <1>1 DEF IInv, Safe, NoLostActivation, server
<1> QED BY <1>4, <1>5, <1>6, <1>7, <1>8 DEF IInv, Safe

\* The request of a refresh leaves: nothing is pending.
LEMMA RefreshStep == ASSUME IInv, NEW t \in Threads, Refresh(t) PROVE IInv'
<1> DEFINE c == [call[t] EXCEPT !.pc = "sent", !.act = mem.cred]
<1>1. /\ call' = [call EXCEPT ![t] = c] /\ serial' = t
      /\ UNCHANGED <<rec, bricked, poisoned, life, mem, current, server, epoch, settled>>
      /\ call[t].pc = "wait" /\ serial = NoThread
      /\ call[t].kind # "activate" /\ rec.pend = NoPending
  BY DEF Refresh, Set, storage, Admitted
<1>2. /\ c \in Calls /\ c.pc = "sent" /\ c.kind = call[t].kind /\ c.key = call[t].key
      /\ c.born = call[t].born
  BY Facts, CallSent DEF Calls, Memories
<1> HIDE DEF c
<1>3. TypeOK'
  BY <1>1, <1>2, Facts DEF TypeOK, server
<1>4. LifeInv' /\ RecordInv'
  BY <1>1, ActiveIsOpen DEF IInv, TypeOK, Safe, LifeInv, RecordInv
<1>5. MemoryInv'
  BY <1>1 DEF IInv, Safe, MemoryInv, Restorable
<1>6. \A u \in Threads : CallInv(u)'
  BY <1>1, <1>2, ThreadsAssumption DEF IInv, TypeOK, Safe, CallInv
<1>7. NoLostActivation'
  BY <1>1 DEF IInv, Safe, NoLostActivation, server
<1> QED BY <1>3, <1>4, <1>5, <1>6, <1>7 DEF IInv, Safe

\* The answer arrives: a grant belongs to the activation that was asked about.
LEMMA ReplyStep == ASSUME IInv, NEW t \in Threads, Reply(t) PROVE IInv'
<1>1. PICK r \in Replies, offline \in BOOLEAN :
        /\ r \in {"ok", "unverified"} => Live(call[t].act)
        /\ Set(t, [call[t] EXCEPT !.pc = "got", !.reply = r,
             !.grant = IF r = "ok" THEN [act |-> call[t].act, offline |-> offline, stage |-> "fresh"]
                       ELSE NoGrant])
  BY DEF Reply
<1> DEFINE g == IF r = "ok" THEN [act |-> call[t].act, offline |-> offline, stage |-> "fresh"]
                ELSE NoGrant
           c == [call[t] EXCEPT !.pc = "got", !.reply = r, !.grant = g]
<1>2. g \in Grants \cup {NoGrant} /\ (r = "ok" => g \in Grants /\ g # NoGrant /\ g.act = call[t].act)
  <2>1. r = "ok" => call[t].act \in Ops
    BY <1>1, Facts DEF TypeOK, Live
  <2> QED BY <2>1, MaxGenerationAssumption DEF Grants, Stages, NoGrant, Ops, None
<1>3. /\ call' = [call EXCEPT ![t] = c] /\ call[t].pc = "sent"
      /\ UNCHANGED <<rec, bricked, poisoned, life, mem, serial, current, server, epoch, settled>>
  BY <1>1 DEF Reply, Set, storage
<1> HIDE DEF g
<1>4. /\ c \in Calls /\ c.pc = "got" /\ c.kind = call[t].kind /\ c.key = call[t].key
      /\ c.born = call[t].born /\ c.act = call[t].act /\ c.reply = r /\ c.grant = g
  <2>1. c \in Calls
    BY <1>2, Facts, CallGot
  <2>2. call[t] \in Calls
    BY Facts
  <2> QED BY <2>1, <2>2 DEF Calls
<1> HIDE DEF c
<1>5. TypeOK'
  BY <1>3, <1>4, Facts DEF TypeOK, server
<1>6. LifeInv' /\ RecordInv'
  BY <1>3, ActiveIsOpen DEF IInv, TypeOK, Safe, LifeInv, RecordInv
<1>7. MemoryInv'
  BY <1>3 DEF IInv, Safe, MemoryInv, Restorable
<1>8. \A u \in Threads : CallInv(u)'
  BY <1>2, <1>3, <1>4 DEF IInv, TypeOK, Safe, CallInv
<1>9. NoLostActivation'
  BY <1>3 DEF IInv, Safe, NoLostActivation, server
<1> QED BY <1>5, <1>6, <1>7, <1>8, <1>9 DEF IInv, Safe

\* Synchronising, closing, dying and breaking write nothing.
LEMMA LocalStep ==
  ASSUME IInv, Observe \/ BeginClose \/ Crash \/ StorageFails
  PROVE  IInv'
<1>1. CASE Observe
  <2>1. /\ life = "open" /\ mem' = SyncedMem /\ current' \subseteq current
        /\ UNCHANGED <<rec, bricked, poisoned, life, serial, call, server, epoch, settled>>
    BY <1>1, SyncedSafe DEF Observe, storage
  <2>2. TypeOK'
    BY <2>1, Facts, SyncedSafe DEF TypeOK, server
  <2>3. LifeInv' /\ RecordInv' /\ (\A u \in Threads : CallInv(u)') /\ NoLostActivation'
    BY <2>1 DEF IInv, TypeOK, Safe, LifeInv, RecordInv, CallInv, NoLostActivation, server
  <2> QED BY <2>1, <2>2, <2>3, SyncedMemory DEF IInv, Safe
<1>2. CASE BeginClose
  BY <1>2 DEF BeginClose, IInv, TypeOK, Safe, LifeInv, RecordInv, MemoryInv, Restorable, CallInv,
     NoLostActivation, storage, server
<1>3. CASE Crash
  <2>1. /\ life' = "closed" /\ mem' = EmptyMemory /\ serial' = NoThread /\ current' = {}
        /\ call' = [u \in Threads |-> Idle] /\ poisoned' = FALSE
        /\ UNCHANGED <<rec, bricked, server, epoch, settled>>
    BY <1>3 DEF Crash, Gone
  <2>2. TypeOK'
    BY <2>1, Facts DEF TypeOK, server
  <2>3. LifeInv' /\ RecordInv' /\ NoLostActivation'
    BY <2>1 DEF IInv, TypeOK, Safe, LifeInv, RecordInv, NoLostActivation, server
  <2>4. MemoryInv' /\ \A u \in Threads : CallInv(u)'
    BY <2>1 DEF MemoryInv, EmptyMemory, NoGrant, None, CallInv, Idle
  <2> QED BY <2>2, <2>3, <2>4 DEF IInv, Safe
<1>4. CASE StorageFails
  BY <1>4 DEF StorageFails, IInv, TypeOK, Safe, LifeInv, RecordInv, MemoryInv, CallInv,
     NoLostActivation, server
<1> QED BY <1>1, <1>2, <1>3, <1>4

\* The server's own steps touch nothing of the client.
LEMMA ServerStep == ASSUME IInv, ServerActivates \/ ServerRevokes PROVE IInv'
<1>1. /\ net' = net /\ issued' \subseteq net' /\ revoked' \subseteq issued'
      /\ UNCHANGED <<rec, bricked, poisoned, life, mem, serial, current, call, epoch, settled>>
  BY DEF ServerActivates, ServerRevokes, storage, IInv, TypeOK
<1>2. TypeOK'
  BY <1>1 DEF IInv, TypeOK
<1> QED BY <1>1, <1>2 DEF IInv, Safe, LifeInv, RecordInv, MemoryInv, Restorable, CallInv,
     NoLostActivation

\* A grant that ages stays the grant it is, and none comes of nothing.
LEMMA OlderGrant ==
  ASSUME NEW g \in Grants \cup {NoGrant}
  PROVE  /\ Older(g) \in Grants \cup {NoGrant}
         /\ Older(g) = NoGrant <=> g = NoGrant
         /\ Older(g).act = g.act
         /\ Restorable(Older(g)) => Restorable(g)
<1>1. CASE g = NoGrant
  BY <1>1 DEF Older
<1>2. CASE g # NoGrant
  <2>1. g \in Grants /\ NoGrant \notin Grants
    BY <1>2, MaxGenerationAssumption DEF Grants, NoGrant, Ops, None
  <2>2. Older(g) \in Grants /\ Older(g).act = g.act /\ Older(g).offline = g.offline
        /\ (Older(g).stage # "expired" => g.stage # "expired")
    BY <1>2, <2>1 DEF Older, Grants, Stages
  <2> QED BY <1>2, <2>1, <2>2 DEF Restorable
<1> QED BY <1>1, <1>2

\* Time passes.
LEMMA AgeStep == ASSUME IInv, Age PROVE IInv'
<1>1. /\ rec' = [rec EXCEPT !.access = Older(@)]
      /\ mem' = [mem EXCEPT !.claims = Older(@)]
      /\ call' = [t \in Threads |-> [call[t] EXCEPT !.grant = Older(@)]]
      /\ UNCHANGED <<bricked, poisoned, life, serial, current, server, epoch, settled>>
  BY DEF Age
<1>2. rec.access \in Grants \cup {NoGrant} /\ mem.claims \in Grants \cup {NoGrant}
      /\ \A t \in Threads : call[t].grant \in Grants \cup {NoGrant}
  BY Facts, CallType DEF Records, Memories
<1>3. /\ rec' \in Records /\ rec'.access = Older(rec.access)
      /\ rec'.gen = rec.gen /\ rec'.cred = rec.cred /\ rec'.pend = rec.pend /\ rec'.born = rec.born
  BY <1>1, <1>2, Facts, OlderGrant DEF Records
<1>4. /\ mem' \in Memories /\ mem'.claims = Older(mem.claims)
      /\ mem'.ver = mem.ver /\ mem'.cred = mem.cred /\ mem'.born = mem.born
  BY <1>1, <1>2, Facts, OlderGrant DEF Memories
<1>5. ASSUME NEW t \in Threads
      PROVE  /\ call'[t] \in Calls /\ call'[t].grant = Older(call[t].grant)
             /\ call'[t].pc = call[t].pc /\ call'[t].kind = call[t].kind
             /\ call'[t].key = call[t].key /\ call'[t].act = call[t].act
             /\ call'[t].reply = call[t].reply /\ call'[t].born = call[t].born
  <2>1. call'[t] = [call[t] EXCEPT !.grant = Older(call[t].grant)]
    BY <1>1
  <2>2. call[t] \in Calls /\ Older(call[t].grant) \in Grants \cup {NoGrant}
    BY <1>2, Facts, OlderGrant
  <2> QED BY <2>1, <2>2 DEF Calls
<1>6. TypeOK'
  BY <1>1, <1>3, <1>4, <1>5, Facts DEF TypeOK, server
<1>7. RecordInv' /\ NoLostActivation'
  BY <1>1, <1>2, <1>3, OlderGrant DEF IInv, Safe, RecordInv, NoLostActivation, server
<1>8. LifeInv'
  <2>1. life = "closed" => mem' = EmptyMemory /\ \A t \in Threads : call'[t] = Idle
    <3> SUFFICES ASSUME life = "closed" PROVE mem' = EmptyMemory /\ \A t \in Threads : call'[t] = Idle
      OBVIOUS
    <3>1. mem = EmptyMemory /\ \A t \in Threads : call[t] = Idle
      BY DEF IInv, Safe, LifeInv
    <3>2. mem' = [EmptyMemory EXCEPT !.claims = NoGrant]
      BY <1>1, <3>1 DEF Older, EmptyMemory
    <3>3. \A t \in Threads : call'[t] = [Idle EXCEPT !.grant = NoGrant]
      BY <1>1, <3>1 DEF Older, Idle
    <3> QED BY <3>2, <3>3 DEF EmptyMemory, Idle
  <2> QED BY <1>1, <2>1 DEF IInv, Safe, LifeInv
<1>9. MemoryInv'
  BY <1>1, <1>2, <1>3, <1>4, OlderGrant DEF IInv, Safe, MemoryInv
<1>10. \A t \in Threads : CallInv(t)'
  BY <1>1, <1>2, <1>3, <1>5, OlderGrant DEF IInv, Safe, CallInv
<1> QED BY <1>6, <1>7, <1>8, <1>9, <1>10 DEF IInv, Safe

(***************************************************************************)
(* The steps that write the record                                         *)
(***************************************************************************)

\* A storage that no longer opens is known to be poisoned.
LEMMA StoredLife ==
  ASSUME IInv, NEW o, Stored(o), life # "closed", life' # "closed"
  PROVE  LifeInv'
BY DEF IInv, Safe, LifeInv, Stored

\* Nothing pending is forgotten as long as the record keeps its operation id.
LEMMA KeepsPending ==
  ASSUME IInv, net' = net, settled \subseteq settled', rec'.pend = rec.pend
  PROVE  NoLostActivation'
BY DEF IInv, Safe, NoLostActivation

\* activate_as: the intent is durable before the request leaves, and what was
\* pending before is what is pending now.
LEMMA ActivateStep == ASSUME IInv, NEW t \in Threads, Activate(t) PROVE IInv'
<1>1. PICK o \in PrepareActivation(call[t].key) :
        /\ Applied(o)
        /\ IF o.ok
           THEN /\ mem' = [mem EXCEPT !.ver = o.rec.gen, !.claims = NoGrant,
                                      !.restored = FALSE, !.transient = FALSE]
                /\ current' = {t}
                /\ serial' = t
                /\ net' = net \cup {o.rec.pend.op}
                /\ Set(t, [call[t] EXCEPT !.pc = "sent", !.act = o.rec.pend.op])
                /\ UNCHANGED life
           ELSE /\ Return(t, "storage")
                /\ current' = current \ {t}
                /\ UNCHANGED <<mem, net>>
  BY DEF Activate
<1>2. /\ call[t].pc = "wait" /\ serial = NoThread /\ t \in current /\ InSync
      /\ call[t].kind = "activate"
      /\ UNCHANGED <<issued, revoked, epoch, settled>>
  BY DEF Activate, Admitted
<1>3. call[t].key \in LicenceKeys /\ life # "closed" /\ call[t].born = epoch
  BY <1>2, ActiveIsOpen DEF IInv, Safe, CallInv
<1>4. /\ Stored(o)
      /\ o.ok => Begun(call[t].key)
      /\ ~o.ok => /\ rec' = rec \/ Begun(call[t].key)
                  /\ poisoned' \/ (rec' = rec /\ rec.gen = MaxGeneration)
  BY <1>1, <1>3, Facts, PrepareRecord
<1>5. /\ rec' \in Records /\ bricked' \in BOOLEAN /\ poisoned' \in BOOLEAN /\ o.rec = rec'
      /\ rec'.gen \in 0..MaxGeneration
  BY <1>4 DEF Stored, Records
<1>6. rec' = rec \/ Begun(call[t].key)
  BY <1>4
<1>7. RecordInv'
  BY <1>2, <1>6, Facts, MaxGenerationAssumption DEF IInv, Safe, RecordInv, Begun, TypeOK
<1>8. CASE o.ok
  <2>1. /\ mem' \in Memories /\ mem'.ver = rec'.gen /\ mem'.claims = NoGrant
        /\ mem'.cred = mem.cred /\ mem'.born = mem.born
    BY <1>1, <1>5, <1>8, Facts DEF Memories
  <2> DEFINE c == [call[t] EXCEPT !.pc = "sent", !.act = rec'.pend.op]
  <2>2. Begun(call[t].key) /\ rec'.pend.op \in Ops
    BY <1>4, <1>8 DEF Begun
  <2>3. /\ c \in Calls /\ c.pc = "sent" /\ c.kind = call[t].kind /\ c.key = call[t].key
        /\ c.born = call[t].born /\ c.act = rec'.pend.op
    BY <2>2, Facts, CallSent DEF Calls
  <2>4. call' = [call EXCEPT ![t] = c] /\ current' = {t} /\ serial' = t /\ life' = life
        /\ net' = net \cup {rec'.pend.op}
    BY <1>1, <1>5, <1>8 DEF Set
  <2> HIDE DEF c
  <2>5. TypeOK'
    BY <1>2, <1>5, <2>1, <2>2, <2>3, <2>4, Facts DEF TypeOK
  <2>6. MemoryInv'
    BY <1>2, <2>1, <2>2 DEF IInv, Safe, MemoryInv, Begun, Restorable, InSync, SyncOk
  <2>7. \A u \in Threads : CallInv(u)'
    BY <1>2, <1>3, <2>2, <2>3, <2>4, ThreadsAssumption DEF IInv, TypeOK, Safe, CallInv
  <2>8. NoLostActivation'
    <3>1. net \subseteq Ops /\ 0 \notin Ops
      BY Facts, MaxGenerationAssumption DEF TypeOK, Ops
    <3>2. rec.pend.op \in {0, rec'.pend.op}
      BY <2>2 DEF Begun, NoPending, None
    <3> QED BY <1>2, <2>4, <3>1, <3>2 DEF IInv, Safe, NoLostActivation
  <2> QED BY <1>3, <1>4, <1>7, <2>4, <2>5, <2>6, <2>7, <2>8, StoredLife DEF IInv, Safe
<1>9. CASE ~o.ok
  <2>1. /\ call' = [call EXCEPT ![t] = Idle] /\ serial' \in {serial, NoThread}
        /\ life' \in {"open", "closing", life} /\ current' = current \ {t} /\ mem' = mem /\ net' = net
        /\ serial # t => serial' = serial
    BY <1>1, <1>9 DEF Return, Set
  <2>2. TypeOK'
    BY <1>2, <1>5, <2>1, Facts DEF TypeOK
  <2>3. MemoryInv'
    <3>1. ~poisoned' => ~poisoned /\ rec' = rec
      BY <1>4, <1>9 DEF Stored
    <3> QED BY <1>2, <1>3, <2>1, <3>1 DEF IInv, Safe, MemoryInv, Restorable
  <2>4. \A u \in Threads : CallInv(u)'
    BY <1>2, <1>4, <1>9, <2>1, Facts DEF IInv, TypeOK, Safe, CallInv, Idle, Stored
  <2>5. NoLostActivation'
    <3>1. net \subseteq Ops /\ 0 \notin Ops
      BY Facts, MaxGenerationAssumption DEF TypeOK, Ops
    <3>2. rec.pend.op \in {0, rec'.pend.op}
      BY <1>6 DEF Begun, NoPending, None
    <3> QED BY <1>2, <2>1, <3>1, <3>2 DEF IInv, Safe, NoLostActivation
  <2> QED BY <1>3, <1>4, <1>7, <2>1, <2>2, <2>3, <2>4, <2>5, StoredLife DEF IInv, Safe
<1> QED BY <1>8, <1>9

\* accept_for_licence with a grant: it is recorded and only then used.
LEMMA AcceptOkStep == ASSUME IInv, NEW t \in Threads, AcceptOk(t) PROVE IInv'
<1> DEFINE g == call[t].grant
           b == call[t].born
           a == Activation(t)
<1>1. PICK o \in CommitAccess(g, a, b) :
        /\ Applied(o)
        /\ Settle(t, o)
        /\ IF o.ok
           THEN /\ mem' = [mem EXCEPT !.cred = call[t].act, !.claims = g,
                                      !.restored = FALSE, !.transient = FALSE, !.born = b]
                /\ current' = current \ {t}
           ELSE mem' = Cleared(mem) /\ current' = {}
        /\ Return(t, IF o.ok THEN "ok" ELSE "storage")
  BY DEF AcceptOk
<1>2. /\ call[t].pc = "got" /\ call[t].reply = "ok" /\ t \in current
      /\ life \in {"opening", "open"} /\ ~poisoned /\ mem.ver = rec.gen
      /\ UNCHANGED <<server, epoch>>
  BY DEF AcceptOk, Acceptable, InSync, SyncOk
<1>3. /\ g \in Grants \cup {NoGrant} /\ g # NoGrant /\ g.act = call[t].act /\ b = epoch
      /\ b \in 0..MaxGeneration /\ a \in BOOLEAN
      /\ a => rec.pend.op = call[t].act
      /\ ~a => rec.pend = NoPending
      /\ call[t].act \in Ops
  <2>1. g \in Grants \cup {NoGrant} /\ b \in 0..MaxGeneration /\ a \in BOOLEAN
    BY Facts, CallType DEF Activation
  <2>2. /\ g # NoGrant /\ g.act = call[t].act /\ b = epoch
        /\ a => rec.pend.op = call[t].act
        /\ ~a => rec.pend = NoPending
    BY <1>2 DEF IInv, Safe, CallInv, Activation
  <2>3. g.act \in Ops
    BY <2>1, <2>2 DEF Grants
  <2> QED BY <2>1, <2>2, <2>3
<1>4. /\ Stored(o)
      /\ o.ok => Accepted(g, a, b)
      /\ ~o.ok => poisoned' /\ (rec' = rec \/ Accepted(g, a, b))
  BY <1>1, <1>2, <1>3, Facts, CommitAccessRecord
<1>5. /\ call' = [call EXCEPT ![t] = Idle] /\ serial' \in {serial, NoThread}
      /\ life' \in {"open", "closing", life} /\ current' \subseteq current \ {t}
  BY <1>1 DEF Return, Set
<1>6. /\ rec' \in Records /\ bricked' \in BOOLEAN /\ poisoned' \in BOOLEAN /\ o.rec = rec'
  BY <1>4 DEF Stored
<1>7. settled' = IF a /\ rec'.pend = NoPending THEN settled \cup {call[t].act} ELSE settled
  BY <1>1, <1>6 DEF Settle
<1> HIDE DEF g, b, a
<1>8. mem' \in Memories /\ mem'.ver = mem.ver
      /\ (o.ok => mem'.cred = call[t].act /\ mem'.claims = g /\ mem'.born = b)
      /\ (~o.ok => mem'.cred = None /\ mem'.claims = NoGrant)
  <2>1. CASE o.ok
    BY <1>1, <1>3, <2>1, Facts DEF Memories
  <2>2. CASE ~o.ok
    BY <1>1, <2>2, Facts DEF Memories, Cleared, EmptyMemory
  <2> QED BY <2>1, <2>2
<1>9. rec' = rec \/ Accepted(g, a, b)
  BY <1>4
<1>10. TypeOK'
  BY <1>2, <1>3, <1>5, <1>6, <1>7, <1>8, Facts DEF TypeOK, server
<1>11. LifeInv'
  BY <1>2, <1>4, <1>5, StoredLife
<1>12. RecordInv'
  BY <1>2, <1>3, <1>9 DEF IInv, Safe, RecordInv, Accepted
<1>13. MemoryInv'
  BY <1>2, <1>3, <1>4, <1>8 DEF MemoryInv, Accepted
<1>14. \A u \in Threads : CallInv(u)'
  BY <1>2, <1>5 DEF IInv, TypeOK, Safe, CallInv, Idle
<1>15. NoLostActivation'
  <2>1. net \subseteq Ops /\ 0 \notin Ops /\ net' = net
    BY <1>2, Facts, MaxGenerationAssumption DEF TypeOK, Ops, server
  <2>2. rec.pend.op \in settled' \cup {0, rec'.pend.op}
    BY <1>3, <1>7, <1>9 DEF Accepted, NoPending, None
  <2> QED BY <1>7, <2>1, <2>2 DEF IInv, Safe, NoLostActivation
<1> QED BY <1>10, <1>11, <1>12, <1>13, <1>14, <1>15 DEF IInv, Safe

\* The record after clear_cached; a completed logout is counted.
LEMMA ClearedRecordInv ==
  ASSUME IInv, NEW p \in BOOLEAN, NEW c \in BOOLEAN, NEW o \in ClearCached(p, c), Applied(o),
         epoch' = epoch \/ (c /\ o.ok /\ epoch' = epoch + 1)
  PROVE  RecordInv' /\ epoch' \in 0..MaxGeneration
<1>1. /\ o.ok => Moved(p, c)
      /\ rec' = rec \/ Moved(p, c)
  BY Facts, ClearCachedRecord
<1>2. epoch \in 0..MaxGeneration /\ rec.gen \in 0..MaxGeneration /\ epoch =< rec.gen
  BY Facts DEF TypeOK, Safe, RecordInv
<1>3. CASE rec' = rec /\ epoch' = epoch
  BY <1>2, <1>3 DEF IInv, Safe, RecordInv
<1>4. CASE Moved(p, c)
  BY <1>2, <1>4, MaxGenerationAssumption DEF IInv, Safe, RecordInv, Moved
<1> QED BY <1>1, <1>3, <1>4

\* The memory after clear_cached: without a grant, with the credential the
\* record still has, or none, and with the record's generation.
LEMMA ClearedMemory ==
  ASSUME IInv, life # "closed",
         NEW p \in BOOLEAN, NEW c \in BOOLEAN, NEW o \in ClearCached(p, c), Applied(o),
         mem'.claims = NoGrant,
         mem'.cred = None \/ (~c /\ mem'.cred = mem.cred /\ mem'.born = mem.born /\ epoch' = epoch),
         mem'.ver = IF o.ok THEN rec'.gen ELSE mem.ver
  PROVE  MemoryInv'
<1>1. /\ Stored(o)
      /\ o.ok => Moved(p, c)
      /\ ~o.ok => poisoned' \/ (rec' = rec /\ rec.gen = MaxGeneration)
  BY Facts, ClearCachedRecord
<1>2. o.ok => ~poisoned
  BY <1>1 DEF Stored
<1>3. ~o.ok /\ ~poisoned' => ~poisoned /\ rec' = rec /\ rec.gen = MaxGeneration
  BY <1>1 DEF Stored
<1>4. mem'.cred # None => mem'.born = epoch'
  BY DEF IInv, Safe, MemoryInv
<1>5. CASE o.ok
  BY <1>1, <1>2, <1>4, <1>5 DEF IInv, Safe, MemoryInv, Moved, Restorable
<1>6. CASE ~o.ok
  BY <1>3, <1>4, <1>6, MaxGenerationAssumption DEF IInv, Safe, MemoryInv, Restorable
<1> QED BY <1>5, <1>6

\* An answer ends a call whose cached authority is given up.
LEMMA ClearReturn ==
  ASSUME IInv, NEW t \in Threads, Acceptable(t), NEW res,
         NEW p \in BOOLEAN, NEW c \in BOOLEAN, NEW o \in ClearCached(p, c), Applied(o),
         Return(t, res), current' = {}, UNCHANGED <<server, epoch>>,
         mem' \in Memories, mem'.claims = NoGrant,
         mem'.cred = None \/ (~c /\ mem'.cred = mem.cred /\ mem'.born = mem.born),
         mem'.ver = IF o.ok THEN rec'.gen ELSE mem.ver,
         Settle(t, o) \/ (~p /\ UNCHANGED settled)
  PROVE  IInv'
<1>1. /\ call[t].pc = "got" /\ t \in current /\ ~poisoned
  BY DEF Acceptable, InSync, SyncOk
<1>2. life # "closed"
  BY <1>1, ActiveIsOpen
<1>3. /\ call' = [call EXCEPT ![t] = Idle] /\ serial' \in {serial, NoThread}
      /\ life' \in {"open", "closing", life}
  BY DEF Return, Set
<1>4. Stored(o) /\ (rec' = rec \/ Moved(p, c))
  BY Facts, ClearCachedRecord
<1>5. /\ rec' \in Records /\ bricked' \in BOOLEAN /\ poisoned' \in BOOLEAN /\ o.rec = rec'
  BY <1>4 DEF Stored
<1>6. /\ Activation(t) => rec.pend.op = call[t].act /\ call[t].act \in Ops
      /\ ~Activation(t) => rec.pend = NoPending
  BY <1>1 DEF IInv, Safe, CallInv, Activation
<1>7. settled' = settled \/ (Activation(t) /\ settled' = settled \cup {call[t].act})
  BY DEF Settle
<1>8. rec.pend.op \in settled' \cup {0, rec'.pend.op}
  <2>1. CASE rec'.pend = rec.pend
    BY <2>1
  <2>2. CASE rec'.pend # rec.pend
    <3>1. Moved(p, c) /\ p /\ rec'.pend = NoPending
      BY <1>4, <2>2 DEF Moved
    <3>2. Activation(t)
      BY <1>6, <2>2, <3>1
    <3>3. settled' = settled \cup {call[t].act}
      BY <1>5, <3>1, <3>2 DEF Settle
    <3> QED BY <1>6, <3>2, <3>3
  <2> QED BY <2>1, <2>2
<1>9. TypeOK'
  BY <1>3, <1>5, <1>6, <1>7, Facts DEF TypeOK, server
<1>10. LifeInv'
  BY <1>2, <1>3, <1>4, StoredLife
<1>11. RecordInv'
  BY ClearedRecordInv
<1>12. MemoryInv'
  BY <1>2, ClearedMemory
<1>13. \A u \in Threads : CallInv(u)'
  BY <1>1, <1>3 DEF IInv, TypeOK, Safe, CallInv, Idle
<1>14. NoLostActivation'
  <2>1. net \subseteq Ops /\ 0 \notin Ops /\ net' = net
    BY Facts, MaxGenerationAssumption DEF TypeOK, Ops, server
  <2> QED BY <1>7, <1>8, <2>1 DEF IInv, Safe, NoLostActivation
<1> QED BY <1>9, <1>10, <1>11, <1>12, <1>13, <1>14 DEF IInv, Safe

\* The reply cannot be verified for now.
LEMMA AcceptUnverifiedStep == ASSUME IInv, NEW t \in Threads, AcceptUnverified(t) PROVE IInv'
<1>1. PICK o \in ClearCached(FALSE, FALSE) :
        /\ Applied(o)
        /\ mem' = IF o.ok
                  THEN [mem EXCEPT !.claims = NoGrant, !.ver = o.rec.gen,
                                   !.restored = FALSE, !.transient = TRUE]
                  ELSE [mem EXCEPT !.claims = NoGrant]
        /\ Return(t, IF o.ok THEN "transient" ELSE "storage")
  BY DEF AcceptUnverified
<1>2. Acceptable(t) /\ current' = {} /\ UNCHANGED <<server, epoch, settled>>
  BY DEF AcceptUnverified
<1>3. Stored(o)
  BY <1>1, Facts, ClearCachedRecord
<1>4. o.rec = rec' /\ rec'.gen \in 0..MaxGeneration
  BY <1>3 DEF Stored, Records
<1>5. /\ mem' \in Memories /\ mem'.claims = NoGrant
      /\ mem'.cred = mem.cred /\ mem'.born = mem.born
      /\ mem'.ver = IF o.ok THEN rec'.gen ELSE mem.ver
  <2>1. CASE o.ok  BY <1>1, <1>4, <2>1, Facts DEF Memories
  <2>2. CASE ~o.ok BY <1>1, <2>2, Facts DEF Memories
  <2> QED BY <2>1, <2>2
<1> QED BY <1>1, <1>2, <1>5, ClearReturn

\* A denial, or another definite error.
LEMMA AcceptErrorStep == ASSUME IInv, NEW t \in Threads, AcceptError(t) PROVE IInv'
<1> DEFINE p == Definitive(t)
           c == Discards(t)
<1>1. PICK o \in ClearCached(p, c) :
        /\ Applied(o)
        /\ Settle(t, o)
        /\ mem' = [mem EXCEPT !.claims = NoGrant, !.restored = FALSE, !.transient = FALSE,
                              !.cred = IF c THEN None ELSE @,
                              !.born = IF c THEN 0 ELSE @,
                              !.ver = IF o.ok THEN o.rec.gen ELSE @]
        /\ Return(t, IF o.ok THEN call[t].reply ELSE "storage")
  BY DEF AcceptError
<1>2. Acceptable(t) /\ current' = {} /\ UNCHANGED <<server, epoch>>
  BY DEF AcceptError
<1>3. p \in BOOLEAN /\ c \in BOOLEAN
  BY Zenon DEF Definitive, Discards
<1> HIDE DEF p, c
<1>4. Stored(o)
  BY <1>1, <1>3, Facts, ClearCachedRecord
<1>5. o.rec = rec' /\ rec'.gen \in 0..MaxGeneration
  BY <1>4 DEF Stored, Records
<1> DEFINE v == IF o.ok THEN rec'.gen ELSE mem.ver
<1>6. /\ v \in 0..MaxGeneration
      /\ mem' = [mem EXCEPT !.claims = NoGrant, !.restored = FALSE, !.transient = FALSE,
                            !.cred = IF c THEN None ELSE mem.cred,
                            !.born = IF c THEN 0 ELSE mem.born,
                            !.ver = v]
  BY <1>1, <1>5, Facts
<1> HIDE DEF v
<1>7. /\ mem' \in Memories /\ mem'.claims = NoGrant /\ mem'.ver = v
      /\ c => mem'.cred = None
      /\ ~c => mem'.cred = mem.cred /\ mem'.born = mem.born
  <2>1. CASE c  BY <1>6, <2>1, Facts DEF Memories
  <2>2. CASE ~c BY <1>6, <2>2, Facts DEF Memories
  <2> QED BY <2>1, <2>2
<1>8. mem'.ver = IF o.ok THEN rec'.gen ELSE mem.ver
  BY <1>7 DEF v
<1>9. mem'.cred = None \/ (~c /\ mem'.cred = mem.cred /\ mem'.born = mem.born)
  BY <1>3, <1>7
<1> QED BY <1>1, <1>2, <1>3, <1>7, <1>8, <1>9, ClearReturn

\* A checkpoint that a client makes of what it holds, applied.
LEMMA Checkpointed ==
  ASSUME IInv, life # "closed", NEW h \in BOOLEAN, NEW k \in BOOLEAN, NEW o \in Checkpoint(h, k),
         Applied(o), epoch' = epoch, net' = net, settled' = settled, life' # "closed",
         mem'.ver = mem.ver, mem'.cred = mem.cred, mem'.born = mem.born, mem'.claims = mem.claims
  PROVE  /\ rec' \in Records /\ bricked' \in BOOLEAN /\ poisoned' \in BOOLEAN
         /\ poisoned => poisoned' /\ rec'.pend = rec.pend
         /\ rec'.pend = rec.pend
         /\ LifeInv' /\ RecordInv' /\ MemoryInv' /\ NoLostActivation'
<1>1. /\ o \in Outcomes
      /\ o.rec = rec \/ o.rec.access = NoGrant
      /\ o.rec.gen = rec.gen /\ o.rec.cred = rec.cred /\ o.rec.pend = rec.pend
      /\ o.rec.born = rec.born
      /\ o.bricked => bricked \/ o.poisoned
      /\ poisoned => o.poisoned
  BY Facts, CheckpointRecord
<1>2. rec' = o.rec /\ bricked' = o.bricked /\ poisoned' = o.poisoned
  BY DEF Applied
<1>3. rec' \in Records /\ bricked' \in BOOLEAN /\ poisoned' \in BOOLEAN
  BY <1>1, AppliedType
<1>4. /\ rec' = rec \/ rec'.access = NoGrant
      /\ rec'.gen = rec.gen /\ rec'.cred = rec.cred /\ rec'.pend = rec.pend
      /\ rec'.born = rec.born
      /\ bricked' => bricked \/ poisoned'
      /\ poisoned => poisoned'
  BY <1>1, <1>2, Zenon
<1>5. LifeInv'
  BY <1>4 DEF IInv, Safe, LifeInv
<1>6. RecordInv'
  BY <1>4 DEF IInv, Safe, RecordInv
<1>7. MemoryInv'
  BY <1>4 DEF IInv, Safe, MemoryInv, Restorable
<1>8. NoLostActivation'
  BY <1>4 DEF IInv, Safe, NoLostActivation
<1> QED BY <1>3, <1>4, <1>5, <1>6, <1>7, <1>8

\* The worker's checkpoint.
LEMMA WorkerCheckpointStep == ASSUME IInv, WorkerCheckpoint PROVE IInv'
<1>0. PICK k \in BOOLEAN : \E o \in Checkpoint(mem.claims # NoGrant, k) : Applied(o)
  BY DEF WorkerCheckpoint
<1>1. PICK o \in Checkpoint(mem.claims # NoGrant, k) : Applied(o)
  BY <1>0
<1>2. life = "open" /\ UNCHANGED <<life, mem, serial, current, call, server, epoch, settled>>
  BY DEF WorkerCheckpoint
<1>3. /\ rec' \in Records /\ bricked' \in BOOLEAN /\ poisoned' \in BOOLEAN
      /\ poisoned => poisoned'
      /\ rec'.pend = rec.pend
      /\ LifeInv' /\ RecordInv' /\ MemoryInv' /\ NoLostActivation'
  BY <1>1, <1>2, Checkpointed DEF server
<1>4. TypeOK'
  BY <1>2, <1>3, Facts DEF TypeOK, server
<1>5. \A u \in Threads : CallInv(u)'
  BY <1>2, <1>3 DEF IInv, Safe, CallInv
<1> QED BY <1>3, <1>4, <1>5 DEF IInv, Safe

\* Orbit could not be reached.
LEMMA AcceptTransientStep == ASSUME IInv, NEW t \in Threads, AcceptTransient(t) PROVE IInv'
<1>1. PICK k \in BOOLEAN :
      \E o \in IF mem.restored THEN Checkpoint(mem.claims # NoGrant, k)
               ELSE {Outcome(rec, bricked, poisoned, TRUE)} :
        /\ Applied(o)
        /\ mem' = IF o.ok THEN [mem EXCEPT !.restored = FALSE, !.transient = TRUE] ELSE mem
        /\ Return(t, IF o.ok THEN "transient" ELSE "clock")
  BY DEF AcceptTransient
<1>2. PICK o \in IF mem.restored THEN Checkpoint(mem.claims # NoGrant, k)
                 ELSE {Outcome(rec, bricked, poisoned, TRUE)} :
        /\ Applied(o)
        /\ mem' = IF o.ok THEN [mem EXCEPT !.restored = FALSE, !.transient = TRUE] ELSE mem
        /\ Return(t, IF o.ok THEN "transient" ELSE "clock")
  BY <1>1
<1>3. /\ call[t].pc = "got" /\ current' = current \ {t}
      /\ UNCHANGED <<server, epoch, settled>>
  BY DEF AcceptTransient, Acceptable
<1>4. life # "closed"
  BY <1>3, ActiveIsOpen
<1>5. /\ call' = [call EXCEPT ![t] = Idle] /\ serial' \in {serial, NoThread}
      /\ life' \in {"open", "closing", life}
      /\ serial # t => serial' = serial
  BY <1>2 DEF Return, Set
<1>6. /\ mem' \in Memories /\ mem'.ver = mem.ver /\ mem'.cred = mem.cred
      /\ mem'.born = mem.born /\ mem'.claims = mem.claims
  BY <1>2, Facts DEF Memories
<1>7. /\ rec' \in Records /\ bricked' \in BOOLEAN /\ poisoned' \in BOOLEAN
      /\ poisoned => poisoned'
      /\ rec'.pend = rec.pend
      /\ LifeInv' /\ RecordInv' /\ MemoryInv' /\ NoLostActivation'
  <2>1. CASE mem.restored
    BY <1>2, <1>3, <1>4, <1>5, <1>6, <2>1, Checkpointed DEF server
  <2>2. CASE ~mem.restored
    <3>1. o = Outcome(rec, bricked, poisoned, TRUE)
      BY <1>2, <2>2
    <3>2. rec' = rec /\ bricked' = bricked /\ poisoned' = poisoned
      BY <1>2, <3>1, Zenon DEF Applied, Outcome
    <3>3. rec' \in Records /\ bricked' \in BOOLEAN /\ poisoned' \in BOOLEAN
      BY <3>2, Facts DEF TypeOK
    <3>4. LifeInv'
      BY <1>4, <1>5, <3>2 DEF IInv, Safe, LifeInv
    <3>5. RecordInv' /\ NoLostActivation'
      BY <1>3, <3>2 DEF IInv, Safe, RecordInv, NoLostActivation, server
    <3>6. MemoryInv'
      BY <1>3, <1>4, <1>6, <3>2 DEF IInv, Safe, MemoryInv, Restorable
    <3> QED BY <3>2, <3>3, <3>4, <3>5, <3>6
  <2> QED BY <2>1, <2>2
<1>8. TypeOK'
  BY <1>3, <1>5, <1>6, <1>7, Facts DEF TypeOK, server
<1>9. \A u \in Threads : CallInv(u)'
  BY <1>3, <1>5, <1>7 DEF IInv, TypeOK, Safe, CallInv, Idle
<1> QED BY <1>7, <1>8, <1>9 DEF IInv, Safe

\* Logout, and deactivate up to its request.
LEMMA InvalidateStep ==
  ASSUME IInv, life # "closed", Invalidate, UNCHANGED <<life, serial, call, server, settled>>
  PROVE  IInv'
<1>1. PICK o \in ClearCached(FALSE, TRUE) :
        /\ Applied(o)
        /\ mem' = [Cleared(mem) EXCEPT !.ver = IF o.ok THEN o.rec.gen ELSE @]
        /\ current' = {}
        /\ epoch' = IF o.ok THEN epoch + 1 ELSE epoch
  BY DEF Invalidate
<1>2. Stored(o) /\ (rec' = rec \/ Moved(FALSE, TRUE))
  BY <1>1, Facts, ClearCachedRecord
<1>3. /\ rec' \in Records /\ bricked' \in BOOLEAN /\ poisoned' \in BOOLEAN /\ o.rec = rec'
      /\ rec'.gen \in 0..MaxGeneration /\ rec'.pend = rec.pend
  BY <1>2 DEF Stored, Records, Moved
<1>4. /\ mem' \in Memories /\ mem'.claims = NoGrant /\ mem'.cred = None
      /\ mem'.ver = IF o.ok THEN rec'.gen ELSE mem.ver
  <2>1. Cleared(mem) \in Memories /\ Cleared(mem).ver = mem.ver
        /\ Cleared(mem).claims = NoGrant /\ Cleared(mem).cred = None
    BY Facts DEF Cleared, EmptyMemory, Memories
  <2>2. CASE o.ok  BY <1>1, <1>3, <2>1, <2>2 DEF Memories
  <2>3. CASE ~o.ok BY <1>1, <1>3, <2>1, <2>3 DEF Memories
  <2> QED BY <2>2, <2>3
<1>5. RecordInv' /\ epoch' \in 0..MaxGeneration
  BY <1>1, ClearedRecordInv
<1>6. MemoryInv'
  BY <1>1, <1>4, ClearedMemory
<1>7. TypeOK'
  BY <1>1, <1>3, <1>4, <1>5, Facts DEF TypeOK, server
<1>8. LifeInv'
  BY <1>2, StoredLife
<1>9. \A u \in Threads : CallInv(u)'
  BY <1>1 DEF IInv, Safe, CallInv
<1>10. NoLostActivation'
  BY <1>3, KeepsPending DEF server
<1> QED BY <1>5, <1>6, <1>7, <1>8, <1>9, <1>10 DEF IInv, Safe

\* resolve_pending_activation: the caller takes the outcome upon itself.
LEMMA ResolveStep == ASSUME IInv, ResolvePendingActivation PROVE IInv'
<1>1. PICK o \in ClearCached(TRUE, FALSE) :
        /\ Applied(o)
        /\ settled' = IF o.rec.pend = NoPending THEN settled \cup {rec.pend.op} ELSE settled
        /\ IF o.ok
           THEN /\ mem' = [mem EXCEPT !.ver = o.rec.gen, !.claims = NoGrant]
                /\ current' = {}
           ELSE UNCHANGED <<mem, current>>
  BY DEF ResolvePendingActivation
<1>2. /\ life \in {"open", "closing"} /\ rec.pend # NoPending
      /\ UNCHANGED <<life, serial, call, server, epoch>>
  BY DEF ResolvePendingActivation
<1>3. /\ Stored(o)
      /\ o.ok => Moved(TRUE, FALSE)
      /\ ~o.ok => /\ rec' = rec \/ Moved(TRUE, FALSE)
                  /\ poisoned' \/ (rec' = rec /\ rec.gen = MaxGeneration)
  BY <1>1, Facts, ClearCachedRecord
<1>4. /\ rec' \in Records /\ bricked' \in BOOLEAN /\ poisoned' \in BOOLEAN /\ o.rec = rec'
      /\ rec'.gen \in 0..MaxGeneration
      /\ poisoned => poisoned'
  BY <1>3 DEF Stored, Records
<1>5. rec.pend.op \in Ops
  BY <1>2, Facts DEF Records
<1>6. RecordInv'
  BY <1>1, <1>2, ClearedRecordInv
<1>7. LifeInv'
  BY <1>2, <1>3, StoredLife
<1>8. NoLostActivation'
  BY <1>1, <1>2, <1>3, <1>4 DEF IInv, Safe, NoLostActivation, Moved, server
<1>9. CASE o.ok
  <2>1. /\ mem' \in Memories /\ mem'.claims = NoGrant /\ mem'.cred = mem.cred
        /\ mem'.born = mem.born /\ mem'.ver = rec'.gen /\ current' = {}
    BY <1>1, <1>4, <1>9, Facts DEF Memories
  <2>2. MemoryInv'
    BY <1>1, <1>2, <1>9, <2>1, ClearedMemory
  <2>3. TypeOK'
    BY <1>1, <1>2, <1>4, <1>5, <2>1, Facts DEF TypeOK, server
  <2>4. \A u \in Threads : CallInv(u)'
    BY <1>2, <2>1 DEF IInv, Safe, CallInv
  <2> QED BY <1>6, <1>7, <1>8, <2>2, <2>3, <2>4 DEF IInv, Safe
<1>10. CASE ~o.ok
  <2>1. mem' = mem /\ current' = current
    BY <1>1, <1>10
  <2>2. ~poisoned' => rec' = rec
    BY <1>3, <1>10
  <2>3. MemoryInv'
    BY <1>2, <1>4, <2>1, <2>2 DEF IInv, Safe, MemoryInv, Restorable
  <2>4. TypeOK'
    BY <1>1, <1>2, <1>4, <1>5, <2>1, Facts DEF TypeOK, server
  <2>5. \A u \in Threads : CallInv(u)'
    BY <1>2, <1>4, <2>1, <2>2 DEF IInv, Safe, CallInv
  <2> QED BY <1>6, <1>7, <1>8, <2>3, <2>4, <2>5 DEF IInv, Safe
<1> QED BY <1>9, <1>10

\* checked_snapshot_locked does not trust the clock of the grant.
LEMMA ClockUncertainStep == ASSUME IInv, ClockUncertain PROVE IInv'
<1>1. PICK o \in ClearCached(FALSE, FALSE) :
        /\ Applied(o)
        /\ mem' = [mem EXCEPT !.claims = NoGrant, !.ver = IF o.ok THEN o.rec.gen ELSE @]
  BY DEF ClockUncertain
<1>2. life = "open" /\ current' = {} /\ UNCHANGED <<life, serial, call, server, epoch, settled>>
  BY DEF ClockUncertain
<1>3. Stored(o) /\ (rec' = rec \/ Moved(FALSE, FALSE))
  BY <1>1, Facts, ClearCachedRecord
<1>4. /\ rec' \in Records /\ bricked' \in BOOLEAN /\ poisoned' \in BOOLEAN /\ o.rec = rec'
      /\ rec'.gen \in 0..MaxGeneration /\ rec'.pend = rec.pend
  BY <1>3 DEF Stored, Records, Moved
<1>5. /\ mem' \in Memories /\ mem'.claims = NoGrant /\ mem'.cred = mem.cred /\ mem'.born = mem.born
      /\ mem'.ver = IF o.ok THEN rec'.gen ELSE mem.ver
  <2>1. CASE o.ok  BY <1>1, <1>4, <2>1, Facts DEF Memories
  <2>2. CASE ~o.ok BY <1>1, <1>4, <2>2, Facts DEF Memories
  <2> QED BY <2>1, <2>2
<1>6. RecordInv'
  BY <1>1, <1>2, ClearedRecordInv
<1>7. MemoryInv'
  BY <1>1, <1>2, <1>5, ClearedMemory
<1>8. TypeOK'
  BY <1>2, <1>4, <1>5, Facts DEF TypeOK, server
<1>9. LifeInv'
  BY <1>2, <1>3, StoredLife
<1>10. \A u \in Threads : CallInv(u)'
  BY <1>2 DEF IInv, Safe, CallInv
<1>11. NoLostActivation'
  BY <1>2, <1>4, KeepsPending DEF server
<1> QED BY <1>6, <1>7, <1>8, <1>9, <1>10, <1>11 DEF IInv, Safe

(***************************************************************************)
(* Opening and closing                                                     *)
(***************************************************************************)

\* close() saves the clocks and lets the directory go.
LEMMA FinishCloseStep == ASSUME IInv, FinishClose PROVE IInv'
<1>1. PICK k \in BOOLEAN :
        \E o \in Checkpoint(mem.claims # NoGrant, k) : rec' = o.rec /\ bricked' = o.bricked
  BY DEF FinishClose
<1>2. PICK o \in Checkpoint(mem.claims # NoGrant, k) : rec' = o.rec /\ bricked' = o.bricked
  BY <1>1
<1>3. /\ life' = "closed" /\ mem' = EmptyMemory /\ serial' = NoThread /\ current' = {}
      /\ call' = [t \in Threads |-> Idle]
      /\ poisoned' = FALSE /\ UNCHANGED <<server, epoch, settled>>
  BY DEF FinishClose, Gone
<1>4. /\ o \in Outcomes
      /\ o.rec = rec \/ o.rec.access = NoGrant
      /\ o.rec.gen = rec.gen /\ o.rec.cred = rec.cred /\ o.rec.pend = rec.pend
      /\ o.rec.born = rec.born
  BY Facts, CheckpointRecord
<1>5. rec' \in Records /\ bricked' \in BOOLEAN
  BY <1>2, <1>4 DEF Outcomes
<1>6. TypeOK'
  BY <1>3, <1>5, Facts DEF TypeOK, server
<1>7. RecordInv' /\ NoLostActivation'
  BY <1>2, <1>3, <1>4 DEF IInv, Safe, RecordInv, NoLostActivation, server
<1>8. LifeInv' /\ MemoryInv'
  BY <1>3 DEF LifeInv, MemoryInv, EmptyMemory
<1>9. \A u \in Threads : CallInv(u)'
  BY <1>3 DEF CallInv, Idle
<1> QED BY <1>6, <1>7, <1>8, <1>9 DEF IInv, Safe

\* A client is opened over the record r with the memory m read from it.
LEMMA OpenedStep ==
  ASSUME IInv, life = "closed", NEW t \in Threads, NEW r \in Records, NEW m \in Memories,
         Opened(t, r, m), bricked' = FALSE, UNCHANGED <<poisoned, serial, server, epoch>>,
         settled' \subseteq Ops, RecordInv', NoLostActivation',
         m.ver = r.gen, m.cred = r.cred, m.born = r.born, m.claims \in {NoGrant, r.access},
         Restorable(r.access) => m.claims = r.access
  PROVE  IInv'
<1>1. /\ mem = EmptyMemory /\ serial = NoThread /\ current = {} /\ ~poisoned
      /\ \A u \in Threads : call[u] = Idle
  BY DEF IInv, Safe, LifeInv
<1>2. rec' = r /\ mem' = m /\ life' \in {"opening", "open"}
  BY DEF Opened
<1> DEFINE c == [Idle EXCEPT !.pc = "wait", !.kind = "refresh", !.born = epoch]
<1>3. /\ c \in Calls /\ c.pc = "wait" /\ c.kind = "refresh" /\ c.born = epoch
  BY Facts DEF TypeOK, Calls, Idle
<1>4. (call' = [call EXCEPT ![t] = c] /\ current' = {t}) \/ UNCHANGED <<call, current>>
  BY DEF Opened, Set
<1> HIDE DEF c
<1>5. TypeOK'
  BY <1>2, <1>3, <1>4, Facts DEF TypeOK, server
<1>6. LifeInv'
  BY <1>2 DEF LifeInv
<1>7. MemoryInv'
  BY <1>2 DEF RecordInv, MemoryInv
<1>8. \A u \in Threads : CallInv(u)'
  BY <1>1, <1>3, <1>4, Facts DEF TypeOK, CallInv, Idle
<1> QED BY <1>5, <1>6, <1>7, <1>8 DEF IInv, Safe

\* open_parsed over the record as it is.
LEMMA OpenStep == ASSUME IInv, NEW t \in Threads, Open(t) PROVE IInv'
<1> DEFINE g == rec.access
           m == [Loaded(rec) EXCEPT !.claims = IF Restorable(g) THEN g ELSE @,
                                    !.restored = Restorable(g)]
<1>1. /\ life = "closed" /\ ~bricked /\ Opened(t, rec, m)
      /\ UNCHANGED <<bricked, poisoned, serial, server, epoch, settled>>
  BY DEF Open
<1>2. /\ Loaded(rec) \in Memories /\ Loaded(rec).ver = rec.gen /\ Loaded(rec).cred = rec.cred
      /\ Loaded(rec).born = rec.born /\ Loaded(rec).claims = NoGrant
  BY Facts DEF Loaded, EmptyMemory, Memories, Records
<1>3. Restorable(g) \in BOOLEAN /\ g \in Grants \cup {NoGrant}
  <2>1. g \in Grants \cup {NoGrant}
    BY Facts DEF Records
  <2> QED BY <2>1, Zenon DEF Restorable, Grants, NoGrant
<1>4. /\ m \in Memories /\ m.ver = rec.gen /\ m.cred = rec.cred /\ m.born = rec.born
      /\ m.claims = IF Restorable(g) THEN g ELSE NoGrant
  <2>1. CASE Restorable(g)
    <3>1. m = [Loaded(rec) EXCEPT !.claims = g, !.restored = TRUE]
      BY <1>3, <2>1
    <3> QED BY <1>2, <1>3, <2>1, <3>1 DEF Memories
  <2>2. CASE ~Restorable(g)
    <3>1. m = [Loaded(rec) EXCEPT !.claims = Loaded(rec).claims, !.restored = FALSE]
      BY <1>3, <2>2
    <3> QED BY <1>2, <1>3, <2>2, <3>1 DEF Memories
  <2> QED BY <2>1, <2>2
<1> HIDE DEF m
<1>5. rec' = rec /\ bricked' = FALSE
  BY <1>1, Facts DEF Opened, TypeOK
<1>6. RecordInv' /\ NoLostActivation' /\ settled' \subseteq Ops
  BY <1>1, <1>5, Facts DEF TypeOK, Safe, RecordInv, NoLostActivation, server
<1> QED BY <1>1, <1>4, <1>5, <1>6, Facts, OpenedStep

\* open continues after a commit that leaves no cached grant.
LEMMA OpenedAfterStep ==
  ASSUME IInv, life = "closed", NEW t \in Threads, NEW r \in Records, r.access = NoGrant,
         r.cred = None \/ (r.cred = rec.cred /\ r.born = rec.born),
         NEW o, NextLeaves(o, r), OpenedAfter(t, o),
         UNCHANGED <<poisoned, serial, server, epoch>>, settled \subseteq settled',
         settled' \subseteq Ops, rec.pend.op \in settled' \cup {0, o.rec.pend.op}
  PROVE  IInv'
<1>1. /\ mem = EmptyMemory /\ serial = NoThread /\ current = {} /\ ~poisoned
      /\ \A u \in Threads : call[u] = Idle
  BY DEF IInv, Safe, LifeInv
<1>2. /\ o \in Outcomes
      /\ o.ok => rec.gen < MaxGeneration /\ o.rec = [r EXCEPT !.gen = rec.gen + 1] /\ ~o.bricked
      /\ o.rec = rec \/ (rec.gen < MaxGeneration /\ o.rec = [r EXCEPT !.gen = rec.gen + 1])
  BY Facts, NextLeavesType, Zenon
<1>3. o.rec \in Records /\ o.bricked \in BOOLEAN /\ bricked' = o.bricked
  BY <1>2 DEF Outcomes, OpenedAfter
<1>4. rec' = o.rec
  BY DEF OpenedAfter, Opened
<1>5. /\ rec.gen \in Nat /\ MaxGeneration \in Nat /\ epoch \in Nat /\ epoch =< rec.gen
  BY Facts, MaxGenerationAssumption DEF TypeOK, Safe, RecordInv
<1>6. ASSUME o.rec = [r EXCEPT !.gen = rec.gen + 1]
      PROVE  o.rec.gen = rec.gen + 1 /\ o.rec.access = NoGrant /\ o.rec.cred = r.cred
             /\ o.rec.born = r.born
  BY <1>6 DEF Records
<1>7. RecordInv'
  <2>1. CASE rec' = rec
    BY <2>1 DEF IInv, Safe, RecordInv
  <2>2. CASE o.rec = [r EXCEPT !.gen = rec.gen + 1]
    BY <1>4, <1>5, <1>6, <2>2 DEF IInv, Safe, RecordInv
  <2> QED BY <1>2, <1>4, <2>1, <2>2
<1>8. NoLostActivation'
  <2>1. net \subseteq Ops /\ 0 \notin Ops /\ net' = net
    BY Facts, MaxGenerationAssumption DEF TypeOK, Ops, server
  <2> QED BY <1>4, <2>1 DEF IInv, Safe, NoLostActivation
<1>9. CASE o.ok
  <2> DEFINE m == Loaded(o.rec)
  <2>1. Opened(t, o.rec, m) /\ bricked' = FALSE
    BY <1>2, <1>3, <1>9 DEF OpenedAfter
  <2>2. /\ m \in Memories /\ m.ver = o.rec.gen /\ m.cred = o.rec.cred
        /\ m.born = o.rec.born /\ m.claims = NoGrant
    BY <1>3, Facts DEF Loaded, EmptyMemory, Memories, Records
  <2>3. ~Restorable(o.rec.access)
    BY <1>2, <1>6, <1>9 DEF Restorable
  <2> HIDE DEF m
  <2> QED BY <1>3, <1>7, <1>8, <2>1, <2>2, <2>3, OpenedStep
<1>10. CASE ~o.ok
  <2>1. UNCHANGED <<life, mem, call, current>>
    BY <1>10 DEF OpenedAfter
  <2>2. TypeOK'
    BY <1>3, <1>4, <2>1, Facts DEF TypeOK, server
  <2>3. LifeInv' /\ MemoryInv'
    BY <1>1, <2>1 DEF LifeInv, MemoryInv, EmptyMemory
  <2>4. \A u \in Threads : CallInv(u)'
    BY <1>1, <2>1 DEF CallInv, Idle
  <2> QED BY <1>7, <1>8, <2>2, <2>3, <2>4 DEF IInv, Safe
<1> QED BY <1>9, <1>10

\* The cache is inconsistent, or the machine is another one.
LEMMA OpenClearedStep ==
  ASSUME IInv, NEW t \in Threads, OpenUncertain(t) \/ OpenRebound(t)
  PROVE  IInv'
<1>1. CASE OpenUncertain(t)
  <2>1. PICK o \in ClearCached(FALSE, FALSE) : OpenedAfter(t, o)
    BY <1>1 DEF OpenUncertain
  <2>2. life = "closed" /\ UNCHANGED <<poisoned, serial, server, epoch, settled>>
    BY <1>1 DEF OpenUncertain
  <2> DEFINE r == ClearedRecord(FALSE, FALSE)
  <2>3. NextLeaves(o, r) /\ r \in Records
    BY Facts, ClearCachedOutcome, ClearedRecordType
  <2>4. r.access = NoGrant /\ r.cred = rec.cred /\ r.born = rec.born /\ r.pend = rec.pend
    BY Facts DEF ClearedRecord, Records
  <2> HIDE DEF r
  <2>5. o.rec = rec \/ o.rec = [r EXCEPT !.gen = rec.gen + 1]
    BY <2>3, Facts, NextLeavesType, Zenon
  <2>6. o.rec.pend = rec.pend
    BY <2>3, <2>4, <2>5 DEF Records
  <2> QED BY <2>1, <2>2, <2>3, <2>4, <2>6, Facts, OpenedAfterStep DEF TypeOK
<1>2. CASE OpenRebound(t)
  <2>1. PICK o \in CommitNext(EmptyRecord) :
          /\ OpenedAfter(t, o)
          /\ settled' = IF o.rec.pend = NoPending THEN settled \cup ({rec.pend.op} \ {None})
                        ELSE settled
    BY <1>2 DEF OpenRebound
  <2>2. life = "closed" /\ UNCHANGED <<poisoned, serial, server, epoch>>
    BY <1>2 DEF OpenRebound
  <2>3. NextLeaves(o, EmptyRecord)
    BY Facts, CommitNextOutcome
  <2>4. o.rec = rec \/ o.rec = [EmptyRecord EXCEPT !.gen = rec.gen + 1]
    BY <2>3, Facts, NextLeavesType, Zenon
  <2>5. o.rec = rec \/ o.rec.pend = NoPending
    BY <2>4 DEF EmptyRecord
  <2>6. rec.pend.op \in Ops \cup {0}
    BY Facts DEF Records, NoPending, None
  <2>7. /\ settled \subseteq settled' /\ settled' \subseteq Ops
        /\ rec.pend.op \in settled' \cup {0, o.rec.pend.op}
    BY <2>1, <2>5, <2>6, Facts DEF TypeOK, None
  <2>8. EmptyRecord.access = NoGrant /\ EmptyRecord.cred = None
    BY DEF EmptyRecord
  <2> QED BY <2>1, <2>2, <2>3, <2>7, <2>8, Facts, OpenedAfterStep
<1> QED BY <1>1, <1>2

(***************************************************************************)
(* The theorems                                                            *)
(***************************************************************************)

\* A new client over an empty directory satisfies the invariant.
LEMMA InitInv == Init => IInv
<1> SUFFICES ASSUME Init PROVE IInv
  OBVIOUS
<1>1. Idle \in Calls /\ EmptyMemory \in Memories /\ EmptyRecord \in Records /\ 0 \in 0..MaxGeneration
  BY MaxGenerationAssumption DEF Idle, Calls, EmptyMemory, Memories, EmptyRecord, Records, None
<1>2. TypeOK
  BY <1>1 DEF Init, TypeOK
<1>3. LifeInv /\ RecordInv /\ MemoryInv
  BY DEF Init, LifeInv, RecordInv, MemoryInv, EmptyRecord, EmptyMemory
<1>4. (\A t \in Threads : CallInv(t)) /\ NoLostActivation
  BY DEF Init, CallInv, Idle, NoLostActivation
<1> QED BY <1>2, <1>3, <1>4 DEF IInv, Safe

\* Every step of the client, of its callers and of the server keeps it.
LEMMA NextInv == IInv /\ [Next]_vars => IInv'
<1> SUFFICES ASSUME IInv, [Next]_vars PROVE IInv'
  OBVIOUS
<1>1. ASSUME NEW t \in Threads, Starting(t) PROVE IInv'
  <2>1. CASE Begin(t, "refresh", NoKey)         BY <2>1, BeginStep
  <2>2. CASE Begin(t, "refreshIfNeeded", NoKey) BY <2>2, BeginStep
  <2>3. ASSUME NEW k \in LicenceKeys, Begin(t, "activate", k) PROVE IInv'
    BY <2>3, BeginStep
  <2>4. CASE Open(t)                            BY <2>4, OpenStep
  <2>5. CASE OpenUncertain(t) \/ OpenRebound(t) BY <2>5, OpenClearedStep
  <2> QED BY <1>1, <2>1, <2>2, <2>3, <2>4, <2>5 DEF Starting
<1>2. ASSUME NEW t \in Threads, Running(t) \/ Drop(t) PROVE IInv'
  <2>1. CASE Rejected(t)
    BY <2>1, ReturnStep, SyncedSafe, ActiveIsOpen DEF Rejected
  <2>2. CASE Activate(t)         BY <2>2, ActivateStep
  <2>3. CASE ActivateBlocked(t)  BY <2>3, ReturnStep DEF ActivateBlocked, Admitted
  <2>4. CASE Refresh(t)          BY <2>4, RefreshStep
  <2>5. CASE RefreshSkipped(t)   BY <2>5, ReturnStep DEF RefreshSkipped, Admitted
  <2>6. CASE Reply(t)            BY <2>6, ReplyStep
  <2>7. CASE AcceptStale(t)
    BY <2>7, ReturnStep, SyncedSafe, ActiveIsOpen DEF AcceptStale
  <2>8. CASE AcceptOk(t)         BY <2>8, AcceptOkStep
  <2>9. CASE AcceptTransient(t)  BY <2>9, AcceptTransientStep
  <2>10. CASE AcceptUnverified(t) BY <2>10, AcceptUnverifiedStep
  <2>11. CASE AcceptError(t)     BY <2>11, AcceptErrorStep
  <2>12. CASE Drop(t)            BY <2>12, ReturnStep DEF Drop
  <2> QED BY <1>2, <2>1, <2>2, <2>3, <2>4, <2>5, <2>6, <2>7, <2>8, <2>9, <2>10, <2>11, <2>12
          DEF Running
<1>3. CASE Local
  <2>1. CASE Logout
    BY <2>1, InvalidateStep DEF Logout
  <2>2. CASE Deactivate
    BY <2>2, InvalidateStep DEF Deactivate
  <2>3. CASE ResolvePendingActivation BY <2>3, ResolveStep
  <2>4. CASE ClockUncertain           BY <2>4, ClockUncertainStep
  <2>5. CASE WorkerCheckpoint         BY <2>5, WorkerCheckpointStep
  <2>6. CASE FinishClose              BY <2>6, FinishCloseStep
  <2>7. CASE Observe \/ BeginClose \/ Crash \/ StorageFails
    BY <2>7, LocalStep
  <2> QED BY <1>3, <2>1, <2>2, <2>3, <2>4, <2>5, <2>6, <2>7 DEF Local
<1>4. CASE ServerActivates \/ ServerRevokes
  BY <1>4, ServerStep
<1>5. CASE Age
  BY <1>5, AgeStep
<1>6. CASE UNCHANGED vars
  <2>1. /\ UNCHANGED <<rec, bricked, poisoned, life, mem, serial, current>>
        /\ UNCHANGED <<call, net, issued, revoked, epoch, settled>>
    BY <1>6 DEF vars, storage, server
  <2>2. TypeOK' /\ LifeInv' /\ RecordInv' /\ NoLostActivation'
    BY <2>1 DEF IInv, Safe, TypeOK, LifeInv, RecordInv, NoLostActivation
  <2>3. MemoryInv' /\ \A t \in Threads : CallInv(t)'
    BY <2>1 DEF IInv, Safe, MemoryInv, CallInv, Restorable
  <2> QED BY <2>2, <2>3 DEF IInv, Safe
<1> QED BY <1>1, <1>2, <1>3, <1>4, <1>5, <1>6 DEF Next

\* The invariant is inductive, and holds of every state the client reaches.
THEOREM Inductive == Spec => []IInv
BY InitInv, NextInv, PTL DEF Spec

\* Every variable keeps its type: generations, operation ids and epochs never
\* pass MAX_GENERATION, and only what was sent is carried out or revoked.
THEOREM TypeCorrect == Spec => []TypeOK
<1>1. IInv => TypeOK
  BY DEF IInv
<1> QED BY <1>1, Inductive, PTL

\* sync_storage never finds a record it did not expect: no path that commits
\* the record forgets to hand its generation to State.storage_version.
THEOREM StorageVersionInSync == Spec => []VersionInSync
<1>1. IInv => VersionInSync
  BY DEF IInv, Safe, MemoryInv, VersionInSync
<1> QED BY <1>1, Inductive, PTL

\* require_access passes only on the activation whose credential is in memory
\* and on disk, while nothing is pending.
THEOREM GrantedAccessIsBacked == Spec => []AccessIsBacked
<1>1. IInv => AccessIsBacked
  <2> SUFFICES ASSUME IInv, Granted
               PROVE  mem.claims.act = mem.cred /\ rec.cred = mem.cred /\ rec.pend = NoPending
    BY DEF AccessIsBacked
  <2>1. life # "closed" /\ ~poisoned
    BY DEF Granted, InSync, SyncOk
  <2>2. mem.claims # NoGrant
    BY DEF Granted, Access
  <2>3. mem.claims.act = mem.cred
    BY <2>2 DEF IInv, Safe, MemoryInv
  <2>4. mem.cred # None
    <3>1. mem.claims \in Grants
      BY <2>2, Facts DEF Memories
    <3> QED BY <2>3, <3>1, MaxGenerationAssumption DEF Grants, Ops, None
  <2> QED BY <2>1, <2>2, <2>3, <2>4 DEF IInv, Safe, MemoryInv
<1> QED BY <1>1, Inductive, PTL

\* Whatever is written is what Record::validate accepts on the next open.
THEOREM StoredRecordIsValid == Spec => []RecordIsValid
<1>1. IInv => RecordIsValid
  BY DEF IInv, Safe, RecordInv, RecordIsValid, Validate
<1> QED BY <1>1, Inductive, PTL

\* No answer to a call that began before a completed logout or deactivate, and
\* no record from before it, brings a credential back.
THEOREM CompletedLogoutIsFinal == Spec => []LogoutIsFinal
<1>1. IInv => LogoutIsFinal
  BY DEF IInv, Safe, MemoryInv, RecordInv, LogoutIsFinal
<1> QED BY <1>1, Inductive, PTL

\* The operation id of an activation that was sent stays in the record until
\* its outcome is known or given up, across crashes, logouts and failed writes.
THEOREM SentActivationIsKept == Spec => []NoLostActivation
<1>1. IInv => NoLostActivation
  BY DEF IInv, Safe
<1> QED BY <1>1, Inductive, PTL

\* What a restart could restore from the record, the running client has.
THEOREM NothingGainedByRestart == Spec => []RestartGainsNothing
<1>1. IInv => RestartGainsNothing
  BY DEF IInv, Safe, MemoryInv, RestartGainsNothing, InSync, SyncOk
<1> QED BY <1>1, Inductive, PTL
=============================================================================
