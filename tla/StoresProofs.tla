----------------------------- MODULE StoresProofs -----------------------------
(***************************************************************************)
(* TLAPS proofs about the stores of MCStores: what each of them keeps, for *)
(* every set of processes, credentials and machines and any number of      *)
(* power losses, and that they implement CredentialStore.                  *)
(***************************************************************************)
EXTENDS MCStores, TLAPS

(***************************************************************************)
(* Inductive invariants                                                    *)
(***************************************************************************)

\* A process that has begun to write: the record it read (or none), and the one
\* that a save, an invalidation or the set-up of a new store makes of it.
Changes(r, n, fresh, first) ==
  \/ r = fresh /\ n = first
  \/ /\ r.gen \in 0..MaxGen /\ r.cred \in Creds \cup {NoCred}
     /\ \/ n.gen = r.gen /\ n.cred \in Creds
        \/ r.gen < MaxGen /\ n.gen = r.gen + 1 /\ n.cred = NoCred

(* The keyring (SecretStore) *)

KWorks == {"ready", "write", "marked", "stored", "sync"}

\* A helper that may still write lies behind the marker.
KFiles == late # {} => marker.seen /\ marker.disk

KPhase(p) ==
  /\ pc[p] \in K!Leased <=> holder = p
  /\ pc[p] \notin KWorks => mem[p] = K!Nothing /\ new[p] = K!Nothing
  /\ pc[p] \in {"syncLock", "lookup", "ready", "write", "sync"} => ~marker.seen
  /\ pc[p] \in {"marked", "stored"} => marker.seen /\ marker.disk /\ late = {}
  /\ pc[p] = "ready" => mem[p] = keyring /\ mem[p] \in K!Records /\ new[p] = K!Nothing
  /\ pc[p] \in {"write", "marked", "stored", "sync"} =>
       /\ new[p] \in K!Records
       /\ Changes(mem[p], new[p], K!Fresh, [gen |-> 0, cred |-> NoCred])
       /\ IF pc[p] \in {"write", "marked"} THEN mem[p] = keyring ELSE new[p] = keyring

KInv == K!TypeOK /\ KFiles /\ \A p \in Procs : KPhase(p)

\* Where the keyring was empty at first, whatever outlives a process, and whoever
\* may write, comes after the lock file is on disk.
KDurable ==
  /\ marker.seen \/ marker.disk \/ late # {} \/ keyring # K!Fresh => lock.durable
  /\ \A p \in Procs : pc[p] \in KWorks \/ (pc[p] = "lookup" /\ created[p]) => lock.durable

(* The installed record on Windows and macOS (NativeFile) *)

NWorks == {"ready", "write", "sync"} \cup W!Writing

\* The record on disk is the one that shows, or the marker is on disk as well.
NFiles ==
  /\ marker.seen \/ marker.disk \/ data.seen # W!Fresh \/ data.disk # W!Fresh => lock.durable
  /\ data.flushed
  /\ ~(marker.seen /\ marker.disk) => data.disk = data.seen

NPhase(p) ==
  /\ pc[p] \in W!Leased <=> holder = p
  /\ pc[p] \notin NWorks => mem[p] = W!Nothing /\ new[p] = W!Nothing
  /\ pc[p] \in {"syncLock", "read", "ready", "write", "sync"} => ~marker.seen
  /\ pc[p] \in W!Writing => marker.seen /\ marker.disk
  /\ pc[p] \in NWorks \/ (pc[p] = "read" /\ created[p]) => lock.durable
  /\ pc[p] = "ready" =>
       mem[p] = data.seen /\ mem[p] \in W!Records /\ mem[p].machine = machine /\ new[p] = W!Nothing
  /\ pc[p] \in {"write", "sync"} \cup W!Writing =>
       /\ new[p] \in W!Records /\ new[p].machine = machine
       /\ mem[p] \in W!Records \cup {W!Fresh}
       /\ Changes(mem[p], new[p], W!Fresh, [gen |-> 0, cred |-> NoCred, machine |-> machine])
       /\ IF pc[p] \in {"write", "marked", "staged"} THEN mem[p] = data.seen ELSE new[p] = data.seen
  /\ pc[p] = "durable" => data.disk = data.seen

NInv == W!TypeOK /\ NFiles /\ \A p \in Procs : NPhase(p)

\* Windows only: who creates the lease file holds it, so a marker, or a lease
\* file without a record, that no process answers for was left by one that was
\* cut short.
WCause ==
  /\ corrupt => interrupted
  /\ lock.durable => lock.there
  /\ marker.seen /\ ~interrupted => \E p \in Procs : pc[p] \in W!Writing
  /\ lock.there /\ data.seen = W!Fresh /\ ~interrupted =>
       \E p \in Procs : pc[p] \in W!Leased /\ created[p]
  /\ \A p \in Procs :
       /\ pc[p] # "out" => lock.there
       /\ pc[p] = "opened" => ~created[p]
       /\ pc[p] \in {"verify", "syncLock", "read"} /\ created[p] => data.seen = W!Fresh

(* DPAPI (DpapiStore) *)

DWorks == {"ready", "write", "staged", "replaced"}

\* No record is older than the last write that was acknowledged.
DFiles ==
  /\ data.flushed
  /\ acked =< data.seen.n /\ acked =< data.disk.n

DPhase(p) ==
  /\ pc[p] # "out" <=> holder = p
  /\ pc[p] \notin DWorks => mem[p] = D!Nothing /\ new[p] = D!Nothing
  /\ pc[p] = "ready" => mem[p] = data.seen /\ mem[p] \in D!Records /\ new[p] = D!Nothing
  /\ pc[p] \in {"write", "staged", "replaced"} =>
       /\ new[p] \in D!Records
       /\ Changes(mem[p], new[p], D!Nothing, [gen |-> 0, cred |-> NoCred, n |-> 0])
       /\ acked =< new[p].n
       /\ IF pc[p] = "replaced" THEN new[p] = data.seen
          ELSE \/ mem[p] = data.seen /\ mem[p] \in D!Records
               \/ mem[p] = D!Nothing /\ data.seen = D!Fresh /\ created[p]

DInv == D!TypeOK /\ DFiles /\ \A p \in Procs : DPhase(p)

(* The profiles of the command line tool (Profiles) *)

\* As long as commands ran one at a time, the store that the one in progress
\* holds is the file's, but for the profile it names.
PAlone(p) ==
  ~overlap /\ pc[p] # "out" =>
    /\ \A q \in Procs : pc[q] # "out" => q = p
    /\ IF pc[p] \in {"set", "remove"} THEN store[p] = want
       ELSE store[p] = [want EXCEPT ![name[p]] = store[p][name[p]]]

PInv ==
  /\ P!TypeOK
  /\ file.flushed /\ file.seen \in saved /\ file.disk \in saved
  /\ ~overlap => file.seen = want
  /\ stray => crashed
  /\ \A p \in Procs : PAlone(p)

\* The store of the platform keeps its invariant.
StoresInv ==
  /\ platform \in {"profiles"} \cup Keyring \cup Native \cup Dpapi
  /\ platform \in Keyring => KInv
  /\ platform = "keyring" => KDurable
  /\ platform \in Native => NInv
  /\ platform = "windows" => WCause
  /\ platform \in Dpapi => DInv
  /\ platform = "dpapi running" => losses = 0
  /\ platform = "profiles" => PInv

(***************************************************************************)
(* The keyring                                                             *)
(***************************************************************************)

\* The types of what is on disk or in the keyring.
KDisk ==
  /\ lock \in [there : BOOLEAN, durable : BOOLEAN]
  /\ marker \in [seen : BOOLEAN, disk : BOOLEAN]
  /\ keyring \in K!Records \cup {K!Fresh}
  /\ late \subseteq K!Records
  /\ losses \in 0..MaxLosses

\* Facts every step starts from.
LEMMA KFacts ==
  ASSUME KInv
  PROVE  /\ KDisk /\ KFiles /\ NoProc \notin Procs
         /\ pc \in [Procs -> {"out", "opened"} \cup K!Leased]
         /\ created \in [Procs -> BOOLEAN]
         /\ mem \in [Procs -> K!Records \cup {K!Fresh, K!Nothing}]
         /\ new \in [Procs -> K!Records \cup {K!Nothing}]
         /\ holder \in Procs \cup {NoProc}
         /\ \A p \in Procs : KPhase(p)
         /\ K!Fresh \notin K!Records /\ K!Nothing \notin K!Records /\ K!Fresh # K!Nothing
         /\ [gen |-> 0, cred |-> NoCred] \in K!Records
<1>1. K!Fresh \notin K!Records /\ K!Nothing \notin K!Records /\ K!Fresh # K!Nothing
  BY StoresAssumption DEF K!Fresh, K!Nothing, K!Records
<1>2. [gen |-> 0, cred |-> NoCred] \in K!Records
  BY StoresAssumption DEF K!Records
<1> QED BY <1>1, <1>2, StoresAssumption DEF KInv, K!TypeOK, KDisk

\* A process that holds the lease moves, and keeps it or gives it back.
LEMMA KLeasedStep ==
  ASSUME KInv, NEW p \in Procs, pc[p] \in K!Leased,
         K!TypeOK', KFiles', KPhase(p)', holder' \in {p, NoProc},
         \A q \in Procs : q # p => pc'[q] = pc[q] /\ mem'[q] = mem[q] /\ new'[q] = new[q]
  PROVE  KInv'
<1>1. ASSUME NEW q \in Procs, q # p PROVE KPhase(q)'
  <2>1. KPhase(q) /\ KPhase(p) /\ holder = p /\ NoProc \notin Procs
    BY KFacts DEF KPhase
  <2>2. pc[q] \notin K!Leased /\ KWorks \subseteq K!Leased /\ "lookup" \in K!Leased /\ "syncLock" \in K!Leased
    BY <1>1, <2>1 DEF KPhase, KWorks, K!Leased, K!Writing
  <2>3. pc'[q] = pc[q] /\ mem'[q] = mem[q] /\ new'[q] = new[q] /\ holder' # q
    BY <1>1, <2>1
  <2> QED BY <2>1, <2>2, <2>3 DEF KPhase, KWorks, K!Leased, K!Writing
<1> QED BY <1>1 DEF KInv

\* A step between two phases of the holder.
LEMMA KGoto ==
  ASSUME KInv, NEW p \in Procs, pc[p] \in K!Leased, NEW l \in K!Leased, K!Goto(p, l),
         KDisk', KFiles', UNCHANGED <<holder, created>>,
         \A q \in Procs : q # p => mem'[q] = mem[q] /\ new'[q] = new[q],
         mem' \in [Procs -> K!Records \cup {K!Fresh, K!Nothing}],
         new' \in [Procs -> K!Records \cup {K!Nothing}],
         KPhase(p)'
  PROVE  KInv'
<1>1. pc' \in [Procs -> {"out", "opened"} \cup K!Leased] /\ \A q \in Procs : q # p => pc'[q] = pc[q]
  BY KFacts DEF K!Goto
<1>2. K!TypeOK'
  BY <1>1, KFacts DEF K!TypeOK, KDisk
<1>3. holder' = p
  BY KFacts DEF KPhase
<1> QED BY <1>1, <1>2, <1>3, KLeasedStep

\* A process leaves the store: what it held in memory is gone.
LEMMA KOut ==
  ASSUME KInv, NEW p \in Procs, K!Out(p), KDisk', KFiles',
         pc[p] \in K!Leased \/ UNCHANGED <<lock, marker, keyring, late>>
  PROVE  KInv'
<1> USE KFacts
<1>1. /\ pc'[p] = "out" /\ mem'[p] = K!Nothing /\ new'[p] = K!Nothing /\ created' = created
      /\ \A q \in Procs : q # p => pc'[q] = pc[q] /\ mem'[q] = mem[q] /\ new'[q] = new[q]
      /\ holder' = IF holder = p THEN NoProc ELSE holder
  BY DEF K!Out
<1>2. K!TypeOK'
  BY DEF K!TypeOK, K!Out, KDisk
<1>3. "out" \notin K!Leased /\ "out" \notin KWorks
  BY DEF K!Leased, K!Writing, KWorks
<1>4. KPhase(p)'
  BY <1>1, <1>3 DEF KPhase
<1>5. CASE pc[p] \in K!Leased
  BY <1>1, <1>2, <1>4, <1>5, KLeasedStep DEF KPhase
<1>6. CASE pc[p] \notin K!Leased
  <2>1. UNCHANGED <<lock, marker, keyring, late>> /\ holder' = holder /\ holder # p
    BY <1>1, <1>6 DEF KPhase
  <2>2. ASSUME NEW q \in Procs, q # p PROVE KPhase(q)'
    BY <1>1, <2>1, <2>2 DEF KPhase
  <2> QED BY <1>2, <1>4, <2>2 DEF KInv
<1> QED BY <1>5, <1>6

\* What is on disk and in the keyring did not change.
LEMMA KDiskKept ==
  ASSUME KInv, UNCHANGED K!disk
  PROVE  KDisk' /\ KFiles' /\ UNCHANGED <<lock, marker, keyring, late, losses>>
BY KFacts DEF K!disk, KDisk, KFiles

\* Lease::open, the flock and the check of the marker.
LEMMA KOpening ==
  ASSUME KInv, NEW p \in Procs,
         K!OpenLock(p) \/ K!TakeLease(p) \/ K!VerifyLease(p) \/ K!SyncLock(p)
  PROVE  KInv'
<1> USE KFacts
<1>1. CASE K!OpenLock(p)
  <2>1. /\ pc[p] = "out" /\ pc'[p] = "opened" /\ UNCHANGED <<marker, holder, keyring, late, mem, new, losses>>
        /\ \A q \in Procs : q # p => pc'[q] = pc[q] /\ created'[q] = created[q]
        /\ lock' = [lock EXCEPT !.there = TRUE]
    BY <1>1 DEF K!OpenLock, K!Goto
  <2>2. lock' \in [there : BOOLEAN, durable : BOOLEAN] /\ lock'.durable = lock.durable
    BY <2>1 DEF KDisk
  <2>3. K!TypeOK' /\ KFiles'
    <3>1. pc' \in [Procs -> {"out", "opened"} \cup K!Leased] /\ created' \in [Procs -> BOOLEAN]
      BY <1>1 DEF K!OpenLock, K!Goto
    <3> QED BY <2>1, <2>2, <3>1 DEF K!TypeOK, KDisk, KFiles
  <2>4. ASSUME NEW q \in Procs PROVE KPhase(q)'
    <3>1. CASE q = p
      BY <2>1, <3>1 DEF KPhase, KWorks, K!Leased, K!Writing
    <3>2. CASE q # p
      BY <2>1, <2>2, <3>2 DEF KPhase
    <3> QED BY <3>1, <3>2
  <2> QED BY <2>3, <2>4 DEF KInv
<1>2. CASE K!TakeLease(p)
  <2>1. pc[p] = "opened" /\ KDisk' /\ KFiles' /\ UNCHANGED <<lock, marker, keyring, late, losses>>
    BY <1>2, KDiskKept DEF K!TakeLease
  <2>2. CASE holder = NoProc
    <3>1. /\ holder' = p /\ pc'[p] = "verify" /\ UNCHANGED <<created, mem, new>>
          /\ \A q \in Procs : q # p => pc'[q] = pc[q]
      BY <1>2, <2>2 DEF K!TakeLease, K!Goto
    <3>2. K!TypeOK'
      <4>1. pc' \in [Procs -> {"out", "opened"} \cup K!Leased]
        BY <1>2, <2>2 DEF K!TakeLease, K!Goto, K!Leased
      <4> QED BY <2>1, <3>1, <4>1 DEF K!TypeOK, KDisk
    <3>3. ASSUME NEW q \in Procs PROVE KPhase(q)'
      <4>1. CASE q = p
        BY <2>1, <3>1, <4>1 DEF KPhase, KWorks, K!Leased, K!Writing
      <4>2. CASE q # p
        BY <2>1, <2>2, <3>1, <4>2 DEF KPhase
      <4> QED BY <4>1, <4>2
    <3> QED BY <2>1, <3>2, <3>3 DEF KInv
  <2>3. CASE holder # NoProc
    BY <1>2, <2>1, <2>3, KOut DEF K!TakeLease
  <2> QED BY <2>2, <2>3
<1>3. CASE K!VerifyLease(p)
  <2>1. pc[p] = "verify" /\ KDisk' /\ KFiles' /\ UNCHANGED <<lock, marker, keyring, late, losses>>
    BY <1>3, KDiskKept DEF K!VerifyLease
  <2>2. pc[p] \in K!Leased
    BY <2>1 DEF K!Leased
  <2>3. CASE K!MarkerClear
    <3>1. PICK l \in {"syncLock", "lookup"} : K!Goto(p, l)
      BY <1>3, <2>3 DEF K!VerifyLease
    <3>2. UNCHANGED <<holder, created, mem, new>> /\ l \in K!Leased /\ ~marker.seen /\ pc'[p] = l
      BY <1>3, <2>3, <3>1 DEF K!VerifyLease, K!Leased, K!MarkerClear, K!Goto
    <3>3. KPhase(p)'
      BY <2>1, <2>2, <3>1, <3>2 DEF KPhase, KWorks
    <3> QED BY <2>1, <2>2, <3>1, <3>2, <3>3, KGoto
  <2>4. CASE ~K!MarkerClear
    BY <1>3, <2>1, <2>2, <2>4, KOut DEF K!VerifyLease
  <2> QED BY <2>3, <2>4
<1>4. CASE K!SyncLock(p)
  <2>1. /\ pc[p] = "syncLock" /\ K!Goto(p, "lookup") /\ pc'[p] = "lookup"
        /\ UNCHANGED <<holder, keyring, late, created, mem, new, losses>>
        /\ lock' = [lock EXCEPT !.durable = TRUE] /\ marker' = [marker EXCEPT !.disk = @ \/ marker.seen]
    BY <1>4 DEF K!SyncLock, K!Goto
  <2>2. pc[p] \in K!Leased /\ "lookup" \in K!Leased
    BY <2>1 DEF K!Leased
  <2>3. ~marker.seen
    BY <2>1 DEF KPhase
  <2>4. /\ lock' \in [there : BOOLEAN, durable : BOOLEAN] /\ lock'.durable
        /\ marker' \in [seen : BOOLEAN, disk : BOOLEAN] /\ ~marker'.seen
    BY <2>1, <2>3 DEF KDisk
  <2>5. KDisk' /\ KFiles'
    BY <2>1, <2>3, <2>4 DEF KDisk, KFiles
  <2>6. KPhase(p)'
    BY <2>1, <2>2, <2>4 DEF KPhase, KWorks
  <2> QED BY <2>1, <2>2, <2>5, <2>6, KGoto
<1> QED BY <1>1, <1>2, <1>3, <1>4

\* helper::lookup, save and invalidate: the record to write is made.
LEMMA KPreparing ==
  ASSUME KInv, NEW p \in Procs,
         K!Lookup(p) \/ (\E c \in Creds : K!Save(p, c)) \/ K!Invalidate(p)
  PROVE  KInv'
<1> USE KFacts
<1> DEFINE first == [gen |-> 0, cred |-> NoCred]
<1>1. KDisk' /\ KFiles' /\ UNCHANGED <<lock, marker, keyring, late, losses>>
  BY KDiskKept DEF K!Lookup, K!Save, K!Invalidate
<1>2. ASSUME pc[p] \in {"lookup", "ready"}, K!Goto(p, "write"), UNCHANGED <<holder, created>>,
             NEW n \in K!Records, new' = [new EXCEPT ![p] = n],
             mem' \in [Procs -> K!Records \cup {K!Fresh, K!Nothing}],
             \A q \in Procs : q # p => mem'[q] = mem[q],
             mem'[p] = keyring, Changes(mem'[p], n, K!Fresh, first)
      PROVE  KInv'
  <2>1. pc[p] \in K!Leased /\ "write" \in K!Leased /\ pc'[p] = "write"
    BY <1>2 DEF K!Leased, K!Goto
  <2>2. new' \in [Procs -> K!Records \cup {K!Nothing}] /\ new'[p] = n /\ \A q \in Procs : q # p => new'[q] = new[q]
    BY <1>2
  <2>3. ~marker.seen /\ holder = p
    BY <1>2, <2>1 DEF KPhase
  <2>4. KPhase(p)'
    BY <1>1, <1>2, <2>1, <2>2, <2>3 DEF KPhase, KWorks
  <2> QED BY <1>1, <1>2, <2>1, <2>2, <2>4, KGoto
<1>3. ASSUME K!Out(p) PROVE KInv'
  BY <1>1, <1>3, KOut
<1>4. CASE K!Lookup(p)
  <2>1. pc[p] = "lookup" /\ pc[p] \in K!Leased
    BY <1>4 DEF K!Lookup, K!Leased
  <2>2. CASE /\ keyring # K!Fresh
             /\ mem' = [mem EXCEPT ![p] = keyring]
             /\ K!Goto(p, "ready")
             /\ UNCHANGED <<holder, created, new>>
    <3>1. keyring \in K!Records
      BY <2>2 DEF KDisk, KFiles
    <3>2. /\ mem' \in [Procs -> K!Records \cup {K!Fresh, K!Nothing}] /\ mem'[p] = keyring
          /\ \A q \in Procs : q # p => mem'[q] = mem[q]
      BY <2>2, <3>1
    <3>3. pc'[p] = "ready" /\ "ready" \in K!Leased
      BY <2>2 DEF K!Goto, K!Leased
    <3>4. new[p] = K!Nothing /\ ~marker.seen /\ holder = p
      BY <2>1 DEF KPhase, KWorks
    <3>5. KPhase(p)'
      BY <1>1, <2>2, <3>1, <3>2, <3>3, <3>4 DEF KPhase, KWorks
    <3> QED BY <1>1, <2>1, <2>2, <3>2, <3>3, <3>5, KGoto
  <2>3. CASE /\ keyring = K!Fresh /\ created[p]
             /\ mem' = [mem EXCEPT ![p] = K!Fresh]
             /\ new' = [new EXCEPT ![p] = first]
             /\ K!Goto(p, "write")
             /\ UNCHANGED <<holder, created>>
    <3>1. /\ mem' \in [Procs -> K!Records \cup {K!Fresh, K!Nothing}] /\ mem'[p] = K!Fresh
          /\ \A q \in Procs : q # p => mem'[q] = mem[q]
      BY <2>3
    <3>2. Changes(K!Fresh, first, K!Fresh, first)
      BY DEF Changes
    <3> QED BY <1>2, <2>1, <2>3, <3>1, <3>2
  <2> QED BY <1>3, <1>4, <2>2, <2>3 DEF K!Lookup
<1>5. ASSUME NEW c \in Creds, K!Save(p, c) PROVE KInv'
  <2>1. pc[p] = "ready" /\ mem[p] = keyring /\ mem[p] \in K!Records
    BY <1>5 DEF K!Save, KPhase, KWorks
  <2> DEFINE n == [gen |-> mem[p].gen, cred |-> c]
  <2>2. n \in K!Records /\ Changes(mem[p], n, K!Fresh, first)
    BY <2>1 DEF K!Records, Changes
  <2>3. new' = [new EXCEPT ![p] = n] /\ K!Goto(p, "write") /\ UNCHANGED <<holder, created, mem>>
    BY <1>5 DEF K!Save
  <2> HIDE DEF n
  <2> QED BY <1>2, <2>1, <2>2, <2>3
<1>6. CASE K!Invalidate(p)
  <2>1. pc[p] = "ready" /\ mem[p] = keyring /\ mem[p] \in K!Records
    BY <1>6 DEF K!Invalidate, KPhase, KWorks
  <2> DEFINE n == [gen |-> mem[p].gen + 1, cred |-> NoCred]
  <2>2. CASE ~K!AtLimit(p)
    <3>1. mem[p].gen \in 0..MaxGen /\ mem[p].gen < MaxGen /\ mem[p].cred \in Creds \cup {NoCred} /\ MaxGen \in Nat
      BY <2>1, <2>2, StoresAssumption DEF K!AtLimit, K!Records
    <3>2. n \in K!Records /\ Changes(mem[p], n, K!Fresh, first)
      BY <3>1 DEF K!Records, Changes
    <3>3. new' = [new EXCEPT ![p] = n] /\ K!Goto(p, "write") /\ UNCHANGED <<holder, created, mem>>
      BY <1>6, <2>2 DEF K!Invalidate
    <3> HIDE DEF n
    <3> QED BY <1>2, <2>1, <3>2, <3>3
  <2>3. CASE K!AtLimit(p)
    BY <1>3, <1>6, <2>3 DEF K!Invalidate
  <2> QED BY <2>2, <2>3
<1> QED BY <1>4, <1>5, <1>6

\* The marker, the helper's write and the end of the marker.
LEMMA KWriting ==
  ASSUME KInv, NEW p \in Procs, K!BeginWrite(p) \/ K!Store(p) \/ K!Clear(p) \/ K!ClearSync(p)
  PROVE  KInv'
<1> USE KFacts
<1>1. CASE K!BeginWrite(p)
  <2>1. /\ pc[p] = "write" /\ K!Goto(p, "marked") /\ pc'[p] = "marked"
        /\ marker' = K!Mark /\ UNCHANGED <<lock, keyring, late, losses, holder, created, mem, new>>
    BY <1>1 DEF K!BeginWrite, K!Goto
  <2>2. pc[p] \in K!Leased /\ "marked" \in K!Leased
    BY <2>1 DEF K!Leased, K!Writing
  <2>3. ~marker.seen /\ late = {}
    BY <2>1 DEF KPhase, KWorks, KFiles
  <2>4. marker' \in [seen : BOOLEAN, disk : BOOLEAN] /\ marker'.seen /\ marker'.disk
    BY <2>1 DEF K!Mark
  <2>5. KDisk' /\ KFiles'
    BY <2>1, <2>3, <2>4 DEF KDisk, KFiles
  <2>6. KPhase(p)'
    BY <2>1, <2>2, <2>3, <2>4 DEF KPhase, KWorks
  <2> QED BY <2>1, <2>2, <2>5, <2>6, KGoto
<1>2. CASE K!Store(p)
  <2>1. /\ pc[p] = "marked" /\ K!Goto(p, "stored") /\ pc'[p] = "stored"
        /\ keyring' = new[p] /\ UNCHANGED <<lock, marker, late, losses, holder, created, mem, new>>
    BY <1>2 DEF K!Store, K!Goto
  <2>2. pc[p] \in K!Leased /\ "stored" \in K!Leased
    BY <2>1 DEF K!Leased, K!Writing
  <2>3. late = {} /\ new[p] \in K!Records
    BY <2>1 DEF KPhase, KWorks
  <2>4. KDisk' /\ KFiles'
    BY <2>1, <2>3 DEF KDisk, KFiles
  <2>5. KPhase(p)'
    BY <2>1, <2>2, <2>3 DEF KPhase, KWorks
  <2> QED BY <2>1, <2>2, <2>4, <2>5, KGoto
<1>3. CASE K!Clear(p)
  <2>1. /\ pc[p] = "stored" /\ K!Goto(p, "sync") /\ pc'[p] = "sync"
        /\ marker' = [marker EXCEPT !.seen = FALSE]
        /\ UNCHANGED <<lock, keyring, late, losses, holder, created, mem, new>>
    BY <1>3 DEF K!Clear, K!Goto
  <2>2. pc[p] \in K!Leased /\ "sync" \in K!Leased
    BY <2>1 DEF K!Leased, K!Writing
  <2>3. late = {}
    BY <2>1 DEF KPhase, KWorks
  <2>4. marker' \in [seen : BOOLEAN, disk : BOOLEAN] /\ ~marker'.seen
    BY <2>1 DEF KDisk
  <2>5. KDisk' /\ KFiles'
    BY <2>1, <2>3, <2>4 DEF KDisk, KFiles
  <2>6. KPhase(p)'
    BY <2>1, <2>2, <2>3, <2>4 DEF KPhase, KWorks
  <2> QED BY <2>1, <2>2, <2>5, <2>6, KGoto
<1>4. CASE K!ClearSync(p)
  <2>1. /\ pc[p] = "sync" /\ K!Goto(p, "ready") /\ pc'[p] = "ready"
        /\ marker' = [marker EXCEPT !.disk = FALSE]
        /\ mem' = [mem EXCEPT ![p] = new[p]] /\ new' = [new EXCEPT ![p] = K!Nothing]
        /\ UNCHANGED <<lock, keyring, late, losses, holder, created>>
    BY <1>4 DEF K!ClearSync, K!Goto
  <2>2. pc[p] \in K!Leased /\ "ready" \in K!Leased
    BY <2>1 DEF K!Leased, K!Writing
  <2>3. ~marker.seen /\ late = {} /\ new[p] = keyring /\ new[p] \in K!Records
    BY <2>1 DEF KPhase, KWorks, KFiles
  <2>4. marker' \in [seen : BOOLEAN, disk : BOOLEAN] /\ ~marker'.seen
    BY <2>1, <2>3 DEF KDisk
  <2>5. KDisk' /\ KFiles'
    BY <2>1, <2>3, <2>4 DEF KDisk, KFiles
  <2>6. /\ mem' \in [Procs -> K!Records \cup {K!Fresh, K!Nothing}] /\ mem'[p] = new[p]
        /\ new' \in [Procs -> K!Records \cup {K!Nothing}] /\ new'[p] = K!Nothing
        /\ \A q \in Procs : q # p => mem'[q] = mem[q] /\ new'[q] = new[q]
    BY <2>1, <2>3
  <2>7. KPhase(p)'
    BY <2>1, <2>2, <2>3, <2>4, <2>6 DEF KPhase, KWorks
  <2> QED BY <2>1, <2>2, <2>5, <2>6, <2>7, KGoto
<1> QED BY <1>1, <1>2, <1>3, <1>4

\* A write that fails, an open that is given up, a process that dies.
LEMMA KEnding ==
  ASSUME KInv, NEW p \in Procs,
         K!BeginWriteFails(p) \/ K!StoreFails(p) \/ K!ClearFails(p) \/ K!Leave(p) \/ K!Crash(p)
  PROVE  KInv'
<1> USE KFacts
<1>1. CASE K!BeginWriteFails(p)
  <2>1. pc[p] = "write" /\ K!Out(p) /\ UNCHANGED <<lock, keyring, late, losses>>
    BY <1>1 DEF K!BeginWriteFails
  <2>2. ~marker.seen /\ late = {} /\ pc[p] \in K!Leased
    BY <2>1 DEF KPhase, KWorks, KFiles, K!Leased
  <2>3. marker' \in [seen : BOOLEAN, disk : BOOLEAN]
    <3>1. /\ marker \in [seen : BOOLEAN, disk : BOOLEAN]
          /\ [seen |-> TRUE, disk |-> FALSE] \in [seen : BOOLEAN, disk : BOOLEAN]
          /\ [seen |-> TRUE, disk |-> TRUE] \in [seen : BOOLEAN, disk : BOOLEAN]
      BY DEF KDisk
    <3>2. marker' \in {marker, [seen |-> TRUE, disk |-> FALSE], [seen |-> TRUE, disk |-> TRUE]}
      BY <1>1 DEF K!BeginWriteFails
    <3> QED BY <3>1, <3>2, Zenon
  <2>4. KDisk' /\ KFiles'
    BY <2>1, <2>2, <2>3 DEF KDisk, KFiles
  <2> QED BY <2>1, <2>2, <2>4, KOut
<1>2. CASE K!StoreFails(p)
  <2>1. pc[p] = "marked" /\ K!Out(p) /\ UNCHANGED <<lock, losses, marker>>
    BY <1>2 DEF K!StoreFails, K!KeepMarker
  <2>2. /\ marker.seen /\ marker.disk /\ new[p] \in K!Records /\ pc[p] \in K!Leased
    BY <2>1 DEF KPhase, KWorks, K!Leased, K!Writing
  <2>3. keyring' \in K!Records \cup {K!Fresh} /\ late' \subseteq K!Records
    BY <1>2, <2>2 DEF K!StoreFails, KDisk
  <2>4. KDisk' /\ KFiles'
    BY <2>1, <2>2, <2>3 DEF KDisk, KFiles
  <2> QED BY <2>1, <2>2, <2>4, KOut
<1>3. CASE K!ClearFails(p)
  <2>1. pc[p] \in {"stored", "sync"} /\ K!Out(p) /\ UNCHANGED <<lock, keyring, late, losses>>
    BY <1>3 DEF K!ClearFails
  <2>2. late = {} /\ pc[p] \in K!Leased
    BY <2>1 DEF KPhase, KWorks, KFiles, K!Leased, K!Writing
  <2>3. marker' \in [seen : BOOLEAN, disk : BOOLEAN]
    <3>1. /\ marker \in [seen : BOOLEAN, disk : BOOLEAN]
          /\ [marker EXCEPT !.seen = TRUE] \in [seen : BOOLEAN, disk : BOOLEAN]
          /\ K!Mark \in [seen : BOOLEAN, disk : BOOLEAN]
      BY DEF KDisk, K!Mark
    <3>2. marker' \in {marker, [marker EXCEPT !.seen = TRUE], K!Mark}
      BY <1>3 DEF K!ClearFails
    <3> QED BY <3>1, <3>2, Zenon
  <2>4. KDisk' /\ KFiles'
    BY <2>1, <2>2, <2>3 DEF KDisk, KFiles
  <2> QED BY <2>1, <2>2, <2>4, KOut
<1>4. CASE K!Leave(p)
  BY <1>4, KDiskKept, KOut DEF K!Leave
<1>5. CASE K!Crash(p)
  <2>1. K!Out(p) /\ UNCHANGED <<lock, marker, keyring, losses>>
    BY <1>5 DEF K!Crash
  <2>2. CASE pc[p] = "marked"
    <3>1. marker.seen /\ marker.disk /\ new[p] \in K!Records /\ pc[p] \in K!Leased
      BY <2>2 DEF KPhase, KWorks, K!Leased, K!Writing
    <3>2. late' \subseteq K!Records
      BY <1>5, <2>2, <3>1 DEF K!Crash, KDisk
    <3>3. KDisk' /\ KFiles'
      BY <2>1, <3>1, <3>2 DEF KDisk, KFiles
    <3> QED BY <2>1, <3>1, <3>3, KOut
  <2>3. CASE pc[p] # "marked"
    <3>1. late' = late
      BY <1>5, <2>3 DEF K!Crash
    <3> QED BY <2>1, <3>1, KOut, KDiskKept DEF K!disk
  <2> QED BY <2>2, <2>3
<1> QED BY <1>1, <1>2, <1>3, <1>4, <1>5

\* Late writes, the kernel's own write-back and a loss of power.
LEMMA KWorld ==
  ASSUME KInv, (\E r \in late : K!LateWrite(r)) \/ K!WriteBack \/ K!PowerLoss
  PROVE  KInv'
<1> USE KFacts
<1>1. ASSUME NEW r \in late, K!LateWrite(r) PROVE KInv'
  <2>1. /\ late' = late \ {r} /\ keyring' \in {keyring, r}
        /\ UNCHANGED <<lock, marker, holder, pc, created, mem, new, losses>>
    BY <1>1 DEF K!LateWrite
  <2>2. marker.seen /\ marker.disk
    BY DEF KFiles
  <2>3. K!TypeOK' /\ KFiles'
    BY <2>1, <2>2 DEF K!TypeOK, KDisk, KFiles
  <2>4. ASSUME NEW q \in Procs PROVE KPhase(q)'
    <3>1. pc[q] \notin KWorks
      <4>1. KPhase(q) /\ late # {}
        OBVIOUS
      <4> QED BY <2>2, <4>1 DEF KPhase, KWorks
    <3> QED BY <2>1, <3>1 DEF KPhase, KWorks
  <2> QED BY <2>3, <2>4 DEF KInv
<1>2. CASE K!WriteBack
  <2>1. UNCHANGED <<holder, keyring, late, pc, created, mem, new, losses>>
    BY <1>2 DEF K!WriteBack
  <2>2. /\ lock' \in [there : BOOLEAN, durable : BOOLEAN] /\ (lock.durable => lock'.durable)
        /\ marker' \in [seen : BOOLEAN, disk : BOOLEAN] /\ marker'.seen = marker.seen
        /\ marker.seen /\ marker.disk => marker'.disk
        /\ marker'.disk => marker.seen \/ marker.disk
    BY <1>2 DEF K!WriteBack, KDisk
  <2>3. K!TypeOK' /\ KFiles'
    BY <2>1, <2>2 DEF K!TypeOK, KDisk, KFiles
  <2>4. ASSUME NEW q \in Procs PROVE KPhase(q)'
    BY <2>1, <2>2 DEF KPhase
  <2> QED BY <2>3, <2>4 DEF KInv
<1>3. CASE K!PowerLoss
  <2>1. /\ holder' = NoProc /\ late' = {} /\ created' = created
        /\ pc' = [p \in Procs |-> "out"]
        /\ mem' = [p \in Procs |-> K!Nothing] /\ new' = [p \in Procs |-> K!Nothing]
    BY <1>3 DEF K!PowerLoss
  <2>2. /\ lock' \in [there : BOOLEAN, durable : BOOLEAN] /\ lock'.durable = lock.durable
        /\ marker' \in [seen : BOOLEAN, disk : BOOLEAN]
        /\ marker'.seen \/ marker'.disk => lock.durable
    BY <1>3 DEF K!PowerLoss, KDisk
  <2>3. losses' \in 0..MaxLosses
    BY <1>3, StoresAssumption DEF K!PowerLoss, KDisk
  <2>4. keyring' \in K!Records \cup {K!Fresh}
    <3>1. \A q \in Procs : pc[q] = "marked" => new[q] \in K!Records
      BY DEF KPhase, KWorks
    <3> QED BY <1>3, <3>1 DEF K!PowerLoss, KDisk, KFiles
  <2>5. K!TypeOK' /\ KFiles'
    BY <2>1, <2>2, <2>3, <2>4 DEF K!TypeOK, KFiles
  <2>6. ASSUME NEW q \in Procs PROVE KPhase(q)'
    BY <2>1 DEF KPhase, KWorks, K!Leased, K!Writing
  <2> QED BY <2>5, <2>6 DEF KInv
<1> QED BY <1>1, <1>2, <1>3

\* Every step of the keyring adapter keeps its invariant.
LEMMA KStep == KInv /\ [K!Next]_K!vars => KInv'
<1> SUFFICES ASSUME KInv, [K!Next]_K!vars PROVE KInv'
  OBVIOUS
<1>1. ASSUME NEW p \in Procs, K!Steps(p) PROVE KInv'
  BY <1>1, KOpening, KPreparing, KWriting, KEnding DEF K!Steps
<1>2. ASSUME NEW p \in Procs, NEW c \in Creds, K!Save(p, c) PROVE KInv'
  BY <1>2, KPreparing
<1>3. CASE (\E r \in late : K!LateWrite(r)) \/ K!WriteBack \/ K!PowerLoss
  BY <1>3, KWorld
<1>4. CASE UNCHANGED K!vars
  <2>1. UNCHANGED <<lock, marker, holder, keyring, late, pc, created, mem, new, losses>>
    BY <1>4 DEF K!vars
  <2> QED BY <2>1 DEF KInv, K!TypeOK, KFiles, KPhase
<1> QED BY <1>1, <1>2, <1>3, <1>4 DEF K!Next

\* Nobody is there.
LEMMA KStart == K!Init => KInv
<1> SUFFICES ASSUME K!Init PROVE KInv
  OBVIOUS
<1>1. keyring \in K!Records \cup {K!Fresh}
  BY DEF K!Init, K!Records
<1> QED BY <1>1, StoresAssumption DEF K!Init, KInv, K!TypeOK, KFiles, KPhase, KWorks, K!Leased, K!Writing

\* As long as the lock file is not on disk, nothing is, and nobody gets further
\* than the flock but its creator, who synchronises it.
LEMMA KDurableStep ==
  ASSUME KInv, KDurable, [K!Next]_K!vars
  PROVE  KDurable'
<1> USE KFacts
<1>1. lock.durable => lock'.durable
  <2>1. UNCHANGED K!vars => lock' = lock
    BY DEF K!vars
  <2>2. K!disk' = K!disk => lock' = lock
    BY DEF K!disk
  <2> QED BY <2>1, <2>2 DEF K!Next, K!Steps, KDisk, K!OpenLock, K!TakeLease, K!VerifyLease, K!SyncLock, K!Lookup,
        K!Save, K!Invalidate, K!BeginWrite, K!BeginWriteFails, K!Store, K!StoreFails, K!Clear, K!ClearSync,
        K!ClearFails, K!Leave, K!Crash, K!LateWrite, K!WriteBack, K!PowerLoss
<1>2. CASE lock'.durable
  BY <1>2 DEF KDurable
<1>3. CASE ~lock'.durable
  <2>1. /\ ~lock.durable /\ ~marker.seen /\ ~marker.disk /\ late = {} /\ keyring = K!Fresh
        /\ \A q \in Procs : pc[q] \notin KWorks /\ ~(pc[q] = "lookup" /\ created[q])
    BY <1>1, <1>3 DEF KDurable
  <2>2. ASSUME ~marker'.seen, ~marker'.disk, late' = {}, keyring' = K!Fresh,
               \A q \in Procs : pc'[q] \notin KWorks /\ ~(pc'[q] = "lookup" /\ created'[q])
        PROVE  KDurable'
    BY <2>2 DEF KDurable
  <2>3. ASSUME NEW p \in Procs, K!Out(p), UNCHANGED <<marker, keyring, late>>
        PROVE  KDurable'
    <3>1. /\ pc'[p] = "out" /\ created' = created
          /\ \A q \in Procs : q # p => pc'[q] = pc[q]
      BY <2>3 DEF K!Out
    <3>2. \A q \in Procs : pc'[q] \notin KWorks /\ ~(pc'[q] = "lookup" /\ created'[q])
      BY <2>1, <3>1 DEF KWorks
    <3> QED BY <2>1, <2>2, <2>3, <3>2
  <2>4. ASSUME NEW p \in Procs, NEW l \in {"opened", "verify", "syncLock", "lookup"}, K!Goto(p, l),
               UNCHANGED <<marker, keyring, late>>, l = "lookup" => ~created'[p],
               \A q \in Procs : q # p => created'[q] = created[q]
        PROVE  KDurable'
    <3>1. pc'[p] = l /\ \A q \in Procs : q # p => pc'[q] = pc[q]
      BY <2>4 DEF K!Goto
    <3>2. \A q \in Procs : pc'[q] \notin KWorks /\ ~(pc'[q] = "lookup" /\ created'[q])
      BY <2>1, <2>4, <3>1 DEF KWorks
    <3> QED BY <2>1, <2>2, <2>4, <3>2
  <2>5. UNCHANGED K!disk => UNCHANGED <<marker, keyring, late>>
    BY DEF K!disk
  <2>6. ASSUME NEW p \in Procs, K!Steps(p) PROVE KDurable'
    <3>1. CASE K!OpenLock(p)
      BY <2>4, <3>1 DEF K!OpenLock
    <3>2. CASE K!TakeLease(p)
      BY <2>3, <2>4, <2>5, <3>2 DEF K!TakeLease
    <3>3. CASE K!VerifyLease(p)
      BY <2>3, <2>4, <2>5, <3>3 DEF K!VerifyLease
    <3>4. CASE K!SyncLock(p)
      BY <1>3, <3>4 DEF K!SyncLock, KDisk
    <3>5. CASE K!Lookup(p)
      BY <2>1, <2>3, <2>5, <3>5 DEF K!Lookup
    <3>6. CASE K!Leave(p)
      BY <2>3, <2>5, <3>6 DEF K!Leave
    <3>7. CASE K!Crash(p)
      <4>1. pc[p] # "marked"
        BY <2>1 DEF KWorks
      <4> QED BY <2>3, <3>7, <4>1 DEF K!Crash
    <3>8. pc[p] \notin {"ready", "write", "marked", "stored", "sync"}
      BY <2>1 DEF KWorks
    <3> QED BY <2>6, <3>1, <3>2, <3>3, <3>4, <3>5, <3>6, <3>7, <3>8 DEF K!Steps, K!Invalidate, K!BeginWrite,
          K!BeginWriteFails, K!Store, K!StoreFails, K!Clear, K!ClearSync, K!ClearFails
  <2>7. ASSUME NEW p \in Procs, NEW c \in Creds, K!Save(p, c) PROVE KDurable'
    BY <2>1, <2>7 DEF K!Save, KWorks
  <2>8. CASE K!WriteBack
    <3>1. UNCHANGED <<marker, keyring, late, pc, created>>
      BY <1>3, <2>1, <2>8 DEF K!WriteBack, KDisk
    <3> QED BY <2>1, <2>2, <3>1
  <2>9. CASE K!PowerLoss
    <3>1. {q \in Procs : pc[q] = "marked"} = {}
      BY <2>1 DEF KWorks
    <3>2. /\ ~marker'.seen /\ ~marker'.disk /\ late' = {} /\ keyring' = K!Fresh
          /\ pc' = [p \in Procs |-> "out"]
      BY <2>1, <2>9, <3>1 DEF K!PowerLoss
    <3> QED BY <2>2, <3>2 DEF KWorks
  <2>10. CASE UNCHANGED K!vars
    <3>1. UNCHANGED <<marker, keyring, late, pc, created>>
      BY <2>10 DEF K!vars
    <3> QED BY <2>1, <2>2, <3>1
  <2> QED BY <2>1, <2>6, <2>7, <2>8, <2>9, <2>10 DEF K!Next
<1> QED BY <1>2, <1>3

(***************************************************************************)
(* The steps of CredentialStore, between two states of a store and its     *)
(* views                                                                   *)
(***************************************************************************)

Leaves(s, v, t, w) ==
  /\ t \in {s, Storage!Fenced}
  /\ \/ \E p \in Procs : w = [v EXCEPT ![p] = Storage!Nothing]
     \/ w = [p \in Procs |-> Storage!Nothing]

Opens(s, v, t, w) ==
  /\ \A q \in Procs : v[q] = Storage!Nothing
  /\ s # Storage!Fenced
  /\ t = IF s = Storage!Fresh THEN Storage!First ELSE s
  /\ \E p \in Procs : w = [v EXCEPT ![p] = t]

Alters(v, t, w) ==
  \E p \in Procs :
    /\ v[p] # Storage!Nothing
    /\ w = [v EXCEPT ![p] = t]
    /\ \/ \E c \in Creds : t = [gen |-> v[p].gen, cred |-> c]
       \/ v[p].gen < MaxGen /\ t = [gen |-> v[p].gen + 1, cred |-> NoCred]

StoreStep(s, v, t, w) ==
  (t = s /\ w = v) \/ Leaves(s, v, t, w) \/ Opens(s, v, t, w) \/ Alters(v, t, w)

\* These are the steps of CredentialStore, of the store and the views shown.
LEMMA StoreSteps ==
  ASSUME StoreStep(Shown, Views, Shown', Views')
  PROVE  [Storage!Next]_Storage!vars
<1>1. CASE Shown' = Shown /\ Views' = Views
  BY <1>1 DEF Storage!vars
<1>2. CASE Leaves(Shown, Views, Shown', Views')
  BY <1>2 DEF Leaves, Storage!Next, Storage!Leave, Storage!LeaveAll
<1>3. CASE Opens(Shown, Views, Shown', Views')
  BY <1>3 DEF Opens, Storage!Next, Storage!Open
<1>4. CASE Alters(Views, Shown', Views')
  BY <1>4 DEF Alters, Storage!Next, Storage!Save, Storage!Invalidate, Storage!Write
<1> QED BY <1>1, <1>2, <1>3, <1>4 DEF StoreStep

(***************************************************************************)
(* The keyring implements CredentialStore                                  *)
(***************************************************************************)

\* What the keyring adapter shows of a process.
KView(p) == IF pc[p] = "sync" THEN new[p]
            ELSE IF mem[p] = K!Fresh THEN K!Nothing ELSE mem[p]

\* The marker fences the store when it is on disk as well.
KMarked == marker.seen /\ marker.disk

\* What shows when no process is inside a write.
KRest == IF KMarked THEN Storage!Fenced ELSE keyring

\* What shows depends on whether the holder is inside a write.
LEMMA KShows ==
  ASSUME KInv
  PROVE  /\ marker = K!Mark <=> KMarked
         /\ \A p \in Procs : pc[p] \in K!Writing => K!Shown = mem[p]
         /\ (\A p \in Procs : pc[p] \notin K!Writing) => K!Shown = KRest
         /\ \A p \in Procs : holder = p /\ pc[p] \notin K!Writing => K!Shown = KRest
         /\ holder = NoProc => K!Shown = KRest
<1> USE KFacts
<1>1. marker = K!Mark <=> KMarked
  BY DEF KDisk, K!Mark, KMarked
<1>2. \A p \in Procs : pc[p] \in K!Writing => holder = p
  BY DEF KPhase, K!Leased
<1> QED BY <1>1, <1>2 DEF K!Shown, K!Fenced, Storage!Fenced, KRest

\* The views change where the process that moves is.
LEMMA KViewsChange ==
  ASSUME NEW p \in Procs,
         \A q \in Procs : q # p => pc'[q] = pc[q] /\ mem'[q] = mem[q] /\ new'[q] = new[q]
  PROVE  /\ K!Views' = [K!Views EXCEPT ![p] = KView(p)']
         /\ KView(p)' = KView(p) => K!Views' = K!Views
BY DEF K!Views, KView

\* Nobody else has a view while a process holds the lease.
LEMMA KAlone ==
  ASSUME KInv, NEW p \in Procs, holder = p, KView(p) = K!Nothing
  PROVE  \A q \in Procs : K!Views[q] = Storage!Nothing
<1>1. ASSUME NEW q \in Procs, q # p PROVE KView(q) = K!Nothing
  <2>1. pc[q] \notin K!Leased /\ KPhase(q)
    BY <1>1, KFacts DEF KPhase
  <2> QED BY <2>1, KFacts DEF KPhase, KWorks, K!Leased, K!Writing, KView
<1> QED BY <1>1 DEF K!Views, KView, K!Nothing, Storage!Nothing

\* A process leaves: its view goes, and a write that it had begun is fenced.
LEMMA KOutShows ==
  ASSUME KInv, KInv', NEW p \in Procs, K!Out(p),
         pc[p] \notin K!Leased => UNCHANGED <<marker, keyring>>,
         pc[p] \in K!Writing => KMarked',
         pc[p] \notin K!Writing => keyring' = keyring /\ (KMarked => KMarked')
  PROVE  StoreStep(K!Shown, K!Views, K!Shown', K!Views')
<1> USE KFacts
<1>1. /\ pc'[p] = "out" /\ mem'[p] = K!Nothing /\ new'[p] = K!Nothing
      /\ \A q \in Procs : q # p => pc'[q] = pc[q] /\ mem'[q] = mem[q] /\ new'[q] = new[q]
      /\ holder' = IF holder = p THEN NoProc ELSE holder
  BY DEF K!Out
<1>2. K!Views' = [K!Views EXCEPT ![p] = Storage!Nothing]
  <2>1. KView(p)' = Storage!Nothing
    BY <1>1 DEF KView, K!Nothing, Storage!Nothing
  <2> QED BY <1>1, <2>1, KViewsChange
<1>3. K!Shown' \in {K!Shown, Storage!Fenced}
  <2>1. CASE pc[p] \notin K!Leased
    <3>1. holder # p /\ holder' = holder /\ marker' = marker /\ keyring' = keyring
      BY <1>1, <2>1 DEF KPhase
    <3>2. holder # NoProc => holder \in Procs /\ pc'[holder] = pc[holder] /\ mem'[holder] = mem[holder]
      BY <1>1, <3>1
    <3> QED BY <3>1, <3>2 DEF K!Shown, K!Mark
  <2>2. CASE pc[p] \in K!Leased
    <3>1. holder = p /\ holder' = NoProc
      BY <1>1, <2>2 DEF KPhase
    <3>2. K!Shown' = KRest'
      BY <3>1 DEF K!Shown, KRest, K!Fenced, Storage!Fenced, K!Mark, KMarked, KInv, K!TypeOK
    <3>3. pc[p] \notin K!Writing => K!Shown = KRest
      BY <3>1, KShows
    <3> QED BY <3>2, <3>3 DEF KRest
  <2> QED BY <2>1, <2>2
<1> QED BY <1>2, <1>3 DEF StoreStep, Leaves

\* The holder goes from one phase to another.
LEMMA KGotoShows ==
  ASSUME KInv, KInv', NEW p \in Procs, pc[p] \in K!Leased, holder' = p,
         \A q \in Procs : q # p => pc'[q] = pc[q] /\ mem'[q] = mem[q] /\ new'[q] = new[q]
  PROVE  /\ K!Shown = IF pc[p] \in K!Writing THEN mem[p] ELSE KRest
         /\ K!Shown' = IF pc'[p] \in K!Writing THEN mem'[p] ELSE KRest'
         /\ K!Views' = [K!Views EXCEPT ![p] = KView(p)']
         /\ K!Views[p] = KView(p)
         /\ KView(p)' = KView(p) => K!Views' = K!Views
         /\ KView(p) = K!Nothing => \A q \in Procs : K!Views[q] = Storage!Nothing
<1>1. holder = p /\ NoProc \notin Procs
  BY KFacts DEF KPhase
<1>2. K!Shown = IF pc[p] \in K!Writing THEN mem[p] ELSE KRest
  BY <1>1, KShows
<1>3. K!Shown' = IF pc'[p] \in K!Writing THEN mem'[p] ELSE KRest'
  BY <1>1 DEF K!Shown, KRest, K!Fenced, Storage!Fenced, K!Mark, KMarked, KInv, K!TypeOK
<1>4. K!Views[p] = KView(p)
  BY DEF K!Views, KView
<1> QED BY <1>1, <1>2, <1>3, <1>4, KViewsChange, KAlone

\* Opening: nothing shows but what the keyring holds.
LEMMA KOpeningShows ==
  ASSUME KInv, KInv', NEW p \in Procs,
         K!OpenLock(p) \/ K!TakeLease(p) \/ K!VerifyLease(p) \/ K!SyncLock(p)
  PROVE  StoreStep(K!Shown, K!Views, K!Shown', K!Views')
<1> USE KFacts
<1>1. CASE K!OpenLock(p)
  <2>1. /\ pc[p] = "out" /\ pc'[p] = "opened" /\ UNCHANGED <<marker, holder, keyring, mem, new>>
        /\ \A q \in Procs : q # p => pc'[q] = pc[q]
    BY <1>1 DEF K!OpenLock, K!Goto
  <2>2. K!Views' = K!Views
    BY <2>1 DEF K!Views
  <2>3. K!Shown' = K!Shown
    BY <2>1 DEF K!Shown, K!Writing, K!Mark
  <2> QED BY <2>2, <2>3 DEF StoreStep
<1>2. CASE K!TakeLease(p)
  <2>1. pc[p] = "opened" /\ UNCHANGED <<lock, marker, keyring, late, losses>>
    BY <1>2, KDiskKept DEF K!TakeLease
  <2>2. CASE holder = NoProc
    <3>1. /\ holder' = p /\ pc'[p] = "verify" /\ UNCHANGED <<mem, new>>
          /\ \A q \in Procs : q # p => pc'[q] = pc[q]
      BY <1>2, <2>2 DEF K!TakeLease, K!Goto
    <3>2. K!Views' = K!Views
      BY <2>1, <3>1 DEF K!Views
    <3>3. K!Shown' = K!Shown
      BY <2>1, <2>2, <3>1 DEF K!Shown, K!Writing, K!Mark
    <3> QED BY <3>2, <3>3 DEF StoreStep
  <2>3. CASE holder # NoProc
    BY <1>2, <2>1, <2>3, KOutShows DEF K!TakeLease, KMarked, K!Writing
  <2> QED BY <2>2, <2>3
<1>3. CASE K!VerifyLease(p)
  <2>1. pc[p] = "verify" /\ UNCHANGED <<lock, marker, keyring, late, losses>>
    BY <1>3, KDiskKept DEF K!VerifyLease
  <2>2. pc[p] \in K!Leased /\ pc[p] \notin K!Writing
    BY <2>1 DEF K!Leased, K!Writing
  <2>3. CASE K!MarkerClear
    <3>1. /\ pc'[p] \in {"syncLock", "lookup"} /\ UNCHANGED <<holder, mem, new>>
          /\ \A q \in Procs : q # p => pc'[q] = pc[q]
      BY <1>3, <2>3 DEF K!VerifyLease, K!Goto
    <3>2. pc'[p] \notin K!Writing /\ holder' = p /\ KView(p)' = KView(p) /\ KRest' = KRest
      BY <2>1, <2>2, <3>1 DEF K!Writing, KView, KRest, KMarked, KPhase
    <3> QED BY <2>2, <3>1, <3>2, KGotoShows DEF StoreStep
  <2>4. CASE ~K!MarkerClear
    BY <1>3, <2>1, <2>2, <2>4, KOutShows DEF K!VerifyLease, KMarked
  <2> QED BY <2>3, <2>4
<1>4. CASE K!SyncLock(p)
  <2>1. /\ pc[p] = "syncLock" /\ pc'[p] = "lookup" /\ UNCHANGED <<holder, keyring, mem, new>>
        /\ \A q \in Procs : q # p => pc'[q] = pc[q]
    BY <1>4 DEF K!SyncLock, K!Goto
  <2>2. ~marker.seen /\ ~marker'.seen
    BY <1>4, <2>1 DEF K!SyncLock, KPhase, KDisk
  <2>3. pc[p] \in K!Leased /\ pc[p] \notin K!Writing /\ pc'[p] \notin K!Writing
    BY <2>1 DEF K!Leased, K!Writing
  <2>4. holder' = p /\ KView(p)' = KView(p) /\ KRest' = KRest
    BY <2>1, <2>2, <2>3 DEF KView, KRest, KMarked, KPhase
  <2> QED BY <2>1, <2>3, <2>4, KGotoShows DEF StoreStep
<1> QED BY <1>1, <1>2, <1>3, <1>4

\* A record that is looked up opens the store; one that is prepared does not
\* show.
LEMMA KPreparingShows ==
  ASSUME KInv, KInv', NEW p \in Procs,
         K!Lookup(p) \/ (\E c \in Creds : K!Save(p, c)) \/ K!Invalidate(p)
  PROVE  StoreStep(K!Shown, K!Views, K!Shown', K!Views')
<1> USE KFacts
<1>1. pc[p] \in {"lookup", "ready"} /\ UNCHANGED <<lock, marker, keyring, late, losses>>
  BY KDiskKept DEF K!Lookup, K!Save, K!Invalidate
<1>2. pc[p] \in K!Leased /\ pc[p] \notin K!Writing
  BY <1>1 DEF K!Leased, K!Writing
<1>3. holder = p /\ ~marker.seen
  BY <1>1, <1>2 DEF KPhase
<1>4. CASE K!Out(p)
  BY <1>1, <1>2, <1>4, KOutShows DEF KMarked
<1>5. CASE /\ pc'[p] = "write" /\ UNCHANGED holder
           /\ \A q \in Procs : q # p => pc'[q] = pc[q] /\ mem'[q] = mem[q] /\ new'[q] = new[q]
           /\ mem' = mem \/ (mem[p] = K!Nothing /\ mem'[p] = K!Fresh)
  <2>1. pc'[p] \notin K!Writing /\ holder' = p /\ KView(p)' = KView(p) /\ KRest' = KRest
    BY <1>1, <1>3, <1>5 DEF K!Writing, KView, KRest, KMarked
  <2> QED BY <1>2, <1>5, <2>1, KGotoShows DEF StoreStep
<1>6. CASE /\ pc[p] = "lookup" /\ keyring # K!Fresh /\ mem' = [mem EXCEPT ![p] = keyring]
           /\ K!Goto(p, "ready") /\ UNCHANGED <<holder, new>>
  <2>1. /\ pc'[p] = "ready" /\ mem'[p] = keyring /\ holder' = p
        /\ \A q \in Procs : q # p => pc'[q] = pc[q] /\ mem'[q] = mem[q] /\ new'[q] = new[q]
    BY <1>3, <1>6 DEF K!Goto
  <2>2. mem[p] = K!Nothing
    BY <1>6 DEF KPhase, KWorks
  <2>3. KView(p) = K!Nothing /\ KView(p)' = keyring
    BY <1>1, <1>6, <2>1, <2>2 DEF KView
  <2>4. KRest = keyring /\ KRest' = keyring /\ pc'[p] \notin K!Writing
    BY <1>1, <1>3, <2>1 DEF KRest, KMarked, K!Writing
  <2>5. keyring # Storage!Fenced /\ keyring # Storage!Fresh
    BY <1>6, StoresAssumption DEF KDisk, K!Records, K!Fresh, Storage!Fenced, Storage!Fresh
  <2>6. /\ K!Shown = keyring /\ K!Shown' = keyring
        /\ K!Views' = [K!Views EXCEPT ![p] = keyring]
        /\ \A q \in Procs : K!Views[q] = Storage!Nothing
    BY <1>2, <2>1, <2>3, <2>4, KGotoShows
  <2> QED BY <2>5, <2>6 DEF StoreStep, Opens
<1>7. CASE K!Lookup(p)
  BY <1>4, <1>5, <1>6, <1>7 DEF K!Lookup, K!Goto, KPhase, KWorks
<1>8. ASSUME NEW c \in Creds, K!Save(p, c) PROVE StoreStep(K!Shown, K!Views, K!Shown', K!Views')
  BY <1>5, <1>8 DEF K!Save, K!Goto
<1>9. CASE K!Invalidate(p)
  BY <1>4, <1>5, <1>9 DEF K!Invalidate, K!Goto
<1> QED BY <1>7, <1>8, <1>9

\* A record shows when its marker is cleared, to everyone at once.
LEMMA KWritingShows ==
  ASSUME KInv, KInv', NEW p \in Procs, K!BeginWrite(p) \/ K!Store(p) \/ K!Clear(p) \/ K!ClearSync(p)
  PROVE  StoreStep(K!Shown, K!Views, K!Shown', K!Views')
<1> USE KFacts
<1>1. CASE K!BeginWrite(p) \/ K!Store(p)
  <2>1. /\ pc[p] \in {"write", "marked"} /\ pc'[p] \in {"marked", "stored"} /\ UNCHANGED <<holder, mem, new>>
        /\ \A q \in Procs : q # p => pc'[q] = pc[q]
    BY <1>1 DEF K!BeginWrite, K!Store, K!Goto
  <2>2. pc[p] \in K!Leased /\ pc'[p] \in K!Writing /\ (pc[p] \in K!Writing <=> pc[p] = "marked")
    BY <2>1 DEF K!Leased, K!Writing
  <2>3. holder' = p /\ mem[p] = keyring /\ (pc[p] = "write" => ~marker.seen)
    BY <2>1, <2>2 DEF KPhase
  <2>4. KView(p)' = KView(p)
    BY <2>1 DEF KView
  <2>5. pc[p] = "write" => KRest = mem[p]
    BY <2>3 DEF KRest, KMarked
  <2> QED BY <2>1, <2>2, <2>3, <2>4, <2>5, KGotoShows DEF StoreStep
<1>2. CASE K!Clear(p)
  <2>1. /\ pc[p] = "stored" /\ pc'[p] = "sync" /\ UNCHANGED <<keyring, holder, mem, new>>
        /\ \A q \in Procs : q # p => pc'[q] = pc[q]
    BY <1>2 DEF K!Clear, K!Goto
  <2>2. pc[p] \in K!Leased /\ pc[p] \in K!Writing /\ pc'[p] \notin K!Writing
    BY <2>1 DEF K!Leased, K!Writing
  <2>3. /\ holder' = p /\ new[p] = keyring
        /\ Changes(mem[p], new[p], K!Fresh, [gen |-> 0, cred |-> NoCred])
    BY <2>1, <2>2 DEF KPhase
  <2>4. ~marker'.seen
    BY <1>2 DEF K!Clear, KDisk
  <2>5. KRest' = new[p] /\ KView(p)' = new[p]
    BY <2>1, <2>3, <2>4 DEF KRest, KMarked, KView
  <2>6. /\ K!Shown = mem[p] /\ K!Shown' = new[p]
        /\ K!Views' = [K!Views EXCEPT ![p] = new[p]] /\ K!Views[p] = KView(p)
        /\ KView(p) = K!Nothing => \A q \in Procs : K!Views[q] = Storage!Nothing
    BY <2>1, <2>2, <2>3, <2>5, KGotoShows
  <2>7. CASE mem[p] = K!Fresh
    <3>1. KView(p) = K!Nothing
      BY <2>1, <2>7 DEF KView
    <3>2. new[p] = Storage!First
      BY <2>3, <2>7, StoresAssumption DEF Changes, K!Fresh, Storage!First
    <3>3. mem[p] = Storage!Fresh /\ mem[p] # Storage!Fenced
      BY <2>7 DEF K!Fresh, Storage!Fresh, Storage!Fenced
    <3> QED BY <2>6, <3>1, <3>2, <3>3 DEF StoreStep, Opens
  <2>8. CASE mem[p] # K!Fresh
    <3>1. /\ mem[p].gen \in 0..MaxGen /\ mem[p].cred \in Creds \cup {NoCred}
          /\ \/ new[p].gen = mem[p].gen /\ new[p].cred \in Creds
             \/ mem[p].gen < MaxGen /\ new[p].gen = mem[p].gen + 1 /\ new[p].cred = NoCred
      BY <2>3, <2>8 DEF Changes
    <3>2. K!Views[p] = mem[p] /\ mem[p] # Storage!Nothing
      BY <2>1, <2>6, <2>8, <3>1, StoresAssumption DEF KView, Storage!Nothing
    <3>3. new[p] = [gen |-> new[p].gen, cred |-> new[p].cred]
      <4>1. new[p] \in K!Records
        BY <2>1 DEF KPhase
      <4> QED BY <4>1 DEF K!Records
    <3>4. \/ \E c \in Creds : new[p] = [gen |-> K!Views[p].gen, cred |-> c]
          \/ K!Views[p].gen < MaxGen /\ new[p] = [gen |-> K!Views[p].gen + 1, cred |-> NoCred]
      BY <3>1, <3>2, <3>3
    <3> QED BY <2>6, <3>2, <3>4 DEF StoreStep, Alters
  <2> QED BY <2>7, <2>8
<1>3. CASE K!ClearSync(p)
  <2>1. /\ pc[p] = "sync" /\ pc'[p] = "ready" /\ UNCHANGED <<keyring, holder>>
        /\ mem'[p] = new[p]
        /\ \A q \in Procs : q # p => pc'[q] = pc[q] /\ mem'[q] = mem[q] /\ new'[q] = new[q]
    BY <1>3 DEF K!ClearSync, K!Goto
  <2>2. pc[p] \in K!Leased /\ pc[p] \notin K!Writing /\ pc'[p] \notin K!Writing
    BY <2>1 DEF K!Leased, K!Writing
  <2>3. holder' = p /\ new[p] \in K!Records /\ ~marker.seen
    BY <2>1, <2>2 DEF KPhase
  <2>4. ~marker'.seen
    BY <1>3, <2>3 DEF K!ClearSync, KDisk
  <2>5. KView(p)' = KView(p) /\ KRest' = KRest
    BY <2>1, <2>3, <2>4 DEF KView, KRest, KMarked
  <2> QED BY <2>1, <2>2, <2>3, <2>5, KGotoShows DEF StoreStep
<1> QED BY <1>1, <1>2, <1>3

\* A write that fails behind its marker fences the store; any other end leaves
\* it as it was.
LEMMA KEndingShows ==
  ASSUME KInv, KInv', NEW p \in Procs,
         K!BeginWriteFails(p) \/ K!StoreFails(p) \/ K!ClearFails(p) \/ K!Leave(p) \/ K!Crash(p)
  PROVE  StoreStep(K!Shown, K!Views, K!Shown', K!Views')
<1> USE KFacts
<1>1. CASE K!BeginWriteFails(p)
  <2>1. pc[p] = "write" /\ K!Out(p) /\ keyring' = keyring
    BY <1>1 DEF K!BeginWriteFails
  <2>2. ~marker.seen /\ pc[p] \in K!Leased /\ pc[p] \notin K!Writing
    BY <2>1 DEF KPhase, K!Leased, K!Writing
  <2> QED BY <2>1, <2>2, KOutShows DEF KMarked
<1>2. CASE K!StoreFails(p)
  <2>1. pc[p] = "marked" /\ K!Out(p) /\ marker' = marker
    BY <1>2 DEF K!StoreFails, K!KeepMarker
  <2>2. marker.seen /\ marker.disk /\ pc[p] \in K!Leased /\ pc[p] \in K!Writing
    BY <2>1 DEF KPhase, K!Leased, K!Writing
  <2> QED BY <2>1, <2>2, KOutShows DEF KMarked
<1>3. CASE K!ClearFails(p)
  <2>1. pc[p] \in {"stored", "sync"} /\ K!Out(p) /\ keyring' = keyring
    BY <1>3 DEF K!ClearFails
  <2>2. /\ pc[p] \in K!Leased /\ (pc[p] \in K!Writing => marker.seen /\ marker.disk)
        /\ pc[p] \notin K!Writing => ~marker.seen
    BY <2>1 DEF KPhase, K!Leased, K!Writing
  <2>3. marker.seen /\ marker.disk => marker'.seen /\ marker'.disk
    BY <1>3 DEF K!ClearFails, K!Mark, KDisk
  <2> QED BY <2>1, <2>2, <2>3, KOutShows DEF KMarked
<1>4. CASE K!Leave(p)
  <2>1. K!Out(p) /\ UNCHANGED <<marker, keyring>> /\ pc[p] \notin K!Writing
    BY <1>4 DEF K!Leave, K!disk, K!Writing
  <2> QED BY <2>1, KOutShows DEF KMarked
<1>5. CASE K!Crash(p)
  <2>1. K!Out(p) /\ UNCHANGED <<marker, keyring>>
    BY <1>5 DEF K!Crash
  <2>2. pc[p] \in K!Writing => marker.seen /\ marker.disk
    BY DEF KPhase, K!Writing
  <2> QED BY <2>1, <2>2, KOutShows DEF KMarked
<1> QED BY <1>1, <1>2, <1>3, <1>4, <1>5

\* A late write stays behind the marker; a loss of power ends every view, and
\* shows the record or the fence.
LEMMA KWorldShows ==
  ASSUME KInv, KInv', KDurable, (\E r \in late : K!LateWrite(r)) \/ K!WriteBack \/ K!PowerLoss
  PROVE  StoreStep(K!Shown, K!Views, K!Shown', K!Views')
<1> USE KFacts
<1>1. ASSUME NEW r \in late, K!LateWrite(r) PROVE StoreStep(K!Shown, K!Views, K!Shown', K!Views')
  <2>1. UNCHANGED <<marker, holder, pc, mem, new>>
    BY <1>1 DEF K!LateWrite
  <2>2. marker = K!Mark
    BY KShows DEF KFiles, KMarked
  <2>3. K!Views' = K!Views
    BY <2>1 DEF K!Views
  <2>4. K!Shown' = K!Shown
    BY <2>1, <2>2 DEF K!Shown, K!Mark
  <2> QED BY <2>3, <2>4 DEF StoreStep
<1>2. CASE K!WriteBack
  <2>1. UNCHANGED <<holder, keyring, pc, mem, new>>
    BY <1>2 DEF K!WriteBack
  <2>2. K!Views' = K!Views
    BY <2>1 DEF K!Views
  <2>3. CASE marker' = K!Mark /\ marker # K!Mark
    <3>1. marker.seen /\ ~marker.disk
      BY <1>2, <2>3 DEF K!WriteBack, K!Mark, KDisk
    <3>2. \A q \in Procs : pc[q] \notin KWorks
      BY <3>1 DEF KPhase, KWorks
    <3>3. \A q \in Procs : pc[q] # "sync" /\ mem[q] = K!Nothing
      BY <3>2 DEF KPhase, KWorks
    <3>4. K!Views' = [q \in Procs |-> Storage!Nothing]
      BY <2>2, <3>3 DEF K!Views, K!Nothing, Storage!Nothing
    <3>5. holder # NoProc => pc'[holder] \notin K!Writing
      BY <2>1, <3>2 DEF KWorks, K!Writing
    <3>6. K!Shown' = Storage!Fenced
      BY <2>1, <2>3, <3>5 DEF K!Shown, K!Fenced, Storage!Fenced, K!Mark
    <3> QED BY <3>4, <3>6 DEF StoreStep, Leaves
  <2>4. CASE marker' = K!Mark <=> marker = K!Mark
    <3>1. K!Shown' = K!Shown
      BY <2>1, <2>4 DEF K!Shown, K!Mark
    <3> QED BY <2>2, <3>1 DEF StoreStep
  <2>5. marker = K!Mark => marker' = K!Mark
    BY <1>2 DEF K!WriteBack, K!Mark
  <2> QED BY <2>3, <2>4, <2>5
<1>3. CASE K!PowerLoss
  <2>1. /\ holder' = NoProc /\ pc' = [p \in Procs |-> "out"] /\ mem' = [p \in Procs |-> K!Nothing]
    BY <1>3 DEF K!PowerLoss
  <2>2. K!Views' = [p \in Procs |-> Storage!Nothing]
    BY <2>1 DEF K!Views, K!Nothing, Storage!Nothing
  <2>3. K!Shown' = KRest'
    BY <2>1 DEF K!Shown, KRest, K!Fenced, Storage!Fenced, K!Mark, KMarked, KInv, K!TypeOK
  <2>4. /\ lock.durable => marker'.seen = marker.disk /\ marker'.disk = marker.disk
        /\ ~lock.durable => ~marker'.seen /\ ~marker'.disk
    BY <1>3 DEF K!PowerLoss
  <2>5. CASE marker'.disk
    <3>1. marker'.seen
      BY <2>4, <2>5
    <3> QED BY <2>2, <2>3, <2>5, <3>1 DEF KRest, KMarked, StoreStep, Leaves
  <2>6. CASE ~marker'.disk
    <3>1. ~marker.disk
      BY <2>4, <2>6 DEF KDurable
    <3>2. late = {} /\ \A q \in Procs : pc[q] \notin K!Writing
      BY <3>1 DEF KFiles, KPhase, K!Writing
    <3>3. keyring' = keyring
      <4>1. {q \in Procs : pc[q] = "marked"} = {}
        BY <3>2 DEF K!Writing
      <4> QED BY <1>3, <3>2, <4>1 DEF K!PowerLoss
    <3>4. K!Shown = keyring
      BY <3>1, <3>2, KShows DEF KRest, KMarked
    <3>5. K!Shown' = keyring
      BY <2>3, <2>6, <3>3 DEF KRest, KMarked
    <3> QED BY <2>2, <3>4, <3>5 DEF StoreStep, Leaves
  <2> QED BY <2>5, <2>6
<1> QED BY <1>1, <1>2, <1>3

\* Every step of the keyring adapter is a step of CredentialStore.
LEMMA KRefines ==
  ASSUME KInv, KDurable, [K!Next]_K!vars
  PROVE  StoreStep(K!Shown, K!Views, K!Shown', K!Views')
<1>0. KInv'
  BY KStep
<1>1. ASSUME NEW p \in Procs, K!Steps(p) PROVE StoreStep(K!Shown, K!Views, K!Shown', K!Views')
  BY <1>0, <1>1, KOpeningShows, KPreparingShows, KWritingShows, KEndingShows DEF K!Steps
<1>2. ASSUME NEW p \in Procs, NEW c \in Creds, K!Save(p, c) PROVE StoreStep(K!Shown, K!Views, K!Shown', K!Views')
  BY <1>0, <1>2, KPreparingShows
<1>3. CASE (\E r \in late : K!LateWrite(r)) \/ K!WriteBack \/ K!PowerLoss
  BY <1>0, <1>3, KWorldShows
<1>4. CASE UNCHANGED K!vars
  <2>1. UNCHANGED <<marker, holder, keyring, pc, mem, new>>
    BY <1>4 DEF K!vars
  <2>2. K!Shown' = K!Shown
    BY <2>1 DEF K!Shown, K!Mark
  <2>3. K!Views' = K!Views
    BY <2>1 DEF K!Views
  <2> QED BY <2>2, <2>3 DEF StoreStep
<1> QED BY <1>1, <1>2, <1>3, <1>4 DEF K!Next

(***************************************************************************)
(* The installed record on Windows and macOS                               *)
(***************************************************************************)

\* The types of what is not a process's own.
NDisk ==
  /\ lock \in [there : BOOLEAN, durable : BOOLEAN]
  /\ marker \in [seen : BOOLEAN, disk : BOOLEAN]
  /\ data \in [seen : W!Records \cup {W!Fresh}, disk : W!Records \cup {W!Fresh}, flushed : BOOLEAN]
  /\ machine \in Machines
  /\ corrupt \in BOOLEAN /\ interrupted \in BOOLEAN
  /\ losses \in 0..MaxLosses

\* The record a process with a new directory starts from.
NFirst == [gen |-> 0, cred |-> NoCred, machine |-> machine]

\* Facts every step starts from.
LEMMA NFacts ==
  ASSUME NInv
  PROVE  /\ NDisk /\ NFiles /\ NoProc \notin Procs
         /\ pc \in [Procs -> {"out", "opened"} \cup W!Leased]
         /\ created \in [Procs -> BOOLEAN]
         /\ mem \in [Procs -> W!Records \cup {W!Fresh, W!Nothing}]
         /\ new \in [Procs -> W!Records \cup {W!Nothing}]
         /\ holder \in Procs \cup {NoProc}
         /\ \A p \in Procs : NPhase(p)
         /\ W!Fresh \notin W!Records /\ W!Nothing \notin W!Records /\ W!Fresh # W!Nothing
         /\ NFirst \in W!Records
<1>1. W!Fresh \notin W!Records /\ W!Nothing \notin W!Records /\ W!Fresh # W!Nothing
  BY StoresAssumption DEF W!Fresh, W!Nothing, W!Pseudo, W!Records
<1>2. NFirst \in W!Records
  BY StoresAssumption DEF W!Records, NInv, W!TypeOK, NFirst
<1> QED BY <1>1, <1>2, StoresAssumption DEF NInv, W!TypeOK, NDisk

\* A process that holds the lease moves, and keeps it or gives it back.
LEMMA NLeasedStep ==
  ASSUME NInv, NEW p \in Procs, pc[p] \in W!Leased,
         W!TypeOK', NFiles', NPhase(p)', holder' \in {p, NoProc},
         \A q \in Procs : q # p => pc'[q] = pc[q] /\ mem'[q] = mem[q] /\ new'[q] = new[q]
  PROVE  NInv'
<1>1. ASSUME NEW q \in Procs, q # p PROVE NPhase(q)'
  <2>1. NPhase(q) /\ NPhase(p) /\ holder = p /\ NoProc \notin Procs
    BY NFacts DEF NPhase
  <2>2. pc[q] \notin W!Leased
    BY <1>1, <2>1 DEF NPhase
  <2>3. pc[q] \notin NWorks /\ pc[q] \notin W!Writing /\ pc[q] \notin {"syncLock", "read", "ready", "write", "sync", "durable"}
    BY <2>2 DEF NWorks, W!Leased, W!Writing
  <2>4. pc'[q] = pc[q] /\ mem'[q] = mem[q] /\ new'[q] = new[q] /\ holder' # q
    BY <1>1, <2>1
  <2> QED BY <2>1, <2>2, <2>3, <2>4 DEF NPhase
<1> QED BY <1>1 DEF NInv

\* A step between two phases of the holder.
LEMMA NGoto ==
  ASSUME NInv, NEW p \in Procs, pc[p] \in W!Leased, NEW l \in W!Leased, W!Goto(p, l),
         NDisk', NFiles', UNCHANGED <<holder, created>>,
         \A q \in Procs : q # p => mem'[q] = mem[q] /\ new'[q] = new[q],
         mem' \in [Procs -> W!Records \cup {W!Fresh, W!Nothing}],
         new' \in [Procs -> W!Records \cup {W!Nothing}],
         NPhase(p)'
  PROVE  NInv'
<1>1. pc' \in [Procs -> {"out", "opened"} \cup W!Leased] /\ \A q \in Procs : q # p => pc'[q] = pc[q]
  BY NFacts DEF W!Goto
<1>2. W!TypeOK'
  BY <1>1, NFacts DEF W!TypeOK, NDisk
<1>3. holder' = p
  BY NFacts DEF NPhase
<1> QED BY <1>1, <1>2, <1>3, NLeasedStep

\* A process leaves the store: what it held in memory is gone.
LEMMA NOut ==
  ASSUME NInv, NEW p \in Procs, W!Out(p), NDisk', NFiles',
         pc[p] \in W!Leased \/ UNCHANGED <<lock, marker, data, machine>>
  PROVE  NInv'
<1> USE NFacts
<1>1. /\ pc'[p] = "out" /\ mem'[p] = W!Nothing /\ new'[p] = W!Nothing /\ created' = created
      /\ \A q \in Procs : q # p => pc'[q] = pc[q] /\ mem'[q] = mem[q] /\ new'[q] = new[q]
      /\ holder' = IF holder = p THEN NoProc ELSE holder
  BY DEF W!Out, W!Goto
<1>2. W!TypeOK'
  <2>1. /\ pc' \in [Procs -> {"out", "opened"} \cup W!Leased]
        /\ mem' \in [Procs -> W!Records \cup {W!Fresh, W!Nothing}]
        /\ new' \in [Procs -> W!Records \cup {W!Nothing}]
        /\ holder' \in Procs \cup {NoProc} /\ created' \in [Procs -> BOOLEAN]
    BY DEF W!Out, W!Goto
  <2> QED BY <2>1 DEF W!TypeOK, NDisk
<1>3. "out" \notin W!Leased /\ "out" \notin NWorks /\ "out" \notin W!Writing
  BY DEF W!Leased, W!Writing, NWorks
<1>4. NPhase(p)'
  BY <1>1, <1>3 DEF NPhase
<1>5. CASE pc[p] \in W!Leased
  BY <1>1, <1>2, <1>4, <1>5, NLeasedStep DEF NPhase
<1>6. CASE pc[p] \notin W!Leased
  <2>1. UNCHANGED <<lock, marker, data, machine>> /\ holder' = holder /\ holder # p
    BY <1>1, <1>6 DEF NPhase
  <2>2. ASSUME NEW q \in Procs, q # p PROVE NPhase(q)'
    BY <1>1, <2>1, <2>2 DEF NPhase
  <2> QED BY <1>2, <1>4, <2>2 DEF NInv
<1> QED BY <1>5, <1>6

\* The files did not change, nor what surrounds them.
LEMMA NFilesKept ==
  ASSUME NInv, UNCHANGED <<W!files, W!env>>, corrupt' \in BOOLEAN, interrupted' \in BOOLEAN
  PROVE  NDisk' /\ NFiles' /\ UNCHANGED <<lock, marker, data, machine, losses>>
BY NFacts DEF W!files, W!env, NDisk, NFiles

\* An open or a storage that ends without touching a file.
LEMMA NGone ==
  ASSUME NInv, NEW p \in Procs, W!Out(p), UNCHANGED <<W!files, W!env>>,
         corrupt' \in BOOLEAN, interrupted' \in BOOLEAN
  PROVE  NInv'
BY NFilesKept, NOut

\* The lease file is opened.  On Windows whoever creates it holds it, which no
\* other process does then.
LEMMA NOpenLock ==
  ASSUME NInv, NEW p \in Procs, M!OpenLock(p) \/ (W!OpenLock(p) /\ (~lock.there => holder = NoProc))
  PROVE  NInv'
<1> USE NFacts
<1>1. /\ pc[p] = "out" /\ UNCHANGED <<marker, data, mem, new, machine, losses, corrupt, interrupted>>
      /\ lock' = [lock EXCEPT !.there = TRUE]
      /\ created' = [created EXCEPT ![p] = ~lock.there]
      /\ \/ pc' = [pc EXCEPT ![p] = "verify"] /\ holder' = p /\ holder = NoProc
         \/ pc' = [pc EXCEPT ![p] = "opened"] /\ holder' = holder
  BY DEF M!OpenLock, W!OpenLock, M!Goto, W!Goto, W!env, M!env
<1>2. lock' \in [there : BOOLEAN, durable : BOOLEAN] /\ lock'.durable = lock.durable
  BY <1>1 DEF NDisk
<1>3. holder # p
  BY <1>1 DEF NPhase, W!Leased, W!Writing
<1>4. W!TypeOK' /\ NFiles'
  <2>1. pc' \in [Procs -> {"out", "opened"} \cup W!Leased] /\ created' \in [Procs -> BOOLEAN]
    BY <1>1 DEF W!Leased
  <2>2. holder' \in Procs \cup {NoProc}
    BY <1>1
  <2> QED BY <1>1, <1>2, <2>1, <2>2 DEF W!TypeOK, NDisk, NFiles
<1>5. ASSUME NEW q \in Procs PROVE NPhase(q)'
  <2>1. CASE q = p
    <3>1. /\ pc'[p] \in {"verify", "opened"} /\ (pc'[p] = "verify" <=> holder' = p)
      BY <1>1, <1>3
    <3>2. mem'[p] = W!Nothing /\ new'[p] = W!Nothing
      BY <1>1 DEF NPhase, NWorks, W!Writing
    <3> QED BY <2>1, <3>1, <3>2 DEF NPhase, NWorks, W!Leased, W!Writing
  <2>2. CASE q # p
    <3>1. pc'[q] = pc[q] /\ created'[q] = created[q] /\ (holder' = q <=> holder = q)
      BY <1>1, <2>2
    <3>2. NPhase(q)
      OBVIOUS
    <3> QED BY <1>1, <1>2, <3>1, <3>2 DEF NPhase
  <2> QED BY <2>1, <2>2
<1> QED BY <1>4, <1>5 DEF NInv

\* The lease and the check of the marker.
LEMMA NOpening ==
  ASSUME NInv, NEW p \in Procs, W!TakeLease(p) \/ W!VerifyLease(p) \/ W!SyncLock(p)
  PROVE  NInv'
<1> USE NFacts
<1>1. CASE W!TakeLease(p)
  <2>1. pc[p] = "opened" /\ UNCHANGED <<W!files, W!env, corrupt, interrupted>>
    BY <1>1 DEF W!TakeLease
  <2>2. NDisk' /\ NFiles' /\ UNCHANGED <<lock, marker, data, machine, losses>>
    BY <2>1, NFilesKept DEF NDisk
  <2>3. CASE holder = NoProc
    <3>1. /\ holder' = p /\ pc'[p] = "verify" /\ UNCHANGED <<created, mem, new>>
          /\ \A q \in Procs : q # p => pc'[q] = pc[q]
          /\ pc' \in [Procs -> {"out", "opened"} \cup W!Leased]
      BY <1>1, <2>3 DEF W!TakeLease, W!Goto, W!Leased
    <3>2. W!TypeOK'
      BY <2>2, <3>1 DEF W!TypeOK, NDisk
    <3>3. ASSUME NEW q \in Procs PROVE NPhase(q)'
      <4>1. CASE q = p
        BY <2>1, <2>2, <3>1, <4>1 DEF NPhase, NWorks, W!Leased, W!Writing
      <4>2. CASE q # p
        BY <2>2, <2>3, <3>1, <4>2 DEF NPhase
      <4> QED BY <4>1, <4>2
    <3> QED BY <2>2, <3>2, <3>3 DEF NInv
  <2>4. CASE holder # NoProc
    BY <1>1, <2>1, <2>4, NGone DEF W!TakeLease, NDisk
  <2> QED BY <2>3, <2>4
<1>2. CASE W!VerifyLease(p)
  <2>1. pc[p] = "verify" /\ pc[p] \in W!Leased
    BY <1>2 DEF W!VerifyLease, W!Leased
  <2>2. CASE marker.seen
    <3>1. W!Out(p) /\ UNCHANGED <<W!files, W!env>> /\ corrupt' \in BOOLEAN /\ interrupted' \in BOOLEAN
      BY <1>2, <2>2 DEF W!VerifyLease, W!Corrupt, NDisk
    <3> QED BY <3>1, NGone
  <2>3. CASE ~marker.seen
    <3>1. PICK l \in {"syncLock", "read"} : W!Goto(p, l) /\ (l = "read" => ~created[p])
      BY <1>2, <2>3 DEF W!VerifyLease
    <3>2. UNCHANGED <<W!files, holder, created, mem, new, W!env, corrupt, interrupted>>
      BY <1>2, <2>3 DEF W!VerifyLease
    <3>3. NDisk' /\ NFiles' /\ UNCHANGED <<lock, marker, data, machine, losses>>
      BY <3>2, NFilesKept DEF NDisk
    <3>4. l \in W!Leased /\ pc'[p] = l /\ UNCHANGED <<holder, created, mem, new>>
      BY <3>1, <3>2 DEF W!Leased, W!Goto
    <3>5. NPhase(p)'
      BY <2>1, <2>3, <3>1, <3>3, <3>4 DEF NPhase, NWorks, W!Writing
    <3> QED BY <2>1, <3>1, <3>3, <3>4, <3>5, NGoto
  <2> QED BY <2>2, <2>3
<1>3. CASE W!SyncLock(p)
  <2>1. /\ pc[p] = "syncLock" /\ W!Goto(p, "read") /\ pc'[p] = "read"
        /\ UNCHANGED <<marker, data, holder, created, mem, new, machine, losses, corrupt, interrupted>>
        /\ lock' = [lock EXCEPT !.durable = TRUE]
    BY <1>3 DEF W!SyncLock, W!Goto, W!env
  <2>2. pc[p] \in W!Leased /\ "read" \in W!Leased
    BY <2>1 DEF W!Leased
  <2>3. lock' \in [there : BOOLEAN, durable : BOOLEAN] /\ lock'.durable /\ ~marker.seen
    BY <2>1 DEF NDisk, NPhase
  <2>4. NDisk' /\ NFiles'
    BY <2>1, <2>3 DEF NDisk, NFiles
  <2>5. NPhase(p)'
    BY <2>1, <2>2, <2>3 DEF NPhase, NWorks, W!Writing
  <2> QED BY <2>1, <2>2, <2>4, <2>5, NGoto
<1> QED BY <1>1, <1>2, <1>3

\* The record to write is made, from the one that shows or for a new directory.
LEMMA NPrepared ==
  ASSUME NInv, NEW p \in Procs, pc[p] \in {"read", "ready"}, W!Goto(p, "write"),
         UNCHANGED <<W!files, W!env, corrupt, interrupted, holder, created>>,
         NEW n \in W!Records, n.machine = machine, new' = [new EXCEPT ![p] = n],
         mem' = [mem EXCEPT ![p] = data.seen],
         Changes(data.seen, n, W!Fresh, NFirst), lock.durable
  PROVE  NInv'
<1> USE NFacts
<1>1. NDisk' /\ NFiles' /\ UNCHANGED <<lock, marker, data, machine, losses, holder, created>>
  BY NFilesKept DEF NDisk
<1>2. pc[p] \in W!Leased /\ "write" \in W!Leased /\ pc'[p] = "write"
  BY DEF W!Leased, W!Goto
<1>3. new' \in [Procs -> W!Records \cup {W!Nothing}] /\ new'[p] = n /\ \A q \in Procs : q # p => new'[q] = new[q]
  OBVIOUS
<1>4. data.seen \in W!Records \cup {W!Fresh}
  BY DEF NDisk
<1>5. /\ mem' \in [Procs -> W!Records \cup {W!Fresh, W!Nothing}] /\ mem'[p] = data.seen
      /\ \A q \in Procs : q # p => mem'[q] = mem[q]
  BY <1>4
<1>6. ~marker.seen /\ holder = p
  BY <1>2 DEF NPhase
<1>7. NPhase(p)'
  BY <1>1, <1>2, <1>3, <1>4, <1>5, <1>6 DEF NPhase, NWorks, W!Writing, NFirst
<1> QED BY <1>1, <1>2, <1>3, <1>5, <1>7, NGoto

\* What save, invalidate and the binding to another machine make of a record.
LEMMA NChanges ==
  ASSUME NInv, NEW r \in W!Records
  PROVE  /\ r # W!Fresh
         /\ \A c \in Creds : LET n == [r EXCEPT !.cred = c] IN
              n \in W!Records /\ n.machine = r.machine /\ Changes(r, n, W!Fresh, NFirst)
         /\ ~W!LastGeneration(r) => LET n == [r EXCEPT !.gen = @ + 1, !.cred = NoCred] IN
              n \in W!Records /\ n.machine = r.machine /\ Changes(r, n, W!Fresh, NFirst)
         /\ ~W!LastGeneration(r) =>
              W!Rebound(r) \in W!Records /\ W!Rebound(r).machine = machine /\ Changes(r, W!Rebound(r), W!Fresh, NFirst)
<1>1. r.gen \in 0..MaxGen /\ r.cred \in Creds \cup {NoCred} /\ r.machine \in Machines /\ MaxGen \in Nat
      /\ r = [gen |-> r.gen, cred |-> r.cred, machine |-> r.machine]
      /\ machine \in Machines
  BY StoresAssumption, NFacts DEF W!Records, NDisk
<1>2. ~W!LastGeneration(r) => r.gen < MaxGen /\ r.gen + 1 \in 0..MaxGen
  BY <1>1 DEF W!LastGeneration
<1>3. ASSUME NEW c \in Creds
      PROVE  LET n == [r EXCEPT !.cred = c] IN
             n \in W!Records /\ n.machine = r.machine /\ Changes(r, n, W!Fresh, NFirst)
  <2> DEFINE n == [r EXCEPT !.cred = c]
  <2>1. n = [gen |-> r.gen, cred |-> c, machine |-> r.machine]
    BY <1>1
  <2>2. n \in W!Records /\ n.gen = r.gen /\ n.cred = c /\ n.machine = r.machine
    BY <1>1, <2>1 DEF W!Records
  <2> QED BY <1>1, <2>2 DEF Changes
<1>4. ASSUME ~W!LastGeneration(r)
      PROVE  LET n == [r EXCEPT !.gen = @ + 1, !.cred = NoCred] IN
             n \in W!Records /\ n.machine = r.machine /\ Changes(r, n, W!Fresh, NFirst)
  <2> DEFINE n == [r EXCEPT !.gen = @ + 1, !.cred = NoCred]
  <2>1. r \in [gen : 0..MaxGen, cred : Creds \cup {NoCred}, machine : Machines]
    BY DEF W!Records
  <2>2. n \in W!Records /\ n.gen = r.gen + 1 /\ n.cred = NoCred /\ n.machine = r.machine
    BY <1>2, <1>4, <2>1 DEF W!Records
  <2> QED BY <1>1, <1>2, <1>4, <2>2 DEF Changes
<1>5. ASSUME ~W!LastGeneration(r)
      PROVE  W!Rebound(r) \in W!Records /\ W!Rebound(r).machine = machine /\ Changes(r, W!Rebound(r), W!Fresh, NFirst)
  BY <1>1, <1>2, <1>5 DEF W!Rebound, W!Records, Changes
<1> QED BY <1>3, <1>4, <1>5, NFacts

\* read with InstalledStorage::open, save and clear_cached.
LEMMA NPreparing ==
  ASSUME NInv, NEW p \in Procs,
         W!Read(p) \/ (\E c \in Creds : W!Save(p, c)) \/ W!Invalidate(p)
  PROVE  NInv'
<1> USE NFacts
<1>1. CASE W!Read(p)
  <2>1. pc[p] = "read" /\ pc[p] \in W!Leased
    BY <1>1 DEF W!Read, W!Leased
  <2>2. data.seen \in W!Records \cup {W!Fresh} /\ corrupt \in BOOLEAN /\ interrupted \in BOOLEAN
    BY DEF NDisk
  <2>3. CASE W!Corrupt(p)
    BY <2>2, <2>3, NGone DEF W!Corrupt
  <2>4. CASE data.seen = W!Fresh /\ W!MissingAllowed(p)
    <3>1. /\ mem' = [mem EXCEPT ![p] = data.seen] /\ new' = [new EXCEPT ![p] = NFirst]
          /\ W!Goto(p, "write")
          /\ UNCHANGED <<W!files, holder, created, W!env, corrupt, interrupted>>
      BY <1>1, <2>4 DEF W!Read, NFirst
    <3>2. lock.durable
      BY <2>1, <2>4 DEF NPhase, W!MissingAllowed
    <3>3. Changes(data.seen, NFirst, W!Fresh, NFirst) /\ NFirst.machine = machine
      BY <2>4 DEF Changes, NFirst
    <3> QED BY <2>1, <3>1, <3>2, <3>3, NPrepared
  <2>5. CASE data.seen # W!Fresh /\ ~created[p] /\ W!BoundHere(data.seen)
    <3>1. /\ mem' = [mem EXCEPT ![p] = data.seen] /\ W!Goto(p, "ready")
          /\ UNCHANGED <<W!files, holder, created, new, W!env, corrupt, interrupted>>
      BY <1>1, <2>5 DEF W!Read
    <3>2. NDisk' /\ NFiles' /\ UNCHANGED <<lock, marker, data, machine, losses, holder, created, new>>
      BY <2>2, <3>1, NFilesKept
    <3>3. data.seen \in W!Records /\ lock.durable /\ data.seen.machine = machine
      BY <2>2, <2>5 DEF NFiles, W!BoundHere
    <3>4. /\ mem' \in [Procs -> W!Records \cup {W!Fresh, W!Nothing}] /\ mem'[p] = data.seen
          /\ \A q \in Procs : q # p => mem'[q] = mem[q]
      BY <3>1, <3>3
    <3>5. pc'[p] = "ready" /\ "ready" \in W!Leased
      BY <3>1 DEF W!Goto, W!Leased
    <3>6. new[p] = W!Nothing /\ ~marker.seen /\ holder = p
      BY <2>1 DEF NPhase, NWorks, W!Writing
    <3>7. NPhase(p)'
      BY <3>2, <3>3, <3>4, <3>5, <3>6 DEF NPhase, NWorks, W!Writing
    <3> QED BY <2>1, <3>1, <3>2, <3>4, <3>5, <3>7, NGoto
  <2>6. CASE data.seen # W!Fresh /\ ~created[p] /\ ~W!BoundHere(data.seen) /\ W!LastGeneration(data.seen)
    <3>1. W!Out(p) /\ UNCHANGED <<W!files, W!env, corrupt, interrupted>>
      BY <1>1, <2>6 DEF W!Read
    <3> QED BY <2>2, <3>1, NGone
  <2>7. CASE data.seen # W!Fresh /\ ~created[p] /\ ~W!BoundHere(data.seen) /\ ~W!LastGeneration(data.seen)
    <3>1. /\ mem' = [mem EXCEPT ![p] = data.seen] /\ new' = [new EXCEPT ![p] = W!Rebound(data.seen)]
          /\ W!Goto(p, "write")
          /\ UNCHANGED <<W!files, holder, created, W!env, corrupt, interrupted>>
      BY <1>1, <2>7 DEF W!Read
    <3>2. data.seen \in W!Records /\ lock.durable
      BY <2>2, <2>7 DEF NFiles
    <3>3. /\ W!Rebound(data.seen) \in W!Records /\ W!Rebound(data.seen).machine = machine
          /\ Changes(data.seen, W!Rebound(data.seen), W!Fresh, NFirst)
      BY <2>7, <3>2, NChanges
    <3> QED BY <2>1, <3>1, <3>2, <3>3, NPrepared
  <2> QED BY <1>1, <2>3, <2>4, <2>5, <2>6, <2>7 DEF W!Read, W!MissingAllowed
<1>2. ASSUME pc[p] = "ready", NEW n \in W!Records, n.machine = mem[p].machine,
             Changes(mem[p], n, W!Fresh, NFirst), new' = [new EXCEPT ![p] = n], W!Goto(p, "write"),
             UNCHANGED <<W!files, holder, created, mem, W!env, corrupt, interrupted>>
      PROVE  NInv'
  <2>1. mem[p] = data.seen /\ mem[p].machine = machine /\ lock.durable
    BY <1>2 DEF NPhase, NWorks
  <2>2. mem' = [mem EXCEPT ![p] = data.seen]
    BY <1>2, <2>1
  <2> QED BY <1>2, <2>1, <2>2, NPrepared
<1>3. ASSUME NEW c \in Creds, W!Save(p, c) PROVE NInv'
  <2> DEFINE n == [mem[p] EXCEPT !.cred = c]
  <2>1. /\ pc[p] = "ready" /\ new' = [new EXCEPT ![p] = n] /\ W!Goto(p, "write")
        /\ UNCHANGED <<W!files, holder, created, mem, W!env, corrupt, interrupted>>
    BY <1>3 DEF W!Save
  <2>2. mem[p] \in W!Records
    BY <2>1 DEF NPhase
  <2>3. n \in W!Records /\ n.machine = mem[p].machine /\ Changes(mem[p], n, W!Fresh, NFirst)
    BY <2>2, NChanges
  <2> HIDE DEF n
  <2> QED BY <1>2, <2>1, <2>3
<1>4. CASE W!Invalidate(p)
  <2> DEFINE n == [mem[p] EXCEPT !.gen = @ + 1, !.cred = NoCred]
  <2>1. /\ pc[p] = "ready" /\ ~W!LastGeneration(mem[p]) /\ new' = [new EXCEPT ![p] = n] /\ W!Goto(p, "write")
        /\ UNCHANGED <<W!files, holder, created, mem, W!env, corrupt, interrupted>>
    BY <1>4 DEF W!Invalidate
  <2>2. mem[p] \in W!Records
    BY <2>1 DEF NPhase
  <2>3. n \in W!Records /\ n.machine = mem[p].machine /\ Changes(mem[p], n, W!Fresh, NFirst)
    BY <2>1, <2>2, NChanges
  <2> HIDE DEF n
  <2> QED BY <1>2, <2>1, <2>3
<1> QED BY <1>1, <1>3, <1>4

\* write_pending_marker, the new file, its replacement and the end of the marker.
LEMMA NWriting ==
  ASSUME NInv, NEW p \in Procs,
         \/ W!WriteMarker(p) \/ W!Stage(p) \/ W!Replace(p)
         \/ W!SyncData(p) \/ W!Clear(p) \/ W!ClearSync(p)
  PROVE  NInv'
<1> USE NFacts
<1>1. CASE W!WriteMarker(p)
  <2>1. /\ pc[p] = "write" /\ W!Goto(p, "marked") /\ pc'[p] = "marked" /\ marker' = W!Pending
        /\ UNCHANGED <<lock, data, holder, created, mem, new, machine, losses, corrupt, interrupted>>
    BY <1>1 DEF W!WriteMarker, W!Goto, W!env
  <2>2. pc[p] \in W!Leased /\ "marked" \in W!Leased
    BY <2>1 DEF W!Leased, W!Writing
  <2>3. lock.durable
    BY <2>1 DEF NPhase, NWorks
  <2>4. marker' \in [seen : BOOLEAN, disk : BOOLEAN] /\ marker'.seen /\ marker'.disk
    BY <2>1 DEF W!Pending
  <2>5. NDisk' /\ NFiles'
    BY <2>1, <2>3, <2>4 DEF NDisk, NFiles
  <2>6. NPhase(p)'
    BY <2>1, <2>2, <2>3, <2>4 DEF NPhase, NWorks, W!Writing
  <2> QED BY <2>1, <2>2, <2>5, <2>6, NGoto
<1>2. CASE W!Stage(p)
  <2>1. /\ pc[p] = "marked" /\ W!Goto(p, "staged") /\ pc'[p] = "staged"
        /\ UNCHANGED <<W!files, holder, created, mem, new, W!env, corrupt, interrupted>>
    BY <1>2 DEF W!Stage, W!Goto
  <2>2. pc[p] \in W!Leased /\ "staged" \in W!Leased
    BY <2>1 DEF W!Leased, W!Writing
  <2>3. NDisk' /\ NFiles' /\ UNCHANGED <<lock, marker, data, machine, losses, holder, created, mem, new>>
    BY <2>1, NFilesKept DEF NDisk
  <2>4. NPhase(p)'
    BY <2>1, <2>2, <2>3 DEF NPhase, NWorks, W!Writing
  <2> QED BY <2>1, <2>2, <2>3, <2>4, NGoto
<1>3. CASE W!Replace(p)
  <2>1. /\ pc[p] = "staged" /\ W!Goto(p, "replaced") /\ pc'[p] = "replaced"
        /\ data' = [data EXCEPT !.seen = new[p], !.flushed = TRUE]
        /\ UNCHANGED <<lock, marker, holder, created, mem, new, machine, losses, corrupt, interrupted>>
    BY <1>3 DEF W!Replace, W!Goto, W!env, W!StageFlushed
  <2>2. pc[p] \in W!Leased /\ "replaced" \in W!Leased
    BY <2>1 DEF W!Leased, W!Writing
  <2>3. lock.durable /\ marker.seen /\ marker.disk /\ new[p] \in W!Records
    BY <2>1 DEF NPhase, NWorks, W!Writing
  <2>4. /\ data' \in [seen : W!Records \cup {W!Fresh}, disk : W!Records \cup {W!Fresh}, flushed : BOOLEAN]
        /\ data'.seen = new[p] /\ data'.disk = data.disk /\ data'.flushed
    BY <2>1, <2>3 DEF NDisk
  <2>5. NDisk' /\ NFiles'
    BY <2>1, <2>3, <2>4 DEF NDisk, NFiles
  <2>6. NPhase(p)'
    BY <2>1, <2>2, <2>3, <2>4 DEF NPhase, NWorks, W!Writing
  <2> QED BY <2>1, <2>2, <2>5, <2>6, NGoto
<1>4. CASE W!SyncData(p)
  <2>1. /\ pc[p] = "replaced" /\ W!Goto(p, "durable") /\ pc'[p] = "durable" /\ data' = W!Written
        /\ UNCHANGED <<lock, marker, holder, created, mem, new, machine, losses, corrupt, interrupted>>
    BY <1>4 DEF W!SyncData, W!Goto, W!env
  <2>2. pc[p] \in W!Leased /\ "durable" \in W!Leased
    BY <2>1 DEF W!Leased, W!Writing
  <2>3. lock.durable /\ marker.seen /\ marker.disk
    BY <2>1 DEF NPhase, NWorks, W!Writing
  <2>4. /\ data' \in [seen : W!Records \cup {W!Fresh}, disk : W!Records \cup {W!Fresh}, flushed : BOOLEAN]
        /\ data'.seen = data.seen /\ data'.disk = data.seen /\ data'.flushed
    BY <2>1 DEF W!Written, W!Entry, NDisk, NFiles
  <2>5. NDisk' /\ NFiles'
    BY <2>1, <2>3, <2>4 DEF NDisk, NFiles
  <2>6. NPhase(p)'
    BY <2>1, <2>2, <2>3, <2>4 DEF NPhase, NWorks, W!Writing
  <2> QED BY <2>1, <2>2, <2>5, <2>6, NGoto
<1>5. CASE W!Clear(p)
  <2>1. /\ pc[p] = "durable" /\ W!Goto(p, "sync") /\ pc'[p] = "sync"
        /\ marker' = [marker EXCEPT !.seen = FALSE]
        /\ UNCHANGED <<lock, data, holder, created, mem, new, machine, losses, corrupt, interrupted>>
    BY <1>5 DEF W!Clear, W!Goto, W!env
  <2>2. pc[p] \in W!Leased /\ "sync" \in W!Leased
    BY <2>1 DEF W!Leased, W!Writing
  <2>3. lock.durable /\ data.disk = data.seen
    BY <2>1 DEF NPhase, NWorks, W!Writing
  <2>4. marker' \in [seen : BOOLEAN, disk : BOOLEAN] /\ ~marker'.seen
    BY <2>1 DEF NDisk
  <2>5. NDisk' /\ NFiles'
    BY <2>1, <2>3, <2>4 DEF NDisk, NFiles
  <2>6. NPhase(p)'
    BY <2>1, <2>2, <2>3, <2>4 DEF NPhase, NWorks, W!Writing
  <2> QED BY <2>1, <2>2, <2>5, <2>6, NGoto
<1>6. CASE W!ClearSync(p)
  <2>1. /\ pc[p] = "sync" /\ W!Goto(p, "ready") /\ pc'[p] = "ready"
        /\ marker' = [marker EXCEPT !.disk = FALSE]
        /\ mem' = [mem EXCEPT ![p] = new[p]] /\ new' = [new EXCEPT ![p] = W!Nothing]
        /\ UNCHANGED <<lock, data, holder, created, machine, losses, corrupt, interrupted>>
    BY <1>6 DEF W!ClearSync, W!Goto, W!env
  <2>2. pc[p] \in W!Leased /\ "ready" \in W!Leased
    BY <2>1 DEF W!Leased, W!Writing
  <2>3. /\ lock.durable /\ ~marker.seen /\ new[p] = data.seen /\ new[p] \in W!Records
        /\ new[p].machine = machine /\ data.disk = data.seen
    BY <2>1 DEF NPhase, NWorks, NFiles, W!Writing
  <2>4. marker' \in [seen : BOOLEAN, disk : BOOLEAN] /\ ~marker'.seen
    BY <2>1, <2>3 DEF NDisk
  <2>5. NDisk' /\ NFiles'
    BY <2>1, <2>3, <2>4 DEF NDisk, NFiles
  <2>6. /\ mem' \in [Procs -> W!Records \cup {W!Fresh, W!Nothing}] /\ mem'[p] = new[p]
        /\ new' \in [Procs -> W!Records \cup {W!Nothing}] /\ new'[p] = W!Nothing
        /\ \A q \in Procs : q # p => mem'[q] = mem[q] /\ new'[q] = new[q]
    BY <2>1, <2>3
  <2>7. NPhase(p)'
    BY <2>1, <2>2, <2>3, <2>4, <2>6 DEF NPhase, NWorks, W!Writing
  <2> QED BY <2>1, <2>2, <2>5, <2>6, <2>7, NGoto
<1> QED BY <1>1, <1>2, <1>3, <1>4, <1>5, <1>6

\* What a failed write leaves of the marker.
LEMMA NFailedMarker ==
  ASSUME NInv, NEW p \in Procs, W!WriteFails(p)
  PROVE  /\ marker' \in [seen : BOOLEAN, disk : BOOLEAN]
         /\ pc[p] \in W!Writing => marker'.seen /\ marker'.disk
<1> USE NFacts
<1>1. /\ marker \in [seen : BOOLEAN, disk : BOOLEAN]
      /\ [seen |-> TRUE, disk |-> FALSE] \in [seen : BOOLEAN, disk : BOOLEAN]
      /\ [marker EXCEPT !.seen = TRUE] \in [seen : BOOLEAN, disk : BOOLEAN]
      /\ W!Pending \in [seen : BOOLEAN, disk : BOOLEAN]
  BY DEF NDisk, W!Pending
<1>2. \/ pc[p] = "write" /\ marker' \in {marker, [seen |-> TRUE, disk |-> FALSE], W!Pending}
      \/ pc[p] \in W!Writing /\ marker' = marker
      \/ pc[p] \in {"durable", "sync"} /\ marker' \in {marker, [marker EXCEPT !.seen = TRUE], W!Pending}
  BY DEF W!WriteFails
<1>3. marker' \in [seen : BOOLEAN, disk : BOOLEAN]
  BY <1>1, <1>2, Zenon
<1>4. ASSUME pc[p] \in W!Writing PROVE marker'.seen /\ marker'.disk
  <2>1. marker.seen /\ marker.disk
    BY <1>4 DEF NPhase
  <2>2. marker' \in {marker, [marker EXCEPT !.seen = TRUE], W!Pending}
    BY <1>2, <1>4 DEF W!Writing
  <2> QED BY <1>1, <2>1, <2>2 DEF W!Pending
<1> QED BY <1>3, <1>4

\* A write that fails, a storage that is closed, a process that dies.
LEMMA NEnding ==
  ASSUME NInv, NEW p \in Procs, W!WriteFails(p) \/ W!Leave(p) \/ W!Crash(p)
  PROVE  NInv'
<1> USE NFacts
<1>1. CASE W!WriteFails(p)
  <2>1. /\ pc[p] \in {"write", "sync"} \cup W!Writing /\ W!Out(p) /\ interrupted' = TRUE
        /\ UNCHANGED <<lock, data, machine, losses, corrupt>>
    BY <1>1 DEF W!WriteFails, W!env, W!Writing
  <2>2. /\ lock.durable /\ pc[p] \in W!Leased /\ (pc[p] \notin W!Writing => data.disk = data.seen)
    BY <2>1 DEF NPhase, NWorks, W!Leased, NFiles
  <2>3. marker' \in [seen : BOOLEAN, disk : BOOLEAN] /\ (pc[p] \in W!Writing => marker'.seen /\ marker'.disk)
    BY <1>1, NFailedMarker
  <2>4. NDisk' /\ NFiles'
    BY <2>1, <2>2, <2>3 DEF NDisk, NFiles
  <2> QED BY <2>1, <2>2, <2>4, NOut
<1>2. CASE W!Leave(p)
  BY <1>2, NGone DEF W!Leave, NDisk
<1>3. CASE W!Crash(p)
  BY <1>3, NGone DEF W!Crash, NDisk
<1> QED BY <1>1, <1>2, <1>3

\* The system writes back, the power is lost, the directory is moved.
LEMMA NWorld ==
  ASSUME NInv, W!WriteBack \/ W!PowerLoss \/ W!Move
  PROVE  NInv'
<1> USE NFacts
<1>1. CASE W!WriteBack
  <2>1. UNCHANGED <<holder, pc, created, mem, new, machine, losses, corrupt, interrupted>>
    BY <1>1 DEF W!WriteBack, W!env
  <2>2. W!Entry = data.seen /\ W!Written = [data EXCEPT !.disk = data.seen]
    BY DEF W!Entry, W!Written, NFiles
  <2>3. /\ lock' \in [there : BOOLEAN, durable : BOOLEAN] /\ (lock.durable => lock'.durable)
        /\ marker' \in [seen : BOOLEAN, disk : BOOLEAN] /\ marker'.seen = marker.seen
        /\ marker.seen /\ marker.disk => marker'.disk
        /\ marker'.disk => marker.seen \/ marker.disk
    BY <1>1 DEF W!WriteBack, NDisk
  <2>4. /\ data' \in [seen : W!Records \cup {W!Fresh}, disk : W!Records \cup {W!Fresh}, flushed : BOOLEAN]
        /\ data'.seen = data.seen /\ data'.disk \in {data.disk, data.seen} /\ data'.flushed
        /\ marker.seen /\ ~marker.disk /\ marker'.disk => data' = data
    BY <1>1, <2>2 DEF W!WriteBack, NDisk, NFiles
  <2>5. W!TypeOK' /\ NFiles'
    BY <2>1, <2>3, <2>4 DEF W!TypeOK, NDisk, NFiles
  <2>6. ASSUME NEW q \in Procs PROVE NPhase(q)'
    <3>1. NPhase(q)
      OBVIOUS
    <3> QED BY <2>1, <2>3, <2>4, <3>1 DEF NPhase
  <2> QED BY <2>5, <2>6 DEF NInv
<1>2. CASE W!PowerLoss
  <2>1. /\ holder' = NoProc /\ created' = created /\ machine' = machine
        /\ pc' = [p \in Procs |-> "out"] /\ corrupt' = corrupt /\ interrupted' = TRUE
        /\ mem' = [p \in Procs |-> W!Nothing] /\ new' = [p \in Procs |-> W!Nothing]
    BY <1>2 DEF W!PowerLoss
  <2>2. /\ lock' \in [there : BOOLEAN, durable : BOOLEAN] /\ lock'.durable = lock.durable
        /\ marker' \in [seen : BOOLEAN, disk : BOOLEAN]
        /\ marker'.seen \/ marker'.disk => lock.durable
    BY <1>2 DEF W!PowerLoss, NDisk
  <2>3. losses' \in 0..MaxLosses
    BY <1>2, StoresAssumption DEF W!PowerLoss, NDisk
  <2>4. /\ data' \in [seen : W!Records \cup {W!Fresh}, disk : W!Records \cup {W!Fresh}, flushed : BOOLEAN]
        /\ data'.seen = data.disk /\ data'.disk = data.disk /\ data'.flushed
    BY <1>2 DEF W!PowerLoss, NDisk
  <2>5. W!TypeOK' /\ NFiles'
    BY <2>1, <2>2, <2>3, <2>4 DEF W!TypeOK, NFiles, NDisk
  <2>6. ASSUME NEW q \in Procs PROVE NPhase(q)'
    BY <2>1 DEF NPhase, NWorks, W!Leased, W!Writing
  <2> QED BY <2>5, <2>6 DEF NInv
<1>3. CASE W!Move
  <2>1. /\ \A p \in Procs : pc[p] = "out"
        /\ machine' \in Machines
        /\ UNCHANGED <<lock, marker, data, holder, pc, created, mem, new, losses, corrupt, interrupted>>
    BY <1>3 DEF W!Move, W!files
  <2>2. W!TypeOK' /\ NFiles'
    BY <2>1 DEF W!TypeOK, NFiles, NDisk
  <2>3. ASSUME NEW q \in Procs PROVE NPhase(q)'
    <3>1. NPhase(q) /\ pc[q] = "out" /\ pc'[q] = "out"
      BY <2>1
    <3> QED BY <2>1, <3>1 DEF NPhase, NWorks, W!Leased, W!Writing
  <2> QED BY <2>2, <2>3 DEF NInv
<1> QED BY <1>1, <1>2, <1>3

\* The steps both platforms have.
NShared ==
  \/ \E p \in Procs :
       \/ W!TakeLease(p) \/ W!VerifyLease(p) \/ W!SyncLock(p) \/ W!Read(p)
       \/ W!Invalidate(p) \/ W!WriteMarker(p) \/ W!Stage(p) \/ W!Replace(p) \/ W!SyncData(p)
       \/ W!Clear(p) \/ W!ClearSync(p) \/ W!WriteFails(p) \/ W!Leave(p) \/ W!Crash(p)
  \/ \E p \in Procs, c \in Creds : W!Save(p, c)
  \/ W!WriteBack \/ W!PowerLoss \/ W!Move

\* They keep the invariant.
LEMMA NSharedStep == NInv /\ NShared => NInv'
<1> SUFFICES ASSUME NInv, NShared PROVE NInv'
  OBVIOUS
<1>1. ASSUME NEW p \in Procs,
             \/ W!TakeLease(p) \/ W!VerifyLease(p) \/ W!SyncLock(p) \/ W!Read(p)
             \/ W!Invalidate(p) \/ W!WriteMarker(p) \/ W!Stage(p) \/ W!Replace(p) \/ W!SyncData(p)
             \/ W!Clear(p) \/ W!ClearSync(p) \/ W!WriteFails(p) \/ W!Leave(p) \/ W!Crash(p)
      PROVE  NInv'
  BY <1>1, NOpening, NPreparing, NWriting, NEnding
<1>2. ASSUME NEW p \in Procs, NEW c \in Creds, W!Save(p, c) PROVE NInv'
  BY <1>2, NPreparing
<1> QED BY <1>1, <1>2, NWorld DEF NShared

\* A step of Windows is one of these, or the lease file is opened and held at once.
LEMMA WSplit == W!Next => NShared \/ \E p \in Procs : W!OpenLock(p)
BY Zenon DEF W!Next, W!Steps, NShared

\* Nothing changed.
LEMMA NStill == NInv /\ UNCHANGED W!vars => NInv'
BY DEF NInv, W!TypeOK, NFiles, NPhase, W!vars, W!files, W!env, W!BoundHere

\* A new directory and nobody there.
LEMMA NStart == W!Init => NInv
<1> SUFFICES ASSUME W!Init PROVE NInv
  OBVIOUS
<1>1. W!TypeOK /\ NFiles
  <2>1. /\ lock \in [there : BOOLEAN, durable : BOOLEAN] /\ marker \in [seen : BOOLEAN, disk : BOOLEAN]
        /\ data \in [seen : W!Records \cup {W!Fresh}, disk : W!Records \cup {W!Fresh}, flushed : BOOLEAN]
    BY DEF W!Init
  <2>2. /\ pc \in [Procs -> {"out", "opened"} \cup W!Leased] /\ created \in [Procs -> BOOLEAN]
        /\ mem \in [Procs -> W!Records \cup {W!Fresh, W!Nothing}] /\ new \in [Procs -> W!Records \cup {W!Nothing}]
    BY DEF W!Init
  <2>3. /\ machine \in Machines /\ holder \in Procs \cup {NoProc} /\ losses \in 0..MaxLosses
    BY StoresAssumption DEF W!Init
  <2>4. corrupt \in BOOLEAN /\ interrupted \in BOOLEAN
    BY Zenon DEF W!Init
  <2> QED BY <2>1, <2>2, <2>3, <2>4 DEF W!Init, W!TypeOK, NFiles
<1>2. ASSUME NEW p \in Procs PROVE NPhase(p)
  BY StoresAssumption DEF W!Init, NPhase, NWorks, W!Leased, W!Writing
<1> QED BY <1>1, <1>2 DEF NInv

\* macOS has the same steps, but for the opening of the lease file.
LEMMA MSplit == M!Next => NShared \/ \E p \in Procs : M!OpenLock(p)
<1>1. M!WriteBack <=> W!WriteBack
  BY DEF M!WriteBack, W!WriteBack, M!Entry, W!Entry, M!Written, W!Written, M!env, W!env, M!Torn, W!Torn,
         M!Pseudo, W!Pseudo
<1>2. M!PowerLoss <=> W!PowerLoss
  BY DEF M!PowerLoss, W!PowerLoss, M!Nothing, W!Nothing, M!Pseudo, W!Pseudo
<1>3. M!Move <=> W!Move
  BY DEF M!Move, W!Move, M!files, W!files
<1> USE DEF M!files, W!files, M!env, W!env, M!Goto, W!Goto, M!Nothing, W!Nothing, M!Fresh, W!Fresh,
            M!Pseudo, W!Pseudo, M!Out, W!Out
<1>4. ASSUME NEW p \in Procs
      PROVE  /\ M!TakeLease(p) <=> W!TakeLease(p)
             /\ M!VerifyLease(p) <=> W!VerifyLease(p)
             /\ M!SyncLock(p) <=> W!SyncLock(p)
             /\ M!Invalidate(p) <=> W!Invalidate(p)
             /\ M!WriteMarker(p) <=> W!WriteMarker(p)
             /\ M!Stage(p) <=> W!Stage(p)
             /\ M!Replace(p) <=> W!Replace(p)
             /\ M!SyncData(p) <=> W!SyncData(p)
             /\ M!Clear(p) <=> W!Clear(p)
             /\ M!ClearSync(p) <=> W!ClearSync(p)
             /\ M!Leave(p) <=> W!Leave(p)
             /\ M!Crash(p) <=> W!Crash(p)
  <2>1. (M!TakeLease(p) <=> W!TakeLease(p)) /\ (M!VerifyLease(p) <=> W!VerifyLease(p))
    BY DEF M!TakeLease, W!TakeLease, M!VerifyLease, W!VerifyLease, M!Corrupt, W!Corrupt
  <2>2. (M!SyncLock(p) <=> W!SyncLock(p)) /\ (M!Invalidate(p) <=> W!Invalidate(p))
    BY DEF M!SyncLock, W!SyncLock, M!Invalidate, W!Invalidate, M!LastGeneration, W!LastGeneration
  <2>3. (M!WriteMarker(p) <=> W!WriteMarker(p)) /\ (M!Stage(p) <=> W!Stage(p)) /\ (M!Replace(p) <=> W!Replace(p))
    BY DEF M!WriteMarker, W!WriteMarker, M!Pending, W!Pending, M!Stage, W!Stage, M!Replace, W!Replace,
           M!StageFlushed, W!StageFlushed
  <2>4. (M!SyncData(p) <=> W!SyncData(p)) /\ (M!Clear(p) <=> W!Clear(p)) /\ (M!ClearSync(p) <=> W!ClearSync(p))
    BY DEF M!SyncData, W!SyncData, M!Written, W!Written, M!Entry, W!Entry, M!Torn, W!Torn,
           M!Clear, W!Clear, M!ClearSync, W!ClearSync
  <2>5. (M!Leave(p) <=> W!Leave(p)) /\ (M!Crash(p) <=> W!Crash(p))
    BY DEF M!Leave, W!Leave, M!Crash, W!Crash
  <2> QED BY <2>1, <2>2, <2>3, <2>4, <2>5
<1>5. ASSUME NEW p \in Procs PROVE M!WriteFails(p) <=> W!WriteFails(p)
  BY DEF M!WriteFails, W!WriteFails, M!Writing, W!Writing, M!Pending, W!Pending
<1>6. ASSUME NEW p \in Procs, NEW c \in Creds PROVE M!Save(p, c) <=> W!Save(p, c)
  BY DEF M!Save, W!Save
<1>7. ASSUME NEW p \in Procs PROVE M!Read(p) <=> W!Read(p)
  BY DEF M!Read, W!Read, M!MissingAllowed, W!MissingAllowed, M!Corrupt, W!Corrupt, M!BoundHere, W!BoundHere,
         M!LastGeneration, W!LastGeneration, M!Rebound, W!Rebound
<1> QED BY <1>1, <1>2, <1>3, <1>4, <1>5, <1>6, <1>7, Zenon DEF M!Next, M!Steps, NShared

\* Every step of the macOS backend keeps the invariant.
LEMMA MStep == NInv /\ [M!Next]_M!vars => NInv'
<1>1. UNCHANGED M!vars => UNCHANGED W!vars
  BY DEF M!vars, W!vars, M!files, W!files, M!env, W!env
<1> QED BY <1>1, MSplit, NSharedStep, NOpenLock, NStill

(* Windows: CorruptState is never an answer to a lease that is held *)

\* The holder goes on.
LEMMA WGoto ==
  ASSUME NInv, WCause, NEW p \in Procs, pc[p] \in W!Leased, NEW l \in W!Leased, W!Goto(p, l),
         UNCHANGED <<created, corrupt, interrupted>>,
         lock'.there = lock.there,
         marker'.seen => l \in W!Writing,
         data'.seen = data.seen \/ data'.seen # W!Fresh,
         l \in {"verify", "syncLock", "read"} => pc[p] \in {"verify", "syncLock"} /\ data' = data
  PROVE  WCause'
<1> USE NFacts
<1>1. pc'[p] = l /\ l # "out" /\ l # "opened" /\ \A q \in Procs : q # p => pc'[q] = pc[q]
  BY DEF W!Goto, W!Leased, W!Writing
<1>2. lock.there /\ lock'.there
  BY DEF WCause, W!Leased, W!Writing
<1>3. marker'.seen => \E q \in Procs : pc'[q] \in W!Writing
  BY <1>1
<1>4. data'.seen = W!Fresh /\ ~interrupted => \E q \in Procs : pc'[q] \in W!Leased /\ created'[q]
  BY <1>1, <1>2 DEF WCause
<1>5. ASSUME NEW q \in Procs
      PROVE  /\ pc'[q] = "opened" => ~created'[q]
             /\ pc'[q] \in {"verify", "syncLock", "read"} /\ created'[q] => data'.seen = W!Fresh
  <2>1. CASE q = p
    BY <1>1, <2>1 DEF WCause
  <2>2. CASE q # p
    <3>1. pc[q] \notin W!Leased /\ pc'[q] = pc[q]
      BY <1>1, <2>2 DEF NPhase
    <3> QED BY <3>1 DEF WCause, W!Leased
  <2> QED BY <2>1, <2>2
<1> QED BY <1>2, <1>3, <1>4, <1>5 DEF WCause

\* A process goes: it was cut short, or leaves nothing half done.
LEMMA WOut ==
  ASSUME NInv, WCause, NEW p \in Procs, W!Out(p), UNCHANGED <<lock, data>>,
         \/ interrupted'
         \/ /\ UNCHANGED <<corrupt, interrupted, marker>>
            /\ pc[p] \notin W!Writing
            /\ pc[p] \in W!Leased => data.seen # W!Fresh
  PROVE  WCause'
<1> USE NFacts
<1>1. pc'[p] = "out" /\ created' = created /\ \A q \in Procs : q # p => pc'[q] = pc[q]
  BY DEF W!Out, W!Goto
<1>2. corrupt' => interrupted'
  BY DEF WCause
<1>3. lock'.durable => lock'.there
  BY DEF WCause
<1>4. marker'.seen /\ ~interrupted' => \E q \in Procs : pc'[q] \in W!Writing
  BY <1>1 DEF WCause
<1>5. lock'.there /\ data'.seen = W!Fresh /\ ~interrupted' => \E q \in Procs : pc'[q] \in W!Leased /\ created'[q]
  BY <1>1 DEF WCause
<1>6. ASSUME NEW q \in Procs
      PROVE  /\ pc'[q] # "out" => lock'.there
             /\ pc'[q] = "opened" => ~created'[q]
             /\ pc'[q] \in {"verify", "syncLock", "read"} /\ created'[q] => data'.seen = W!Fresh
  BY <1>1 DEF WCause
<1> QED BY <1>2, <1>3, <1>4, <1>5, <1>6 DEF WCause

\* Whoever creates the lease file holds it, and nothing else is there yet.
LEMMA WOpenLock ==
  ASSUME NInv, WCause, NEW p \in Procs, W!OpenLock(p)
  PROVE  NInv' /\ WCause'
<1> USE NFacts
<1>1. /\ pc[p] = "out" /\ UNCHANGED <<marker, data, corrupt, interrupted>>
      /\ lock' = [lock EXCEPT !.there = TRUE]
      /\ created' = [created EXCEPT ![p] = ~lock.there]
      /\ pc' = [pc EXCEPT ![p] = IF lock.there THEN "opened" ELSE "verify"]
  BY DEF W!OpenLock, W!Goto
<1>2. ~lock.there => holder = NoProc
  <2>1. \A q \in Procs : holder = q => pc[q] # "out"
    BY DEF NPhase, W!Leased, W!Writing
  <2> QED BY <2>1 DEF WCause
<1>3. NInv'
  BY <1>2, NOpenLock
<1>4. lock'.there
  BY <1>1 DEF NDisk
<1>5. ~lock.there => data.seen = W!Fresh
  BY DEF WCause, NFiles
<1>6. /\ \A q \in Procs : q # p => pc'[q] = pc[q] /\ created'[q] = created[q]
      /\ lock.there => pc'[p] = "opened" /\ ~created'[p]
      /\ ~lock.there => pc'[p] = "verify" /\ created'[p]
  BY <1>1
<1>7. "verify" \in W!Leased /\ "out" \notin W!Leased /\ "out" \notin W!Writing
  BY DEF W!Leased, W!Writing
<1>8. marker'.seen /\ ~interrupted' => \E q \in Procs : pc'[q] \in W!Writing
  BY <1>1, <1>6, <1>7 DEF WCause
<1>9. data'.seen = W!Fresh /\ ~interrupted' => \E q \in Procs : pc'[q] \in W!Leased /\ created'[q]
  <2>1. CASE lock.there
    BY <1>1, <1>6, <1>7, <2>1 DEF WCause
  <2>2. CASE ~lock.there
    BY <1>6, <1>7, <2>2
  <2> QED BY <2>1, <2>2
<1>10. ASSUME NEW q \in Procs
       PROVE  /\ pc'[q] = "opened" => ~created'[q]
              /\ pc'[q] \in {"verify", "syncLock", "read"} /\ created'[q] => data'.seen = W!Fresh
  <2>1. CASE q = p
    BY <1>1, <1>5, <1>6, <2>1
  <2>2. CASE q # p
    BY <1>1, <1>6, <2>2 DEF WCause
  <2> QED BY <2>1, <2>2
<1>11. corrupt' => interrupted'
  BY <1>1 DEF WCause
<1> QED BY <1>3, <1>4, <1>8, <1>9, <1>10, <1>11 DEF WCause

\* The open of a process that meets the marker, or no record, was preceded by
\* one that was cut short.
LEMMA WOpening ==
  ASSUME NInv, WCause, NEW p \in Procs,
         W!TakeLease(p) \/ W!VerifyLease(p) \/ W!SyncLock(p) \/ W!Read(p)
  PROVE  WCause'
<1> USE NFacts
<1>1. CASE W!TakeLease(p)
  <2>1. pc[p] = "opened" /\ UNCHANGED <<lock, marker, data, corrupt, interrupted>>
    BY <1>1 DEF W!TakeLease, W!files
  <2>2. CASE holder = NoProc
    <3>1. pc'[p] = "verify" /\ created' = created /\ \A q \in Procs : q # p => pc'[q] = pc[q]
      BY <1>1, <2>2 DEF W!TakeLease, W!Goto
    <3>2. "opened" \notin W!Leased /\ "opened" \notin W!Writing
      BY DEF W!Leased, W!Writing
    <3>3. /\ marker'.seen /\ ~interrupted' => \E q \in Procs : pc'[q] \in W!Writing
          /\ lock'.there /\ data'.seen = W!Fresh /\ ~interrupted' => \E q \in Procs : pc'[q] \in W!Leased /\ created'[q]
      BY <2>1, <3>1, <3>2 DEF WCause
    <3>4. ASSUME NEW q \in Procs
          PROVE  /\ pc'[q] # "out" => lock'.there
                 /\ pc'[q] = "opened" => ~created'[q]
                 /\ pc'[q] \in {"verify", "syncLock", "read"} /\ created'[q] => data'.seen = W!Fresh
      BY <2>1, <3>1 DEF WCause
    <3> QED BY <2>1, <3>3, <3>4 DEF WCause
  <2>3. CASE holder # NoProc
    <3>1. W!Out(p) /\ pc[p] \notin W!Leased /\ pc[p] \notin W!Writing
      BY <1>1, <2>1, <2>3 DEF W!TakeLease, W!Leased, W!Writing
    <3> QED BY <2>1, <3>1, WOut
  <2> QED BY <2>2, <2>3
<1>2. CASE W!VerifyLease(p)
  <2>1. pc[p] = "verify" /\ pc[p] \in W!Leased /\ pc[p] \notin W!Writing /\ UNCHANGED <<lock, marker, data, interrupted>>
    BY <1>2 DEF W!VerifyLease, W!Corrupt, W!Leased, W!Writing, W!files
  <2>2. CASE marker.seen
    <3>1. interrupted
      <4>1. \A q \in Procs : pc[q] \in W!Writing => q = p
        BY <2>1 DEF NPhase, W!Leased
      <4> QED BY <2>1, <2>2, <4>1 DEF WCause
    <3> QED BY <1>2, <2>1, <2>2, <3>1, WOut DEF W!VerifyLease, W!Corrupt
  <2>3. CASE ~marker.seen
    <3>1. PICK l \in {"syncLock", "read"} : W!Goto(p, l)
      BY <1>2, <2>3 DEF W!VerifyLease
    <3>2. UNCHANGED <<created, corrupt>> /\ l \in W!Leased
      BY <1>2, <2>3 DEF W!VerifyLease, W!Leased
    <3> QED BY <2>1, <2>3, <3>1, <3>2, WGoto
  <2> QED BY <2>2, <2>3
<1>3. CASE W!SyncLock(p)
  <2>1. /\ pc[p] = "syncLock" /\ W!Goto(p, "read") /\ UNCHANGED <<marker, data, created, corrupt, interrupted>>
        /\ lock' = [lock EXCEPT !.durable = TRUE]
    BY <1>3 DEF W!SyncLock
  <2>2. pc[p] \in W!Leased /\ "read" \in W!Leased /\ lock'.there = lock.there /\ ~marker.seen
    BY <2>1 DEF W!Leased, NDisk, NPhase
  <2> QED BY <2>1, <2>2, WGoto
<1>4. CASE W!Read(p)
  <2>1. pc[p] = "read" /\ pc[p] \in W!Leased /\ pc[p] \notin W!Writing /\ UNCHANGED <<lock, marker, data, interrupted>>
    BY <1>4 DEF W!Read, W!Corrupt, W!Leased, W!Writing, W!files
  <2>2. ~marker.seen /\ lock.there
    BY <2>1 DEF NPhase, WCause
  <2>3. created[p] => data.seen = W!Fresh
    BY <2>1 DEF WCause
  <2>4. CASE data.seen = W!Fresh /\ ~created[p]
    <3>1. interrupted
      <4>1. \A q \in Procs : pc[q] \in W!Leased => q = p
        BY <2>1 DEF NPhase
      <4> QED BY <2>2, <2>4, <4>1 DEF WCause
    <3>2. W!Out(p)
      BY <1>4, <2>4 DEF W!Read, W!MissingAllowed, W!Corrupt
    <3> QED BY <2>1, <3>1, <3>2, WOut
  <2>5. CASE data.seen # W!Fresh \/ created[p]
    <3>1. CASE W!Out(p) /\ UNCHANGED corrupt /\ data.seen # W!Fresh
      BY <2>1, <3>1, WOut
    <3>2. CASE /\ W!Goto(p, "write") \/ W!Goto(p, "ready")
               /\ UNCHANGED <<created, corrupt>>
      <4>1. "write" \in W!Leased /\ "ready" \in W!Leased
        BY DEF W!Leased
      <4> QED BY <2>1, <2>2, <3>2, <4>1, WGoto
    <3> QED BY <1>4, <2>3, <2>5, <3>1, <3>2 DEF W!Read, W!MissingAllowed
  <2> QED BY <2>4, <2>5
<1> QED BY <1>1, <1>2, <1>3, <1>4

\* save, invalidate and the steps of a write, and how they end.
LEMMA WWriting ==
  ASSUME NInv, WCause, NEW p \in Procs,
         \/ (\E c \in Creds : W!Save(p, c)) \/ W!Invalidate(p)
         \/ W!WriteMarker(p) \/ W!Stage(p) \/ W!Replace(p) \/ W!SyncData(p) \/ W!Clear(p) \/ W!ClearSync(p)
         \/ W!WriteFails(p) \/ W!Leave(p) \/ W!Crash(p)
  PROVE  WCause'
<1> USE NFacts
<1>1. CASE (\E c \in Creds : W!Save(p, c)) \/ W!Invalidate(p)
  <2>1. /\ pc[p] = "ready" /\ W!Goto(p, "write")
        /\ UNCHANGED <<lock, marker, data, created, corrupt, interrupted>>
    BY <1>1 DEF W!Save, W!Invalidate, W!files
  <2>2. pc[p] \in W!Leased /\ "write" \in W!Leased /\ ~marker.seen
    BY <2>1 DEF W!Leased, NPhase
  <2> QED BY <2>1, <2>2, WGoto
<1>2. CASE W!WriteMarker(p) \/ W!Stage(p)
  <2>1. /\ pc[p] \in {"write", "marked"} /\ (W!Goto(p, "marked") \/ W!Goto(p, "staged"))
        /\ UNCHANGED <<lock, data, created, corrupt, interrupted>>
    BY <1>2 DEF W!WriteMarker, W!Stage, W!files
  <2>2. /\ pc[p] \in W!Leased /\ "marked" \in W!Leased /\ "marked" \in W!Writing
        /\ "staged" \in W!Leased /\ "staged" \in W!Writing
    BY <2>1 DEF W!Leased, W!Writing
  <2> QED BY <2>1, <2>2, WGoto
<1>3. CASE W!Replace(p)
  <2>1. /\ pc[p] = "staged" /\ W!Goto(p, "replaced") /\ UNCHANGED <<lock, marker, created, corrupt, interrupted>>
        /\ data' = [data EXCEPT !.seen = new[p], !.flushed = TRUE]
    BY <1>3 DEF W!Replace, W!StageFlushed
  <2>2. pc[p] \in W!Leased /\ "replaced" \in W!Leased /\ "replaced" \in W!Writing /\ new[p] \in W!Records
    BY <2>1 DEF W!Leased, W!Writing, NPhase
  <2>3. data'.seen # W!Fresh
    BY <2>1, <2>2 DEF NDisk
  <2> QED BY <2>1, <2>2, <2>3, WGoto
<1>4. CASE W!SyncData(p)
  <2>1. /\ pc[p] = "replaced" /\ W!Goto(p, "durable") /\ UNCHANGED <<lock, marker, created, corrupt, interrupted>>
        /\ data' = W!Written
    BY <1>4 DEF W!SyncData
  <2>2. pc[p] \in W!Leased /\ "durable" \in W!Leased /\ "durable" \in W!Writing /\ data'.seen = data.seen
    BY <2>1 DEF W!Leased, W!Writing, W!Written, NDisk
  <2> QED BY <2>1, <2>2, WGoto
<1>5. CASE W!Clear(p) \/ W!ClearSync(p)
  <2>1. /\ pc[p] \in {"durable", "sync"} /\ (W!Goto(p, "sync") \/ W!Goto(p, "ready"))
        /\ UNCHANGED <<lock, data, created, corrupt, interrupted>>
        /\ \/ marker' = [marker EXCEPT !.seen = FALSE]
           \/ pc[p] = "sync" /\ marker' = [marker EXCEPT !.disk = FALSE]
    BY <1>5 DEF W!Clear, W!ClearSync
  <2>2. pc[p] \in W!Leased /\ "sync" \in W!Leased /\ "ready" \in W!Leased
    BY <2>1 DEF W!Leased, W!Writing
  <2>3. pc[p] = "sync" => ~marker.seen
    BY DEF NPhase
  <2>4. ~marker'.seen
    BY <2>1, <2>3 DEF NDisk
  <2> QED BY <2>1, <2>2, <2>4, WGoto
<1>6. CASE W!WriteFails(p) \/ W!Crash(p)
  <2>1. W!Out(p) /\ interrupted' /\ UNCHANGED <<lock, data>>
    BY <1>6 DEF W!WriteFails, W!Crash, W!files
  <2> QED BY <2>1, WOut
<1>7. CASE W!Leave(p)
  <2>1. pc[p] = "ready" /\ W!Out(p) /\ UNCHANGED <<lock, marker, data, corrupt, interrupted>>
    BY <1>7 DEF W!Leave, W!files
  <2>2. data.seen # W!Fresh /\ pc[p] \notin W!Writing
    BY <2>1 DEF NPhase, W!Writing
  <2> QED BY <2>1, <2>2, WOut
<1> QED BY <1>1, <1>2, <1>3, <1>4, <1>5, <1>6, <1>7

\* Every step of the Windows backend keeps both.
LEMMA WStep == NInv /\ WCause /\ [W!Next]_W!vars => NInv' /\ WCause'
<1> SUFFICES ASSUME NInv, WCause, [W!Next]_W!vars PROVE NInv' /\ WCause'
  OBVIOUS
<1>1. ASSUME NEW p \in Procs, W!OpenLock(p) PROVE NInv' /\ WCause'
  BY <1>1, WOpenLock
<1>2. CASE UNCHANGED W!vars
  <2>1. UNCHANGED <<lock, marker, data, pc, created, corrupt, interrupted>>
    BY <1>2 DEF W!vars, W!files
  <2> QED BY <1>2, <2>1, NStill DEF WCause
<1>3. CASE NShared
  <2>0. NInv'
    BY <1>3, NSharedStep
  <2>1. ASSUME NEW p \in Procs,
               \/ W!TakeLease(p) \/ W!VerifyLease(p) \/ W!SyncLock(p) \/ W!Read(p)
               \/ W!Invalidate(p) \/ W!WriteMarker(p) \/ W!Stage(p) \/ W!Replace(p) \/ W!SyncData(p)
               \/ W!Clear(p) \/ W!ClearSync(p) \/ W!WriteFails(p) \/ W!Leave(p) \/ W!Crash(p)
        PROVE  WCause'
    BY <2>1, WOpening, WWriting
  <2>2. ASSUME NEW p \in Procs, NEW c \in Creds, W!Save(p, c) PROVE WCause'
    BY <2>2, WWriting
  <2>3. CASE W!WriteBack
    <3>1. UNCHANGED <<pc, created, corrupt, interrupted>>
      BY <2>3 DEF W!WriteBack
    <3>2. /\ lock'.there = lock.there /\ marker'.seen = marker.seen /\ data'.seen = data.seen
          /\ lock'.durable => lock'.there
      BY <2>3, NFacts DEF W!WriteBack, W!Written, NDisk, WCause
    <3> QED BY <2>0, <3>1, <3>2 DEF WCause
  <2>4. CASE W!PowerLoss
    <3>1. interrupted' /\ (\A q \in Procs : pc'[q] = "out") /\ (lock'.durable => lock'.there)
      BY <2>4, NFacts DEF W!PowerLoss, NDisk
    <3> QED BY <2>0, <3>1 DEF WCause
  <2>5. CASE W!Move
    <3>1. UNCHANGED <<lock, marker, data, pc, created, corrupt, interrupted>>
      BY <2>5 DEF W!Move, W!files
    <3> QED BY <2>0, <3>1 DEF WCause
  <2> QED BY <1>3, <2>0, <2>1, <2>2, <2>3, <2>4, <2>5 DEF NShared
<1> QED BY <1>1, <1>2, <1>3, WSplit

\* A new directory and nobody there.
LEMMA WStart == W!Init => WCause
BY DEF W!Init, WCause

(***************************************************************************)
(* The installed record implements CredentialStore                         *)
(***************************************************************************)

\* What the backend shows of a process, the fence, and what shows when no
\* process is inside a write.
NView(p) == IF pc[p] = "sync" THEN W!Plain(new[p])
            ELSE IF mem[p] = W!Fresh THEN W!Plain(W!Nothing) ELSE W!Plain(mem[p])
NMarked == marker.seen /\ marker.disk
NRest == IF NMarked THEN Storage!Fenced ELSE W!Plain(data.seen)

\* What shows is the record without the machine.
LEMMA NPlain ==
  /\ W!Plain(W!Nothing) = Storage!Nothing /\ W!Plain(W!Fresh) = Storage!Fresh
  /\ \A r \in W!Records :
       /\ W!Plain(r) # Storage!Nothing /\ W!Plain(r) # Storage!Fresh /\ W!Plain(r) # Storage!Fenced
       /\ W!Plain(r).gen = r.gen /\ W!Plain(r) = [gen |-> r.gen, cred |-> r.cred]
<1>1. W!Plain(W!Nothing) = Storage!Nothing /\ W!Plain(W!Fresh) = Storage!Fresh
  BY DEF W!Plain, W!Nothing, W!Fresh, W!Pseudo, Storage!Nothing, Storage!Fresh
<1>2. ASSUME NEW r \in W!Records
      PROVE  /\ W!Plain(r) # Storage!Nothing /\ W!Plain(r) # Storage!Fresh /\ W!Plain(r) # Storage!Fenced
             /\ W!Plain(r).gen = r.gen /\ W!Plain(r) = [gen |-> r.gen, cred |-> r.cred]
  BY StoresAssumption DEF W!Plain, W!Records, Storage!Nothing, Storage!Fresh, Storage!Fenced
<1> QED BY <1>1, <1>2

\* What shows depends on whether the holder is inside a write.
LEMMA NShows ==
  ASSUME NInv
  PROVE  /\ (\A p \in Procs : pc[p] \notin W!Writing) => W!Shown = NRest
         /\ \A p \in Procs : holder = p => W!Shown = IF pc[p] \in W!Writing THEN W!Plain(mem[p]) ELSE NRest
         /\ holder = NoProc => W!Shown = NRest
<1> USE NFacts
<1>1. marker = [seen |-> TRUE, disk |-> TRUE] <=> NMarked
  BY DEF NDisk, NMarked
<1> QED BY <1>1 DEF W!Shown, Storage!Fenced, NRest

\* The views change where the process that moves is.
LEMMA NViewsChange ==
  ASSUME NEW p \in Procs,
         \A q \in Procs : q # p => pc'[q] = pc[q] /\ mem'[q] = mem[q] /\ new'[q] = new[q]
  PROVE  /\ W!Views' = [W!Views EXCEPT ![p] = NView(p)']
         /\ NView(p)' = NView(p) => W!Views' = W!Views
<1>1. /\ W!Views = [q \in Procs |-> NView(q)] /\ W!Views' = [q \in Procs |-> NView(q)']
  BY DEF W!Views, NView
<1>2. \A q \in Procs : q # p => NView(q)' = NView(q)
  BY DEF NView, W!Plain
<1> QED BY <1>1, <1>2

\* Nobody else has a view while a process holds the lease.
LEMMA NAlone ==
  ASSUME NInv, NEW p \in Procs, holder = p, NView(p) = Storage!Nothing
  PROVE  \A q \in Procs : W!Views[q] = Storage!Nothing
<1>1. ASSUME NEW q \in Procs, q # p PROVE NView(q) = Storage!Nothing
  <2>1. pc[q] \notin W!Leased /\ NPhase(q)
    BY <1>1, NFacts DEF NPhase
  <2>2. pc[q] \notin NWorks /\ pc[q] # "sync"
    BY <2>1 DEF NWorks, W!Leased
  <2>3. mem[q] = W!Nothing /\ mem[q] # W!Fresh
    BY <2>1, <2>2, NFacts DEF NPhase
  <2> QED BY <2>2, <2>3, NPlain DEF NView
<1>2. W!Views = [q \in Procs |-> NView(q)]
  BY DEF W!Views, NView
<1> QED BY <1>1, <1>2

\* A process leaves: its view goes, and a write that it had begun is fenced.
LEMMA NOutShows ==
  ASSUME NInv, NInv', NEW p \in Procs, W!Out(p), UNCHANGED data,
         pc[p] \notin W!Leased => UNCHANGED marker,
         pc[p] \in W!Writing => NMarked',
         NMarked => NMarked'
  PROVE  StoreStep(W!Shown, W!Views, W!Shown', W!Views')
<1> USE NFacts
<1>1. /\ pc'[p] = "out" /\ mem'[p] = W!Nothing /\ new'[p] = W!Nothing
      /\ \A q \in Procs : q # p => pc'[q] = pc[q] /\ mem'[q] = mem[q] /\ new'[q] = new[q]
      /\ holder' = IF holder = p THEN NoProc ELSE holder
  BY DEF W!Out, W!Goto
<1>2. W!Views' = [W!Views EXCEPT ![p] = Storage!Nothing]
  <2>1. NView(p)' = Storage!Nothing
    <3>1. NView(p)' = W!Plain(W!Nothing)
      BY <1>1 DEF NView, W!Plain
    <3> QED BY <3>1, NPlain
  <2> QED BY <1>1, <2>1, NViewsChange
<1>3. W!Shown' \in {W!Shown, Storage!Fenced}
  <2>1. CASE pc[p] \notin W!Leased
    <3>1. holder # p /\ holder' = holder /\ marker' = marker
      BY <1>1, <2>1 DEF NPhase
    <3>2. holder # NoProc => holder \in Procs /\ pc'[holder] = pc[holder] /\ mem'[holder] = mem[holder]
      BY <1>1, <3>1
    <3> QED BY <3>1, <3>2 DEF W!Shown, W!Plain
  <2>2. CASE pc[p] \in W!Leased
    <3>1. holder = p /\ holder' = NoProc
      BY <1>1, <2>2 DEF NPhase
    <3>2. W!Shown' = NRest'
      BY <3>1 DEF W!Shown, NRest, Storage!Fenced, NMarked, NInv, W!TypeOK
    <3>3. pc[p] \notin W!Writing => W!Shown = NRest
      BY <3>1, NShows
    <3> QED BY <3>2, <3>3 DEF NRest, W!Plain
  <2> QED BY <2>1, <2>2
<1> QED BY <1>2, <1>3 DEF StoreStep, Leaves

\* The holder goes from one phase to another.
LEMMA NGotoShows ==
  ASSUME NInv, NInv', NEW p \in Procs, pc[p] \in W!Leased, holder' = p,
         \A q \in Procs : q # p => pc'[q] = pc[q] /\ mem'[q] = mem[q] /\ new'[q] = new[q]
  PROVE  /\ W!Shown = IF pc[p] \in W!Writing THEN W!Plain(mem[p]) ELSE NRest
         /\ W!Shown' = IF pc'[p] \in W!Writing THEN W!Plain(mem'[p]) ELSE NRest'
         /\ W!Views' = [W!Views EXCEPT ![p] = NView(p)']
         /\ W!Views[p] = NView(p)
         /\ NView(p)' = NView(p) => W!Views' = W!Views
         /\ NView(p) = Storage!Nothing => \A q \in Procs : W!Views[q] = Storage!Nothing
<1>1. holder = p /\ NoProc \notin Procs
  BY NFacts DEF NPhase
<1>2. W!Shown = IF pc[p] \in W!Writing THEN W!Plain(mem[p]) ELSE NRest
  BY <1>1, NShows
<1>3. W!Shown' = IF pc'[p] \in W!Writing THEN W!Plain(mem'[p]) ELSE NRest'
  BY <1>1 DEF W!Shown, NRest, Storage!Fenced, NMarked, NInv, W!TypeOK, W!Plain
<1>4. W!Views[p] = NView(p)
  BY DEF W!Views, NView
<1> QED BY <1>1, <1>2, <1>3, <1>4, NViewsChange, NAlone

\* A step of the holder that shows nothing new.
LEMMA NQuiet ==
  ASSUME NInv, NInv', NEW p \in Procs, pc[p] \in W!Leased, holder' = p,
         \A q \in Procs : q # p => pc'[q] = pc[q] /\ mem'[q] = mem[q] /\ new'[q] = new[q],
         NView(p)' = NView(p),
         IF pc'[p] \in W!Writing
         THEN mem'[p] = mem[p] /\ (pc[p] \in W!Writing \/ NRest = W!Plain(mem[p]))
         ELSE pc[p] \notin W!Writing /\ NRest' = NRest
  PROVE  StoreStep(W!Shown, W!Views, W!Shown', W!Views')
<1>1. /\ W!Shown = IF pc[p] \in W!Writing THEN W!Plain(mem[p]) ELSE NRest
      /\ W!Shown' = IF pc'[p] \in W!Writing THEN W!Plain(mem'[p]) ELSE NRest'
      /\ W!Views' = W!Views
  BY NGotoShows
<1>2. W!Shown' = W!Shown
  BY <1>1
<1> QED BY <1>1, <1>2 DEF StoreStep

\* The lease file is opened, which shows nothing.
LEMMA NOpenLockShows ==
  ASSUME NInv, NEW p \in Procs, M!OpenLock(p) \/ (W!OpenLock(p) /\ (~lock.there => holder = NoProc))
  PROVE  StoreStep(W!Shown, W!Views, W!Shown', W!Views')
<1> USE NFacts
<1>1. /\ pc[p] = "out" /\ UNCHANGED <<marker, data, mem, new>>
      /\ \/ pc' = [pc EXCEPT ![p] = "verify"] /\ holder' = p /\ holder = NoProc
         \/ pc' = [pc EXCEPT ![p] = "opened"] /\ holder' = holder
  BY DEF M!OpenLock, W!OpenLock, M!Goto, W!Goto
<1>2. W!Views' = W!Views
  BY <1>1 DEF W!Views, W!Plain
<1>3. holder # p
  BY <1>1 DEF NPhase, W!Leased, W!Writing
<1>4. (holder' # NoProc /\ pc'[holder'] \in W!Writing) <=> (holder # NoProc /\ pc[holder] \in W!Writing)
  BY <1>1, <1>3 DEF W!Writing
<1>5. holder # NoProc /\ pc[holder] \in W!Writing => holder' = holder
  BY <1>1
<1>6. W!Shown' = W!Shown
  BY <1>1, <1>4, <1>5 DEF W!Shown, W!Plain
<1> QED BY <1>2, <1>6 DEF StoreStep

\* Nor does an open before it reads.
LEMMA NOpeningShows ==
  ASSUME NInv, NInv', NEW p \in Procs, W!TakeLease(p) \/ W!VerifyLease(p) \/ W!SyncLock(p)
  PROVE  StoreStep(W!Shown, W!Views, W!Shown', W!Views')
<1> USE NFacts
<1>1. CASE W!TakeLease(p)
  <2>1. pc[p] = "opened" /\ UNCHANGED <<marker, data>>
    BY <1>1 DEF W!TakeLease, W!files
  <2>2. CASE holder = NoProc
    <3>1. /\ holder' = p /\ pc'[p] = "verify" /\ UNCHANGED <<mem, new>>
          /\ \A q \in Procs : q # p => pc'[q] = pc[q]
      BY <1>1, <2>2 DEF W!TakeLease, W!Goto
    <3>2. W!Views' = W!Views
      BY <2>1, <3>1 DEF W!Views, W!Plain
    <3>3. W!Shown' = W!Shown
      BY <2>1, <2>2, <3>1 DEF W!Shown, W!Writing, W!Plain
    <3> QED BY <3>2, <3>3 DEF StoreStep
  <2>3. CASE holder # NoProc
    BY <1>1, <2>1, <2>3, NOutShows DEF W!TakeLease, NMarked, W!Writing
  <2> QED BY <2>2, <2>3
<1>2. CASE W!VerifyLease(p)
  <2>1. pc[p] = "verify" /\ UNCHANGED <<marker, data>>
    BY <1>2 DEF W!VerifyLease, W!Corrupt, W!files
  <2>2. pc[p] \in W!Leased /\ pc[p] \notin W!Writing
    BY <2>1 DEF W!Leased, W!Writing
  <2>3. CASE marker.seen
    BY <1>2, <2>1, <2>2, <2>3, NOutShows DEF W!VerifyLease, W!Corrupt, NMarked
  <2>4. CASE ~marker.seen
    <3>1. /\ pc'[p] \in {"syncLock", "read"} /\ UNCHANGED <<holder, mem, new>>
          /\ \A q \in Procs : q # p => pc'[q] = pc[q]
      BY <1>2, <2>4 DEF W!VerifyLease, W!Goto
    <3>2. pc'[p] \notin W!Writing /\ holder' = p /\ NView(p)' = NView(p) /\ NRest' = NRest
      BY <2>1, <2>2, <3>1 DEF W!Writing, NView, NRest, NMarked, NPhase, W!Plain
    <3> QED BY <2>2, <3>1, <3>2, NQuiet
  <2> QED BY <2>3, <2>4
<1>3. CASE W!SyncLock(p)
  <2>1. /\ pc[p] = "syncLock" /\ pc'[p] = "read" /\ UNCHANGED <<marker, data, holder, mem, new>>
        /\ \A q \in Procs : q # p => pc'[q] = pc[q]
    BY <1>3 DEF W!SyncLock, W!Goto
  <2>2. pc[p] \in W!Leased /\ pc[p] \notin W!Writing /\ pc'[p] \notin W!Writing
    BY <2>1 DEF W!Leased, W!Writing
  <2>3. holder' = p /\ NView(p)' = NView(p) /\ NRest' = NRest
    BY <2>1, <2>2 DEF NView, NRest, NMarked, NPhase, W!Plain
  <2> QED BY <2>1, <2>2, <2>3, NQuiet
<1> QED BY <1>1, <1>2, <1>3

\* The record that an open reads is the one that shows; one that is prepared
\* does not show.
LEMMA NPreparingShows ==
  ASSUME NInv, NInv', NEW p \in Procs,
         W!Read(p) \/ (\E c \in Creds : W!Save(p, c)) \/ W!Invalidate(p)
  PROVE  StoreStep(W!Shown, W!Views, W!Shown', W!Views')
<1> USE NFacts
<1>1. pc[p] \in {"read", "ready"} /\ UNCHANGED <<marker, data>>
  BY DEF W!Read, W!Save, W!Invalidate, W!Corrupt, W!files
<1>2. pc[p] \in W!Leased /\ pc[p] \notin W!Writing
  BY <1>1 DEF W!Leased, W!Writing
<1>3. holder = p /\ ~marker.seen
  BY <1>1, <1>2 DEF NPhase
<1>4. CASE W!Out(p)
  BY <1>1, <1>2, <1>4, NOutShows DEF NMarked
<1>5. CASE /\ pc'[p] = "write" /\ UNCHANGED holder
           /\ \A q \in Procs : q # p => pc'[q] = pc[q] /\ mem'[q] = mem[q] /\ new'[q] = new[q]
           /\ mem'[p] = mem[p] \/ (mem[p] = W!Nothing /\ mem'[p] = W!Fresh)
  <2>1. pc'[p] \notin W!Writing /\ holder' = p /\ NView(p)' = NView(p) /\ NRest' = NRest
    BY <1>1, <1>3, <1>5 DEF W!Writing, NView, NRest, NMarked, W!Plain
  <2> QED BY <1>2, <1>5, <2>1, NQuiet
<1>6. CASE /\ pc[p] = "read" /\ data.seen # W!Fresh /\ mem'[p] = data.seen /\ pc'[p] \in {"ready", "write"}
           /\ UNCHANGED holder
           /\ \A q \in Procs : q # p => pc'[q] = pc[q] /\ mem'[q] = mem[q] /\ new'[q] = new[q]
  <2>1. mem[p] = W!Nothing /\ data.seen \in W!Records
    BY <1>6 DEF NPhase, NWorks, W!Writing, NDisk
  <2>2. NView(p) = Storage!Nothing /\ NView(p)' = W!Plain(data.seen)
    <3>1. NView(p) = W!Plain(W!Nothing)
      BY <1>6, <2>1 DEF NView
    <3>2. NView(p)' = W!Plain(data.seen)
      BY <1>1, <1>6 DEF NView, W!Plain
    <3> QED BY <3>1, <3>2, NPlain
  <2>3. NRest = W!Plain(data.seen) /\ NRest' = W!Plain(data.seen) /\ pc'[p] \notin W!Writing
    BY <1>1, <1>3, <1>6 DEF NRest, NMarked, W!Writing, W!Plain
  <2>4. W!Plain(data.seen) # Storage!Fenced /\ W!Plain(data.seen) # Storage!Fresh
    BY <2>1, NPlain
  <2>5. /\ W!Shown = W!Plain(data.seen) /\ W!Shown' = W!Plain(data.seen)
        /\ W!Views' = [W!Views EXCEPT ![p] = W!Plain(data.seen)]
        /\ \A q \in Procs : W!Views[q] = Storage!Nothing
    BY <1>2, <1>3, <1>6, <2>2, <2>3, NGotoShows
  <2> QED BY <2>4, <2>5 DEF StoreStep, Opens
<1>7. CASE W!Read(p)
  <2>1. pc[p] = "read" /\ mem[p] = W!Nothing
    BY <1>7 DEF W!Read, NPhase, NWorks, W!Writing
  <2>2. CASE W!Corrupt(p)
    BY <1>4, <2>2 DEF W!Corrupt
  <2>3. CASE /\ mem' = [mem EXCEPT ![p] = W!Fresh]
             /\ new' = [new EXCEPT ![p] = NFirst] /\ W!Goto(p, "write") /\ UNCHANGED holder
    BY <1>5, <2>1, <2>3 DEF W!Goto
  <2>4. CASE /\ data.seen # W!Fresh /\ mem' = [mem EXCEPT ![p] = data.seen]
             /\ W!Goto(p, "ready") /\ UNCHANGED <<holder, new>>
    BY <1>6, <2>1, <2>4 DEF W!Goto
  <2>5. CASE /\ data.seen # W!Fresh /\ mem' = [mem EXCEPT ![p] = data.seen]
             /\ new' = [new EXCEPT ![p] = W!Rebound(data.seen)] /\ W!Goto(p, "write") /\ UNCHANGED holder
    BY <1>6, <2>1, <2>5 DEF W!Goto
  <2> QED BY <1>4, <1>7, <2>2, <2>3, <2>4, <2>5 DEF W!Read, NFirst
<1>8. ASSUME NEW c \in Creds, W!Save(p, c) PROVE StoreStep(W!Shown, W!Views, W!Shown', W!Views')
  BY <1>5, <1>8 DEF W!Save, W!Goto
<1>9. CASE W!Invalidate(p)
  BY <1>5, <1>9 DEF W!Invalidate, W!Goto
<1> QED BY <1>7, <1>8, <1>9

\* A record shows when its marker is cleared, to everyone at once.
LEMMA NWritingShows ==
  ASSUME NInv, NInv', NEW p \in Procs,
         \/ W!WriteMarker(p) \/ W!Stage(p) \/ W!Replace(p)
         \/ W!SyncData(p) \/ W!Clear(p) \/ W!ClearSync(p)
  PROVE  StoreStep(W!Shown, W!Views, W!Shown', W!Views')
<1> USE NFacts
<1>1. CASE W!WriteMarker(p) \/ W!Stage(p) \/ W!Replace(p) \/ W!SyncData(p)
  <2>1. /\ pc[p] \in {"write", "marked", "staged", "replaced"} /\ pc'[p] \in W!Writing
        /\ UNCHANGED <<holder, mem, new>>
        /\ \A q \in Procs : q # p => pc'[q] = pc[q]
        /\ pc'[p] # "sync"
    BY <1>1 DEF W!WriteMarker, W!Stage, W!Replace, W!SyncData, W!Goto, W!Writing
  <2>2. pc[p] \in W!Leased /\ (pc[p] \in W!Writing \/ pc[p] = "write")
    BY <2>1 DEF W!Leased, W!Writing
  <2>3. holder' = p /\ (pc[p] = "write" => ~marker.seen /\ mem[p] = data.seen)
    BY <2>1, <2>2 DEF NPhase
  <2>4. NView(p)' = NView(p)
    BY <2>1 DEF NView, W!Plain
  <2>5. pc[p] = "write" => NRest = W!Plain(mem[p])
    BY <2>3 DEF NRest, NMarked
  <2> QED BY <2>1, <2>2, <2>3, <2>4, <2>5, NQuiet
<1>2. CASE W!Clear(p)
  <2>1. /\ pc[p] = "durable" /\ pc'[p] = "sync" /\ UNCHANGED <<data, holder, mem, new>>
        /\ \A q \in Procs : q # p => pc'[q] = pc[q]
    BY <1>2 DEF W!Clear, W!Goto
  <2>2. pc[p] \in W!Leased /\ pc[p] \in W!Writing /\ pc'[p] \notin W!Writing
    BY <2>1 DEF W!Leased, W!Writing
  <2>3. /\ holder' = p /\ new[p] = data.seen /\ new[p] \in W!Records
        /\ mem[p] \in W!Records \cup {W!Fresh} /\ Changes(mem[p], new[p], W!Fresh, NFirst)
    BY <2>1, <2>2 DEF NPhase, NFirst
  <2>4. ~marker'.seen
    BY <1>2 DEF W!Clear, NDisk
  <2>5. NRest' = W!Plain(new[p]) /\ NView(p)' = W!Plain(new[p])
    BY <2>1, <2>3, <2>4 DEF NRest, NMarked, NView, W!Plain
  <2>6. /\ W!Shown = W!Plain(mem[p]) /\ W!Shown' = W!Plain(new[p])
        /\ W!Views' = [W!Views EXCEPT ![p] = W!Plain(new[p])] /\ W!Views[p] = NView(p)
        /\ NView(p) = Storage!Nothing => \A q \in Procs : W!Views[q] = Storage!Nothing
    BY <2>1, <2>2, <2>3, <2>5, NGotoShows
  <2>7. CASE mem[p] = W!Fresh
    <3>1. NView(p) = Storage!Nothing
      BY <2>1, <2>7, NPlain DEF NView
    <3>2. new[p] = NFirst
      BY <2>3, <2>7, StoresAssumption DEF Changes, W!Fresh, W!Pseudo
    <3>3. W!Plain(new[p]) = Storage!First
      BY <3>2 DEF W!Plain, NFirst, Storage!First
    <3>4. W!Plain(mem[p]) = Storage!Fresh /\ Storage!Fresh # Storage!Fenced
      BY <2>7, NPlain DEF Storage!Fresh, Storage!Fenced
    <3> QED BY <2>6, <3>1, <3>3, <3>4 DEF StoreStep, Opens
  <2>8. CASE mem[p] # W!Fresh
    <3>1. /\ mem[p] \in W!Records
          /\ \/ new[p].gen = mem[p].gen /\ new[p].cred \in Creds
             \/ mem[p].gen < MaxGen /\ new[p].gen = mem[p].gen + 1 /\ new[p].cred = NoCred
      BY <2>3, <2>8 DEF Changes
    <3>2. W!Views[p] = W!Plain(mem[p]) /\ W!Views[p] # Storage!Nothing /\ W!Views[p].gen = mem[p].gen
      BY <2>1, <2>6, <2>8, <3>1, NPlain DEF NView
    <3>3. W!Plain(new[p]) = [gen |-> new[p].gen, cred |-> new[p].cred]
      BY <2>3, NPlain
    <3>4. \/ \E c \in Creds : W!Plain(new[p]) = [gen |-> W!Views[p].gen, cred |-> c]
          \/ W!Views[p].gen < MaxGen /\ W!Plain(new[p]) = [gen |-> W!Views[p].gen + 1, cred |-> NoCred]
      BY <3>1, <3>2, <3>3
    <3> QED BY <2>6, <3>2, <3>4 DEF StoreStep, Alters
  <2> QED BY <2>7, <2>8
<1>3. CASE W!ClearSync(p)
  <2>1. /\ pc[p] = "sync" /\ pc'[p] = "ready" /\ UNCHANGED <<data, holder>>
        /\ mem'[p] = new[p]
        /\ \A q \in Procs : q # p => pc'[q] = pc[q] /\ mem'[q] = mem[q] /\ new'[q] = new[q]
    BY <1>3 DEF W!ClearSync, W!Goto
  <2>2. pc[p] \in W!Leased /\ pc[p] \notin W!Writing /\ pc'[p] \notin W!Writing
    BY <2>1 DEF W!Leased, W!Writing
  <2>3. holder' = p /\ new[p] \in W!Records /\ ~marker.seen
    BY <2>1, <2>2 DEF NPhase
  <2>4. ~marker'.seen
    BY <1>3, <2>3 DEF W!ClearSync, NDisk
  <2>5. NView(p)' = NView(p) /\ NRest' = NRest
    BY <2>1, <2>3, <2>4 DEF NView, NRest, NMarked, W!Plain
  <2> QED BY <2>1, <2>2, <2>3, <2>5, NQuiet
<1> QED BY <1>1, <1>2, <1>3

\* A write that fails behind its marker fences the store; any other end leaves
\* it as it was.
LEMMA NEndingShows ==
  ASSUME NInv, NInv', NEW p \in Procs, W!WriteFails(p) \/ W!Leave(p) \/ W!Crash(p)
  PROVE  StoreStep(W!Shown, W!Views, W!Shown', W!Views')
<1> USE NFacts
<1>1. CASE W!WriteFails(p)
  <2>1. /\ pc[p] \in {"write", "sync"} \cup W!Writing /\ W!Out(p) /\ UNCHANGED data
    BY <1>1 DEF W!WriteFails, W!Writing
  <2>2. pc[p] \in W!Leased /\ (pc[p] \notin W!Writing => ~marker.seen)
    BY <2>1 DEF NPhase, W!Leased
  <2>3. pc[p] \in W!Writing => NMarked'
    BY <1>1, NFailedMarker DEF NMarked
  <2>4. NMarked => pc[p] \in W!Writing
    BY <2>2 DEF NMarked
  <2> QED BY <2>1, <2>2, <2>3, <2>4, NOutShows
<1>2. CASE W!Leave(p)
  <2>1. W!Out(p) /\ UNCHANGED <<marker, data>> /\ pc[p] \notin W!Writing
    BY <1>2 DEF W!Leave, W!files, W!Writing
  <2> QED BY <2>1, NOutShows DEF NMarked
<1>3. CASE W!Crash(p)
  <2>1. W!Out(p) /\ UNCHANGED <<marker, data>>
    BY <1>3 DEF W!Crash, W!files
  <2>2. pc[p] \in W!Writing => marker.seen /\ marker.disk
    BY DEF NPhase
  <2> QED BY <2>1, <2>2, NOutShows DEF NMarked
<1> QED BY <1>1, <1>2, <1>3

\* A loss of power ends every view and shows the record or the fence; moving
\* the directory shows nothing.
LEMMA NWorldShows ==
  ASSUME NInv, NInv', W!WriteBack \/ W!PowerLoss \/ W!Move
  PROVE  StoreStep(W!Shown, W!Views, W!Shown', W!Views')
<1> USE NFacts
<1>1. CASE W!WriteBack
  <2>1. UNCHANGED <<holder, pc, mem, new>>
    BY <1>1 DEF W!WriteBack
  <2>2. W!Views' = W!Views
    BY <2>1 DEF W!Views, W!Plain
  <2>3. data'.seen = data.seen
    BY <1>1 DEF W!WriteBack, W!Written, NDisk
  <2>4. CASE NMarked' /\ ~NMarked
    <3>1. marker.seen /\ ~marker.disk
      BY <1>1, <2>4 DEF W!WriteBack, NDisk, NMarked
    <3>2. \A q \in Procs : pc[q] \notin NWorks
      BY <3>1 DEF NPhase, NWorks
    <3>3. \A q \in Procs : pc[q] # "sync" /\ mem[q] = W!Nothing
      BY <3>2 DEF NPhase, NWorks
    <3>4. W!Views' = [q \in Procs |-> Storage!Nothing]
      <4>1. W!Views' = [q \in Procs |-> W!Plain(W!Nothing)]
        BY <2>2, <3>3 DEF W!Views
      <4> QED BY <4>1, NPlain
    <3>5. holder # NoProc => pc'[holder] \notin W!Writing
      BY <2>1, <3>2 DEF NWorks
    <3>6. marker' = [seen |-> TRUE, disk |-> TRUE]
      BY <2>4 DEF NMarked, NInv, W!TypeOK
    <3>7. W!Shown' = Storage!Fenced
      BY <2>1, <3>5, <3>6 DEF W!Shown, Storage!Fenced
    <3> QED BY <3>4, <3>7 DEF StoreStep, Leaves
  <2>5. CASE NMarked' <=> NMarked
    <3>1. marker' = [seen |-> TRUE, disk |-> TRUE] <=> marker = [seen |-> TRUE, disk |-> TRUE]
      BY <2>5 DEF NMarked, NInv, W!TypeOK
    <3>2. W!Shown' = W!Shown
      BY <2>1, <2>3, <3>1 DEF W!Shown, W!Plain
    <3> QED BY <2>2, <3>2 DEF StoreStep
  <2>6. NMarked => NMarked'
    BY <1>1 DEF W!WriteBack, NMarked, NDisk
  <2> QED BY <2>4, <2>5, <2>6
<1>2. CASE W!PowerLoss
  <2>1. /\ holder' = NoProc /\ pc' = [p \in Procs |-> "out"] /\ mem' = [p \in Procs |-> W!Nothing]
        /\ data'.seen = data.disk
    BY <1>2 DEF W!PowerLoss
  <2>2. W!Views' = [p \in Procs |-> Storage!Nothing]
    <3>1. W!Views' = [q \in Procs |-> W!Plain(W!Nothing)]
      BY <2>1 DEF W!Views, W!Plain
    <3> QED BY <3>1, NPlain
  <2>3. W!Shown' = NRest'
    BY <2>1 DEF W!Shown, NRest, Storage!Fenced, NMarked, NInv, W!TypeOK
  <2>4. /\ lock.durable => marker'.seen = marker.disk /\ marker'.disk = marker.disk
        /\ ~lock.durable => ~marker'.seen /\ ~marker'.disk
    BY <1>2 DEF W!PowerLoss
  <2>5. CASE marker'.disk
    <3>1. marker'.seen
      BY <2>4, <2>5
    <3> QED BY <2>2, <2>3, <2>5, <3>1 DEF NRest, NMarked, StoreStep, Leaves
  <2>6. CASE ~marker'.disk
    <3>1. ~marker.disk
      BY <2>4, <2>6 DEF NFiles
    <3>2. data.disk = data.seen /\ \A q \in Procs : pc[q] \notin W!Writing
      BY <3>1 DEF NFiles, NPhase
    <3>3. W!Shown = W!Plain(data.seen)
      BY <3>1, <3>2, NShows DEF NRest, NMarked
    <3>4. W!Shown' = W!Plain(data.seen)
      BY <2>1, <2>3, <2>6, <3>2 DEF NRest, NMarked, W!Plain
    <3> QED BY <2>2, <3>3, <3>4 DEF StoreStep, Leaves
  <2> QED BY <2>5, <2>6
<1>3. CASE W!Move
  <2>1. UNCHANGED <<marker, data, holder, pc, mem, new>>
    BY <1>3 DEF W!Move, W!files
  <2>2. W!Shown' = W!Shown
    BY <2>1 DEF W!Shown, W!Plain
  <2>3. W!Views' = W!Views
    BY <2>1 DEF W!Views, W!Plain
  <2> QED BY <2>2, <2>3 DEF StoreStep
<1> QED BY <1>1, <1>2, <1>3

\* Every step of both backends is a step of CredentialStore.
LEMMA NRefines ==
  ASSUME NInv, ([W!Next]_W!vars /\ WCause) \/ [M!Next]_M!vars
  PROVE  StoreStep(W!Shown, W!Views, W!Shown', W!Views')
<1>0. NInv'
  BY WStep, MStep
<1>1. CASE NShared
  <2>1. ASSUME NEW p \in Procs,
               \/ W!TakeLease(p) \/ W!VerifyLease(p) \/ W!SyncLock(p) \/ W!Read(p)
               \/ W!Invalidate(p) \/ W!WriteMarker(p) \/ W!Stage(p) \/ W!Replace(p) \/ W!SyncData(p)
               \/ W!Clear(p) \/ W!ClearSync(p) \/ W!WriteFails(p) \/ W!Leave(p) \/ W!Crash(p)
        PROVE  StoreStep(W!Shown, W!Views, W!Shown', W!Views')
    BY <1>0, <2>1, NOpeningShows, NPreparingShows, NWritingShows, NEndingShows
  <2>2. ASSUME NEW p \in Procs, NEW c \in Creds, W!Save(p, c)
        PROVE  StoreStep(W!Shown, W!Views, W!Shown', W!Views')
    BY <1>0, <2>2, NPreparingShows
  <2> QED BY <1>0, <1>1, <2>1, <2>2, NWorldShows DEF NShared
<1>2. ASSUME NEW p \in Procs, M!OpenLock(p) PROVE StoreStep(W!Shown, W!Views, W!Shown', W!Views')
  BY <1>2, NOpenLockShows
<1>3. ASSUME NEW p \in Procs, W!OpenLock(p), WCause PROVE StoreStep(W!Shown, W!Views, W!Shown', W!Views')
  <2>1. ~lock.there => holder = NoProc
    <3>1. \A q \in Procs : holder = q => pc[q] # "out"
      BY NFacts DEF NPhase, W!Leased, W!Writing
    <3> QED BY <1>3, <3>1, NFacts DEF WCause
  <2> QED BY <1>3, <2>1, NOpenLockShows
<1>4. CASE UNCHANGED W!vars \/ UNCHANGED M!vars
  <2>1. UNCHANGED <<marker, data, holder, pc, mem, new>>
    BY <1>4 DEF W!vars, W!files, M!vars, M!files
  <2>2. W!Shown' = W!Shown
    BY <2>1 DEF W!Shown, W!Plain
  <2>3. W!Views' = W!Views
    BY <2>1 DEF W!Views, W!Plain
  <2> QED BY <2>2, <2>3 DEF StoreStep
<1> QED BY <1>1, <1>2, <1>3, <1>4, WSplit, MSplit

(***************************************************************************)
(* DPAPI                                                                   *)
(***************************************************************************)

\* The types of what is not a process's own.
DDisk ==
  /\ lock \in [there : BOOLEAN, durable : BOOLEAN]
  /\ data \in [seen : D!Records \cup {D!Fresh}, disk : D!Records \cup {D!Fresh}, flushed : BOOLEAN]
  /\ acked \in 0..4
  /\ losses \in 0..MaxLosses

\* The types of what is.
DOwn ==
  /\ pc \in [Procs -> D!Phases]
  /\ created \in [Procs -> BOOLEAN]
  /\ mem \in [Procs -> D!Records \cup {D!Nothing}]
  /\ new \in [Procs -> D!Records \cup {D!Nothing}]
  /\ held \in [Procs -> 0..MaxGen]

\* The record a new store starts from.
DFirst == [gen |-> 0, cred |-> NoCred, n |-> 0]

\* Facts every step starts from.
LEMMA DFacts ==
  ASSUME DInv
  PROVE  /\ DDisk /\ DOwn /\ DFiles /\ NoProc \notin Procs
         /\ holder \in Procs \cup {NoProc}
         /\ \A p \in Procs : DPhase(p)
         /\ D!Fresh \notin D!Records /\ D!Nothing \notin D!Records /\ D!Torn \notin D!Records
         /\ D!Fresh # D!Torn
         /\ DFirst \in D!Records
<1>1. /\ D!Fresh \notin D!Records /\ D!Nothing \notin D!Records /\ D!Torn \notin D!Records
      /\ D!Fresh # D!Torn
  BY StoresAssumption DEF D!Fresh, D!Nothing, D!Torn, D!Pseudo, D!Records
<1>2. DFirst \in D!Records
  BY StoresAssumption DEF D!Records, DFirst
<1> QED BY <1>1, <1>2, StoresAssumption DEF DInv, D!TypeOK, DDisk, DOwn

\* One process moves, which has the lease or is the first to take it.
LEMMA DMove ==
  ASSUME DInv, NEW p \in Procs, pc[p] # "out" \/ holder = NoProc,
         DDisk', DOwn', DFiles', DPhase(p)', holder' \in {p, NoProc},
         \A q \in Procs : q # p => pc'[q] = pc[q] /\ mem'[q] = mem[q] /\ new'[q] = new[q]
  PROVE  DInv'
<1>1. ASSUME NEW q \in Procs, q # p PROVE DPhase(q)'
  <2>1. DPhase(q) /\ DPhase(p) /\ NoProc \notin Procs
    BY DFacts
  <2>2. pc[q] = "out" /\ holder' # q
    BY <1>1, <2>1 DEF DPhase
  <2>3. mem[q] = D!Nothing /\ new[q] = D!Nothing
    BY <2>1, <2>2 DEF DPhase, DWorks
  <2> QED BY <1>1, <2>2, <2>3 DEF DPhase, DWorks
<1>2. D!TypeOK'
  BY DFacts DEF D!TypeOK, DDisk, DOwn
<1> QED BY <1>1, <1>2 DEF DInv

\* The storage is dropped or poisoned.
LEMMA DEnd ==
  ASSUME DInv, NEW p \in Procs, pc[p] # "out", D!Out(p) \/ D!Poison(p), UNCHANGED <<lock, data, acked, losses>>
  PROVE  DInv'
<1> USE DFacts
<1>1. DDisk' /\ DFiles' /\ holder = p
  BY DEF DDisk, DFiles, DPhase
<1>2. DOwn'
  <2>1. 0 \in 0..MaxGen
    BY StoresAssumption
  <2> QED BY <2>1 DEF DOwn, D!Out, D!Poison, D!Goto, D!Phases
<1>3. /\ mem'[p] = D!Nothing /\ new'[p] = D!Nothing /\ pc'[p] \in {"out", "poisoned"}
      /\ holder' \in {p, NoProc} /\ (pc'[p] # "out" <=> holder' = p)
      /\ \A q \in Procs : q # p => pc'[q] = pc[q] /\ mem'[q] = mem[q] /\ new'[q] = new[q]
  BY <1>1 DEF D!Out, D!Poison, D!Goto, DOwn
<1>4. DPhase(p)'
  BY <1>3 DEF DPhase, DWorks
<1> QED BY <1>1, <1>2, <1>3, <1>4, DMove

\* The lease and what is read under it.
LEMMA DOpening ==
  ASSUME DInv, NEW p \in Procs, D!TakeLease(p) \/ D!Read(p) \/ D!OpenFails(p) \/ D!Load(p)
  PROVE  DInv'
<1> USE DFacts
<1>1. CASE D!TakeLease(p)
  <2>1. /\ pc[p] = "out" /\ holder = NoProc /\ holder' = p /\ UNCHANGED <<data, mem, new, held, acked, losses>>
        /\ lock' = [lock EXCEPT !.there = TRUE]
        /\ created' = [created EXCEPT ![p] = ~lock.there] /\ pc' = [pc EXCEPT ![p] = "read"]
    BY <1>1 DEF D!TakeLease, D!Goto, D!Free
  <2>2. lock' \in [there : BOOLEAN, durable : BOOLEAN]
    BY <2>1 DEF DDisk
  <2>3. DDisk' /\ DFiles' /\ DOwn'
    <3>1. created' \in [Procs -> BOOLEAN] /\ pc' \in [Procs -> D!Phases]
      BY <2>1 DEF DOwn, D!Phases
    <3> QED BY <2>1, <2>2, <3>1 DEF DDisk, DFiles, DOwn
  <2>4. DPhase(p)'
    <3>1. pc'[p] = "read" /\ mem'[p] = D!Nothing /\ new'[p] = D!Nothing
      BY <2>1 DEF DOwn, DPhase, DWorks
    <3> QED BY <2>1, <3>1 DEF DPhase, DWorks
  <2>5. \A q \in Procs : q # p => pc'[q] = pc[q] /\ mem'[q] = mem[q] /\ new'[q] = new[q]
    BY <2>1 DEF DOwn
  <2> QED BY <2>1, <2>3, <2>4, <2>5, DMove
<1>2. CASE D!Read(p)
  <2>1. pc[p] = "read" /\ UNCHANGED <<lock, data, acked, losses>> /\ holder = p
    BY <1>2 DEF D!Read, DPhase
  <2>2. DDisk' /\ DFiles' /\ mem[p] = D!Nothing /\ new[p] = D!Nothing
    BY <2>1 DEF DDisk, DFiles, DPhase, DWorks
  <2>3. CASE D!Out(p)
    BY <2>1, <2>3, DEnd
  <2>4. CASE /\ data.seen \notin {D!Fresh, D!Torn} /\ mem' = [mem EXCEPT ![p] = data.seen] /\ D!Goto(p, "ready")
             /\ UNCHANGED <<holder, created, new, held>>
    <3>1. data.seen \in D!Records
      BY <2>4 DEF DDisk
    <3>2. DOwn'
      BY <2>4, <3>1 DEF DOwn, D!Goto, D!Phases
    <3>3. /\ mem'[p] = data.seen /\ pc'[p] = "ready" /\ new'[p] = D!Nothing
          /\ \A q \in Procs : q # p => pc'[q] = pc[q] /\ mem'[q] = mem[q] /\ new'[q] = new[q]
      BY <2>2, <2>4 DEF DOwn, D!Goto
    <3>4. DPhase(p)'
      BY <2>1, <2>4, <3>1, <3>3 DEF DPhase, DWorks
    <3> QED BY <2>1, <2>2, <2>4, <3>2, <3>3, <3>4, DMove
  <2>5. CASE /\ data.seen = D!Fresh /\ created[p] /\ new' = [new EXCEPT ![p] = DFirst] /\ D!Goto(p, "write")
             /\ UNCHANGED <<holder, created, mem, held>>
    <3>1. DOwn'
      BY <2>5 DEF DOwn, D!Goto, D!Phases
    <3>2. /\ mem'[p] = D!Nothing /\ pc'[p] = "write" /\ new'[p] = DFirst
          /\ \A q \in Procs : q # p => pc'[q] = pc[q] /\ mem'[q] = mem[q] /\ new'[q] = new[q]
      BY <2>2, <2>5 DEF DOwn, D!Goto
    <3>3. acked =< DFirst.n
      BY <2>5 DEF DFiles, D!Fresh, D!Pseudo, DFirst
    <3>4. Changes(D!Nothing, DFirst, D!Nothing, DFirst)
      BY DEF Changes
    <3>5. DPhase(p)'
      BY <2>1, <2>5, <3>2, <3>3, <3>4 DEF DPhase, DWorks, DFirst
    <3> QED BY <2>1, <2>2, <2>5, <3>1, <3>2, <3>5, DMove
  <2> QED BY <1>2, <2>3, <2>4, <2>5 DEF D!Read, D!MissingAllowed, DFirst
<1>3. CASE D!OpenFails(p)
  BY <1>3, DEnd DEF D!OpenFails
<1>4. CASE D!Load(p)
  <2>1. /\ pc[p] = "ready" /\ held' = [held EXCEPT ![p] = mem[p].gen]
        /\ UNCHANGED <<lock, holder, data, pc, created, mem, new, acked, losses>>
    BY <1>4 DEF D!Load
  <2>2. mem[p] \in D!Records /\ holder = p
    BY <2>1 DEF DPhase
  <2>3. held' \in [Procs -> 0..MaxGen]
    BY <2>1, <2>2 DEF DOwn, D!Records
  <2>4. DDisk' /\ DFiles' /\ DOwn'
    BY <2>1, <2>3 DEF DDisk, DFiles, DOwn
  <2>5. DPhase(p)'
    BY <2>1 DEF DPhase
  <2> QED BY <2>1, <2>2, <2>4, <2>5, DMove
<1> QED BY <1>1, <1>2, <1>3, <1>4

\* save and invalidate: a record with the next number is prepared.
LEMMA DPreparing ==
  ASSUME DInv, NEW p \in Procs, (\E c \in Creds : D!Save(p, c)) \/ D!Invalidate(p)
  PROVE  DInv'
<1> USE DFacts
<1>1. /\ pc[p] = "ready" /\ mem[p] = data.seen /\ mem[p] \in D!Records /\ holder = p
      /\ mem[p].gen \in 0..MaxGen /\ mem[p].n \in 0..4 /\ acked =< mem[p].n
      /\ mem[p].cred \in Creds \cup {NoCred} /\ MaxGen \in Nat /\ acked \in 0..4
  <2>1. pc[p] = "ready"
    BY DEF D!Save, D!Invalidate
  <2> QED BY <2>1, StoresAssumption DEF DPhase, D!Records, DFiles, DDisk
<1>2. ASSUME NEW g, NEW c, D!Commits(p, g, c),
             \/ g = mem[p].gen /\ c \in Creds
             \/ mem[p].gen < MaxGen /\ g = mem[p].gen + 1 /\ c = NoCred
      PROVE  DInv'
  <2> DEFINE n == [gen |-> g, cred |-> c, n |-> mem[p].n + 1]
  <2>1. /\ mem[p].n < 4 /\ new' = [new EXCEPT ![p] = n] /\ pc' = [pc EXCEPT ![p] = "write"]
        /\ UNCHANGED <<lock, holder, data, created, mem, held, acked, losses>>
    BY <1>2 DEF D!Commits, D!Goto
  <2>2. n \in D!Records /\ n.gen = g /\ n.cred = c /\ n.n = mem[p].n + 1
    BY <1>1, <1>2, <2>1 DEF D!Records
  <2>3. Changes(mem[p], n, D!Nothing, DFirst)
    BY <1>1, <1>2, <2>2 DEF Changes
  <2>4. acked =< n.n
    BY <1>1, <2>2
  <2> HIDE DEF n
  <2>5. /\ new'[p] = n /\ pc'[p] = "write" /\ DOwn'
        /\ \A q \in Procs : q # p => pc'[q] = pc[q] /\ mem'[q] = mem[q] /\ new'[q] = new[q]
    BY <2>1, <2>2 DEF DOwn, D!Phases
  <2>6. DDisk' /\ DFiles'
    BY <2>1 DEF DDisk, DFiles
  <2>7. DPhase(p)'
    BY <1>1, <2>1, <2>2, <2>3, <2>4, <2>5 DEF DPhase, DWorks, DFirst
  <2> QED BY <1>1, <2>1, <2>5, <2>6, <2>7, DMove
<1>3. ASSUME NEW c \in Creds, D!Save(p, c) PROVE DInv'
  BY <1>2, <1>3 DEF D!Save, D!CurrentVersion
<1>4. CASE D!Invalidate(p)
  <2>1. CASE mem[p].gen = MaxGen
    BY <1>1, <1>4, <2>1, DEnd DEF D!Invalidate
  <2>2. CASE mem[p].gen # MaxGen
    BY <1>1, <1>2, <1>4, <2>2 DEF D!Invalidate
  <2> QED BY <2>1, <2>2
<1> QED BY <1>3, <1>4

\* commit: the new file, its replacement, its flush, and how they end.
LEMMA DWriting ==
  ASSUME DInv, NEW p \in Procs,
         D!Stage(p) \/ D!Replace(p) \/ D!SyncData(p) \/ D!CommitFails(p) \/ D!Leave(p) \/ D!Crash(p)
  PROVE  DInv'
<1> USE DFacts
<1>1. CASE D!Stage(p)
  <2>1. /\ pc[p] = "write" /\ pc' = [pc EXCEPT ![p] = "staged"]
        /\ UNCHANGED <<lock, holder, data, created, mem, new, held, acked, losses>>
    BY <1>1 DEF D!Stage, D!Goto
  <2>2. pc'[p] = "staged" /\ DOwn' /\ \A q \in Procs : q # p => pc'[q] = pc[q]
    BY <2>1 DEF DOwn, D!Phases
  <2>3. DDisk' /\ DFiles' /\ holder = p
    BY <2>1 DEF DDisk, DFiles, DPhase
  <2>4. DPhase(p)'
    BY <2>1, <2>2, <2>3 DEF DPhase, DWorks
  <2> QED BY <2>1, <2>2, <2>3, <2>4, DMove
<1>2. CASE D!Replace(p)
  <2>1. /\ pc[p] = "staged" /\ pc' = [pc EXCEPT ![p] = "replaced"]
        /\ data' = [data EXCEPT !.seen = new[p], !.flushed = TRUE]
        /\ UNCHANGED <<lock, holder, created, mem, new, held, acked, losses>>
    BY <1>2 DEF D!Replace, D!Goto, D!StageFlushed
  <2>2. pc'[p] = "replaced" /\ DOwn' /\ \A q \in Procs : q # p => pc'[q] = pc[q]
    BY <2>1 DEF DOwn, D!Phases
  <2>3. holder = p /\ new[p] \in D!Records /\ acked =< new[p].n
    BY <2>1 DEF DPhase
  <2>4. /\ data' \in [seen : D!Records \cup {D!Fresh}, disk : D!Records \cup {D!Fresh}, flushed : BOOLEAN]
        /\ data'.seen = new[p] /\ data'.disk = data.disk /\ data'.flushed
    BY <2>1, <2>3 DEF DDisk
  <2>5. DDisk' /\ DFiles'
    BY <2>1, <2>3, <2>4 DEF DDisk, DFiles
  <2>6. DPhase(p)'
    BY <2>1, <2>2, <2>3, <2>4 DEF DPhase, DWorks
  <2> QED BY <2>1, <2>2, <2>3, <2>5, <2>6, DMove
<1>3. CASE D!SyncData(p)
  <2>1. /\ pc[p] = "replaced" /\ pc' = [pc EXCEPT ![p] = "ready"] /\ data' = D!Written
        /\ mem' = [mem EXCEPT ![p] = new[p]] /\ new' = [new EXCEPT ![p] = D!Nothing] /\ acked' = new[p].n
        /\ UNCHANGED <<lock, holder, created, held, losses>>
    BY <1>3 DEF D!SyncData, D!Goto
  <2>2. holder = p /\ new[p] \in D!Records /\ new[p] = data.seen /\ new[p].n \in 0..4
    BY <2>1 DEF DPhase, D!Records
  <2>3. /\ pc'[p] = "ready" /\ mem'[p] = data.seen /\ new'[p] = D!Nothing /\ DOwn'
        /\ \A q \in Procs : q # p => pc'[q] = pc[q] /\ mem'[q] = mem[q] /\ new'[q] = new[q]
    BY <2>1, <2>2 DEF DOwn, D!Phases
  <2>4. /\ data' \in [seen : D!Records \cup {D!Fresh}, disk : D!Records \cup {D!Fresh}, flushed : BOOLEAN]
        /\ data'.seen = data.seen /\ data'.disk = data.seen /\ data'.flushed
    BY <2>1 DEF D!Written, D!Entry, DDisk, DFiles
  <2>5. DDisk' /\ DFiles'
    BY <2>1, <2>2, <2>4 DEF DDisk, DFiles
  <2>6. DPhase(p)'
    BY <2>1, <2>2, <2>3, <2>4 DEF DPhase, DWorks
  <2> QED BY <2>1, <2>2, <2>3, <2>5, <2>6, DMove
<1>4. CASE D!CommitFails(p) \/ D!Leave(p) \/ D!Crash(p)
  BY <1>4, DEnd DEF D!CommitFails, D!Leave, D!Crash
<1> QED BY <1>1, <1>2, <1>3, <1>4

\* The system writes back; the power is lost, and with it what was not on disk.
LEMMA DWorld ==
  ASSUME DInv, D!WriteBack \/ D!PowerLoss
  PROVE  DInv'
<1> USE DFacts
<1>1. CASE D!WriteBack
  <2>1. UNCHANGED <<holder, pc, created, mem, new, held, acked, losses>>
    BY <1>1 DEF D!WriteBack
  <2>2. lock' \in [there : BOOLEAN, durable : BOOLEAN]
    BY <1>1 DEF D!WriteBack, DDisk
  <2>3. /\ data' \in [seen : D!Records \cup {D!Fresh}, disk : D!Records \cup {D!Fresh}, flushed : BOOLEAN]
        /\ data'.seen = data.seen /\ data'.disk \in {data.disk, data.seen} /\ data'.flushed
    BY <1>1 DEF D!WriteBack, D!Written, D!Entry, DDisk, DFiles
  <2>4. D!TypeOK' /\ DFiles'
    BY <2>1, <2>2, <2>3 DEF D!TypeOK, DDisk, DOwn, DFiles
  <2>5. ASSUME NEW q \in Procs PROVE DPhase(q)'
    <3>1. DPhase(q)
      OBVIOUS
    <3> QED BY <2>1, <2>3, <3>1 DEF DPhase
  <2> QED BY <2>4, <2>5 DEF DInv
<1>2. CASE D!PowerLoss
  <2>1. /\ holder' = NoProc /\ created' = created /\ acked' = acked
        /\ pc' = [p \in Procs |-> "out"] /\ held' = [p \in Procs |-> 0]
        /\ mem' = [p \in Procs |-> D!Nothing] /\ new' = [p \in Procs |-> D!Nothing]
    BY <1>2 DEF D!PowerLoss
  <2>2. lock' \in [there : BOOLEAN, durable : BOOLEAN]
    BY <1>2 DEF D!PowerLoss, DDisk
  <2>3. losses' \in 0..MaxLosses /\ 0 \in 0..MaxGen
    BY <1>2, StoresAssumption DEF D!PowerLoss, DDisk
  <2>4. /\ data' \in [seen : D!Records \cup {D!Fresh}, disk : D!Records \cup {D!Fresh}, flushed : BOOLEAN]
        /\ data'.seen = data.disk /\ data'.disk = data.disk /\ data'.flushed
    BY <1>2 DEF D!PowerLoss, DDisk
  <2>5. D!TypeOK'
    <3>1. DOwn'
      BY <2>1, <2>3 DEF DOwn, D!Phases
    <3> QED BY <2>1, <2>2, <2>3, <2>4, <3>1 DEF D!TypeOK, DOwn, DDisk
  <2>6. DFiles'
    BY <2>1, <2>4 DEF DFiles
  <2>7. ASSUME NEW q \in Procs PROVE DPhase(q)'
    BY <2>1 DEF DPhase, DWorks
  <2> QED BY <2>5, <2>6, <2>7 DEF DInv
<1> QED BY <1>1, <1>2

\* The steps of a machine that keeps running.
DRunning ==
  \/ \E p \in Procs :
       \/ D!TakeLease(p) \/ D!Read(p) \/ D!OpenFails(p) \/ D!Load(p) \/ D!Invalidate(p)
       \/ D!Stage(p) \/ D!Replace(p) \/ D!SyncData(p) \/ D!CommitFails(p) \/ D!Leave(p) \/ D!Crash(p)
  \/ \E p \in Procs, c \in Creds : D!Save(p, c)
  \/ D!WriteBack

\* They keep the invariant.
LEMMA DRunningStep == DInv /\ DRunning => DInv'
<1> SUFFICES ASSUME DInv, DRunning PROVE DInv'
  OBVIOUS
<1>1. ASSUME NEW p \in Procs,
             \/ D!TakeLease(p) \/ D!Read(p) \/ D!OpenFails(p) \/ D!Load(p) \/ D!Invalidate(p)
             \/ D!Stage(p) \/ D!Replace(p) \/ D!SyncData(p) \/ D!CommitFails(p) \/ D!Leave(p) \/ D!Crash(p)
      PROVE  DInv'
  BY <1>1, DOpening, DPreparing, DWriting
<1>2. ASSUME NEW p \in Procs, NEW c \in Creds, D!Save(p, c) PROVE DInv'
  BY <1>2, DPreparing
<1> QED BY <1>1, <1>2, DWorld DEF DRunning

\* Nothing changed.
LEMMA DStill == DInv /\ UNCHANGED D!vars => DInv'
BY DEF DInv, D!TypeOK, DFiles, DPhase, D!vars

\* Every step of the DPAPI adapter keeps the invariant.
LEMMA DStep == DInv /\ [D!Next]_D!vars => DInv'
<1>1. D!Next => DRunning \/ D!PowerLoss
  BY Zenon DEF D!Next, D!Steps, DRunning
<1> QED BY <1>1, DRunningStep, DWorld, DStill

\* A machine without power losses takes the other steps only.
LEMMA RSplit ==
  ASSUME losses = 0
  PROVE  R!Next => DRunning /\ losses' = 0
<1> USE DEF R!Goto, D!Goto, R!Nothing, D!Nothing, R!Fresh, D!Fresh, R!Pseudo, D!Pseudo, R!Out, D!Out,
            R!Poison, D!Poison, R!Commits, D!Commits
<1>1. ASSUME NEW p \in Procs
      PROVE  /\ R!TakeLease(p) => D!TakeLease(p) /\ losses' = losses
             /\ R!Read(p) => D!Read(p) /\ losses' = losses
             /\ R!OpenFails(p) => D!OpenFails(p) /\ losses' = losses
             /\ R!Load(p) => D!Load(p) /\ losses' = losses
             /\ R!Invalidate(p) => D!Invalidate(p) /\ losses' = losses
             /\ \A c \in Creds : R!Save(p, c) => D!Save(p, c) /\ losses' = losses
  <2>1. R!TakeLease(p) => D!TakeLease(p) /\ losses' = losses
    BY DEF R!TakeLease, D!TakeLease, R!Free, D!Free
  <2>2. R!Read(p) => D!Read(p) /\ losses' = losses
    BY DEF R!Read, D!Read, R!Torn, D!Torn, R!MissingAllowed, D!MissingAllowed
  <2>3. R!OpenFails(p) => D!OpenFails(p) /\ losses' = losses
    BY DEF R!OpenFails, D!OpenFails
  <2>4. R!Load(p) => D!Load(p) /\ losses' = losses
    BY DEF R!Load, D!Load
  <2>5. R!Invalidate(p) => D!Invalidate(p) /\ losses' = losses
    BY DEF R!Invalidate, D!Invalidate
  <2>6. \A c \in Creds : R!Save(p, c) => D!Save(p, c) /\ losses' = losses
    BY DEF R!Save, D!Save, R!CurrentVersion, D!CurrentVersion
  <2> QED BY <2>1, <2>2, <2>3, <2>4, <2>5, <2>6
<1>2. ASSUME NEW p \in Procs
      PROVE  /\ R!Stage(p) => D!Stage(p) /\ losses' = losses
             /\ R!Replace(p) => D!Replace(p) /\ losses' = losses
             /\ R!SyncData(p) => D!SyncData(p) /\ losses' = losses
             /\ R!CommitFails(p) => D!CommitFails(p) /\ losses' = losses
             /\ R!Leave(p) => D!Leave(p) /\ losses' = losses
             /\ R!Crash(p) => D!Crash(p) /\ losses' = losses
  <2>1. R!Stage(p) => D!Stage(p) /\ losses' = losses
    BY DEF R!Stage, D!Stage
  <2>2. R!Replace(p) => D!Replace(p) /\ losses' = losses
    BY DEF R!Replace, D!Replace, R!StageFlushed, D!StageFlushed
  <2>3. R!SyncData(p) => D!SyncData(p) /\ losses' = losses
    BY DEF R!SyncData, D!SyncData, R!Written, D!Written, R!Entry, D!Entry, R!Torn, D!Torn
  <2>4. R!CommitFails(p) => D!CommitFails(p) /\ losses' = losses
    BY DEF R!CommitFails, D!CommitFails
  <2>5. (R!Leave(p) => D!Leave(p) /\ losses' = losses) /\ (R!Crash(p) => D!Crash(p) /\ losses' = losses)
    BY DEF R!Leave, D!Leave, R!Crash, D!Crash
  <2> QED BY <2>1, <2>2, <2>3, <2>4, <2>5
<1>3. R!WriteBack => D!WriteBack /\ losses' = losses
  BY DEF R!WriteBack, D!WriteBack, R!Written, D!Written, R!Entry, D!Entry, R!Torn, D!Torn
<1>4. ~R!PowerLoss
  BY DEF R!PowerLoss
<1> QED BY <1>1, <1>2, <1>3, <1>4, Zenon DEF R!Next, R!Steps, DRunning

\* A new directory and nobody there.
LEMMA DStart == D!Init => DInv
<1> SUFFICES ASSUME D!Init PROVE DInv
  OBVIOUS
<1>1. D!TypeOK
  <2>1. lock \in [there : BOOLEAN, durable : BOOLEAN] /\ holder \in Procs \cup {NoProc}
    BY DEF D!Init
  <2>2. data \in [seen : D!Records \cup {D!Fresh}, disk : D!Records \cup {D!Fresh}, flushed : BOOLEAN]
    BY DEF D!Init
  <2>3. /\ pc \in [Procs -> D!Phases] /\ created \in [Procs -> BOOLEAN]
        /\ mem \in [Procs -> D!Records \cup {D!Nothing}] /\ new \in [Procs -> D!Records \cup {D!Nothing}]
    BY DEF D!Init, D!Phases
  <2>4. held \in [Procs -> 0..MaxGen] /\ acked \in 0..4 /\ losses \in 0..MaxLosses
    BY StoresAssumption DEF D!Init
  <2> QED BY <2>1, <2>2, <2>3, <2>4 DEF D!TypeOK
<1>2. DFiles
  BY DEF D!Init, DFiles, D!Fresh, D!Pseudo
<1>3. ASSUME NEW p \in Procs PROVE DPhase(p)
  BY StoresAssumption DEF D!Init, DPhase, DWorks
<1> QED BY <1>1, <1>2, <1>3 DEF DInv

(***************************************************************************)
(* DPAPI implements CredentialStore on a machine that keeps running        *)
(***************************************************************************)

\* What the adapter shows of a process, and when it shows nothing.
DView(p) == IF pc[p] = "replaced" THEN D!Plain(new[p]) ELSE D!Plain(mem[p])
DRefused == data.seen = D!Fresh /\ lock.there /\ (holder = NoProc \/ ~created[holder])

\* What shows is the record without its number.
LEMMA DPlain ==
  /\ D!Plain(D!Nothing) = Storage!Nothing /\ D!Plain(D!Fresh) = Storage!Fresh
  /\ D!Plain(DFirst) = Storage!First
  /\ \A r \in D!Records :
       /\ D!Plain(r) # Storage!Nothing /\ D!Plain(r) # Storage!Fresh /\ D!Plain(r) # Storage!Fenced
       /\ D!Plain(r).gen = r.gen /\ D!Plain(r) = [gen |-> r.gen, cred |-> r.cred]
<1>1. /\ D!Plain(D!Nothing) = Storage!Nothing /\ D!Plain(D!Fresh) = Storage!Fresh
      /\ D!Plain(DFirst) = Storage!First
  BY DEF D!Plain, D!Nothing, D!Fresh, D!Pseudo, DFirst, Storage!Nothing, Storage!Fresh, Storage!First
<1>2. ASSUME NEW r \in D!Records
      PROVE  /\ D!Plain(r) # Storage!Nothing /\ D!Plain(r) # Storage!Fresh /\ D!Plain(r) # Storage!Fenced
             /\ D!Plain(r).gen = r.gen /\ D!Plain(r) = [gen |-> r.gen, cred |-> r.cred]
  BY StoresAssumption DEF D!Plain, D!Records, Storage!Nothing, Storage!Fresh, Storage!Fenced
<1> QED BY <1>1, <1>2

\* What the store shows.
LEMMA DShows ==
  /\ D!Shown = IF DRefused THEN Storage!Fenced ELSE D!Plain(data.seen)
  /\ D!Shown' = IF DRefused' THEN Storage!Fenced ELSE D!Plain(data'.seen)
BY DEF D!Shown, DRefused, Storage!Fenced, D!Plain

\* The views change where the process that moves is, and nobody else has one.
LEMMA DViewsChange ==
  ASSUME DInv, NEW p \in Procs, pc[p] # "out" \/ holder = NoProc,
         \A q \in Procs : q # p => pc'[q] = pc[q] /\ mem'[q] = mem[q] /\ new'[q] = new[q]
  PROVE  /\ D!Views' = [D!Views EXCEPT ![p] = DView(p)']
         /\ D!Views[p] = DView(p)
         /\ DView(p)' = DView(p) => D!Views' = D!Views
         /\ DView(p) = Storage!Nothing => \A q \in Procs : D!Views[q] = Storage!Nothing
<1>1. D!Views = [q \in Procs |-> DView(q)] /\ D!Views' = [q \in Procs |-> DView(q)']
  BY DEF D!Views, DView, D!Plain
<1>2. \A q \in Procs : q # p => DView(q)' = DView(q)
  BY DEF DView, D!Plain
<1>3. ASSUME NEW q \in Procs, q # p PROVE DView(q) = Storage!Nothing
  <2>1. pc[q] = "out" /\ DPhase(q)
    BY <1>3, DFacts DEF DPhase
  <2>2. mem[q] = D!Nothing
    BY <2>1 DEF DPhase, DWorks
  <2> QED BY <2>1, <2>2, DPlain DEF DView
<1> QED BY <1>1, <1>2, <1>3

\* The storage is dropped or poisoned: its view goes, and what was written
\* stays; a store whose set-up did not come to an end is fenced.
LEMMA DEndShows ==
  ASSUME DInv, NEW p \in Procs, pc[p] # "out", D!Out(p) \/ D!Poison(p), UNCHANGED <<lock, data>>
  PROVE  StoreStep(D!Shown, D!Views, D!Shown', D!Views')
<1> USE DFacts
<1>1. holder = p /\ (holder' = NoProc \/ holder' = holder) /\ created' = created
  BY DEF D!Out, D!Poison, DPhase
<1>2. /\ mem'[p] = D!Nothing /\ pc'[p] # "replaced"
      /\ \A q \in Procs : q # p => pc'[q] = pc[q] /\ mem'[q] = mem[q] /\ new'[q] = new[q]
  BY DEF D!Out, D!Poison, D!Goto, DOwn
<1>3. D!Views' = [D!Views EXCEPT ![p] = Storage!Nothing]
  <2>1. DView(p)' = D!Plain(D!Nothing)
    BY <1>2 DEF DView, D!Plain
  <2> QED BY <1>2, <2>1, DPlain, DViewsChange
<1>4. DRefused => DRefused'
  BY <1>1 DEF DRefused
<1>5. D!Shown' \in {D!Shown, Storage!Fenced}
  BY <1>4, DShows
<1> QED BY <1>3, <1>5 DEF StoreStep, Leaves

\* A process takes the lease, loads or prepares a record, or flushes the one it
\* wrote: nothing new shows.
LEMMA DQuiet ==
  ASSUME DInv, NEW p \in Procs, pc[p] # "out" \/ holder = NoProc,
         \A q \in Procs : q # p => pc'[q] = pc[q] /\ mem'[q] = mem[q] /\ new'[q] = new[q],
         DView(p)' = DView(p), data'.seen = data.seen, DRefused' <=> DRefused
  PROVE  StoreStep(D!Shown, D!Views, D!Shown', D!Views')
<1>1. D!Views' = D!Views
  BY DViewsChange
<1>2. D!Shown' = D!Shown
  BY DShows
<1> QED BY <1>1, <1>2 DEF StoreStep

\* Opening the store.
LEMMA DOpeningShows ==
  ASSUME DInv, NEW p \in Procs, D!TakeLease(p) \/ D!Read(p) \/ D!OpenFails(p) \/ D!Load(p)
  PROVE  StoreStep(D!Shown, D!Views, D!Shown', D!Views')
<1> USE DFacts
<1>1. CASE D!TakeLease(p)
  <2>1. /\ pc[p] = "out" /\ holder = NoProc /\ holder' = p /\ UNCHANGED <<data, mem, new>>
        /\ lock' = [lock EXCEPT !.there = TRUE]
        /\ created' = [created EXCEPT ![p] = ~lock.there] /\ pc' = [pc EXCEPT ![p] = "read"]
    BY <1>1 DEF D!TakeLease, D!Goto, D!Free
  <2>2. lock'.there /\ (created'[p] <=> ~lock.there)
    BY <2>1 DEF DDisk, DOwn
  <2>3. DRefused' <=> DRefused
    BY <2>1, <2>2 DEF DRefused
  <2>4. /\ pc'[p] = "read" /\ \A q \in Procs : q # p => pc'[q] = pc[q]
    BY <2>1 DEF DOwn
  <2>5. DView(p)' = DView(p)
    BY <2>1, <2>4 DEF DView, D!Plain
  <2> QED BY <2>1, <2>3, <2>4, <2>5, DQuiet
<1>2. CASE D!Read(p)
  <2>1. pc[p] = "read" /\ UNCHANGED <<lock, data>> /\ holder = p /\ mem[p] = D!Nothing
    BY <1>2 DEF D!Read, DPhase, DWorks
  <2>2. DView(p) = Storage!Nothing
    BY <2>1, DPlain DEF DView
  <2>3. CASE D!Out(p)
    BY <2>1, <2>3, DEndShows
  <2>4. CASE /\ data.seen \notin {D!Fresh, D!Torn} /\ mem' = [mem EXCEPT ![p] = data.seen] /\ D!Goto(p, "ready")
             /\ UNCHANGED <<holder, created, new>>
    <3>1. data.seen \in D!Records
      BY <2>4 DEF DDisk
    <3>2. /\ mem'[p] = data.seen /\ pc'[p] = "ready"
          /\ \A q \in Procs : q # p => pc'[q] = pc[q] /\ mem'[q] = mem[q] /\ new'[q] = new[q]
      BY <2>4 DEF DOwn, D!Goto
    <3>3. DView(p)' = D!Plain(data.seen)
      BY <3>2 DEF DView, D!Plain
    <3>4. D!Shown = D!Plain(data.seen) /\ D!Shown' = D!Plain(data.seen)
      BY <2>1, <2>4, DShows DEF DRefused
    <3>5. /\ D!Views' = [D!Views EXCEPT ![p] = D!Plain(data.seen)]
          /\ \A q \in Procs : D!Views[q] = Storage!Nothing
      BY <2>1, <2>2, <3>2, <3>3, DViewsChange
    <3> QED BY <3>1, <3>4, <3>5, DPlain DEF StoreStep, Opens
  <2>5. CASE /\ new' = [new EXCEPT ![p] = DFirst] /\ D!Goto(p, "write") /\ UNCHANGED <<holder, created, mem>>
    <3>1. /\ pc'[p] = "write" /\ \A q \in Procs : q # p => pc'[q] = pc[q] /\ mem'[q] = mem[q] /\ new'[q] = new[q]
      BY <2>5 DEF DOwn, D!Goto
    <3>2. DView(p)' = DView(p) /\ (DRefused' <=> DRefused)
      BY <2>1, <2>5, <3>1 DEF DView, D!Plain, DRefused
    <3> QED BY <2>1, <3>1, <3>2, DQuiet
  <2> QED BY <1>2, <2>3, <2>4, <2>5 DEF D!Read, DFirst
<1>3. CASE D!OpenFails(p)
  BY <1>3, DEndShows DEF D!OpenFails
<1>4. CASE D!Load(p)
  <2>1. pc[p] = "ready" /\ UNCHANGED <<lock, holder, data, pc, created, mem, new>>
    BY <1>4 DEF D!Load
  <2>2. DView(p)' = DView(p) /\ (DRefused' <=> DRefused)
    BY <2>1 DEF DView, D!Plain, DRefused
  <2> QED BY <2>1, <2>2, DQuiet
<1> QED BY <1>1, <1>2, <1>3, <1>4

\* Writing: the replacement of the file is the moment a write takes effect.
LEMMA DWritingShows ==
  ASSUME DInv, NEW p \in Procs,
         \/ (\E c \in Creds : D!Save(p, c)) \/ D!Invalidate(p)
         \/ D!Stage(p) \/ D!Replace(p) \/ D!SyncData(p) \/ D!CommitFails(p) \/ D!Leave(p) \/ D!Crash(p)
  PROVE  StoreStep(D!Shown, D!Views, D!Shown', D!Views')
<1> USE DFacts
<1>1. ASSUME pc[p] \in {"ready", "write"}, UNCHANGED <<lock, holder, data, created, mem>>,
             pc'[p] \in {"write", "staged"},
             \A q \in Procs : q # p => pc'[q] = pc[q] /\ new'[q] = new[q]
      PROVE  StoreStep(D!Shown, D!Views, D!Shown', D!Views')
  <2>1. DView(p)' = DView(p) /\ (DRefused' <=> DRefused)
    BY <1>1 DEF DView, D!Plain, DRefused
  <2> QED BY <1>1, <2>1, DQuiet
<1>2. ASSUME NEW g, NEW c, pc[p] = "ready", D!Commits(p, g, c)
      PROVE  StoreStep(D!Shown, D!Views, D!Shown', D!Views')
  BY <1>1, <1>2 DEF D!Commits, D!Goto, DOwn
<1>3. ASSUME NEW c \in Creds, D!Save(p, c) PROVE StoreStep(D!Shown, D!Views, D!Shown', D!Views')
  BY <1>2, <1>3 DEF D!Save
<1>4. CASE D!Invalidate(p)
  <2>1. CASE mem[p].gen = MaxGen
    BY <1>4, <2>1, DEndShows DEF D!Invalidate
  <2>2. CASE mem[p].gen # MaxGen
    BY <1>2, <1>4, <2>2 DEF D!Invalidate
  <2> QED BY <2>1, <2>2
<1>5. CASE D!Stage(p)
  BY <1>1, <1>5 DEF D!Stage, D!Goto, DOwn
<1>6. CASE D!Replace(p)
  <2>1. /\ pc[p] = "staged" /\ pc' = [pc EXCEPT ![p] = "replaced"]
        /\ data' = [data EXCEPT !.seen = new[p], !.flushed = TRUE]
        /\ UNCHANGED <<lock, holder, created, mem, new>>
    BY <1>6 DEF D!Replace, D!Goto, D!StageFlushed
  <2>2. /\ holder = p /\ new[p] \in D!Records /\ Changes(mem[p], new[p], D!Nothing, DFirst)
        /\ \/ mem[p] = data.seen /\ mem[p] \in D!Records
           \/ mem[p] = D!Nothing /\ data.seen = D!Fresh /\ created[p]
    BY <2>1 DEF DPhase, DFirst
  <2>3. pc'[p] = "replaced" /\ (\A q \in Procs : q # p => pc'[q] = pc[q]) /\ data'.seen = new[p]
    BY <2>1 DEF DOwn, DDisk
  <2>4. DView(p) = D!Plain(mem[p]) /\ DView(p)' = D!Plain(new[p])
    BY <2>1, <2>3 DEF DView, D!Plain
  <2>5. ~DRefused /\ ~DRefused'
    BY <2>2, <2>3 DEF DRefused
  <2>6. D!Shown = D!Plain(data.seen) /\ D!Shown' = D!Plain(new[p])
    BY <2>3, <2>5, DShows
  <2>7. /\ D!Views' = [D!Views EXCEPT ![p] = D!Plain(new[p])] /\ D!Views[p] = D!Plain(mem[p])
        /\ DView(p) = Storage!Nothing => \A q \in Procs : D!Views[q] = Storage!Nothing
    BY <2>1, <2>3, <2>4, DViewsChange
  <2>8. CASE mem[p] = D!Nothing /\ data.seen = D!Fresh
    <3>1. new[p] = DFirst
      BY <2>2, <2>8, StoresAssumption DEF Changes, D!Nothing, D!Pseudo
    <3>2. Storage!Fresh # Storage!Fenced
      BY DEF Storage!Fresh, Storage!Fenced
    <3> QED BY <2>4, <2>6, <2>7, <2>8, <3>1, <3>2, DPlain DEF StoreStep, Opens
  <2>9. CASE mem[p] \in D!Records
    <3>1. \/ new[p].gen = mem[p].gen /\ new[p].cred \in Creds
          \/ mem[p].gen < MaxGen /\ new[p].gen = mem[p].gen + 1 /\ new[p].cred = NoCred
      BY <2>2, <2>9 DEF Changes
    <3>2. D!Views[p] # Storage!Nothing /\ D!Views[p].gen = mem[p].gen
      BY <2>7, <2>9, DPlain
    <3>3. D!Plain(new[p]) = [gen |-> new[p].gen, cred |-> new[p].cred]
      BY <2>2, DPlain
    <3>4. \/ \E c \in Creds : D!Plain(new[p]) = [gen |-> D!Views[p].gen, cred |-> c]
          \/ D!Views[p].gen < MaxGen /\ D!Plain(new[p]) = [gen |-> D!Views[p].gen + 1, cred |-> NoCred]
      BY <3>1, <3>2, <3>3
    <3> QED BY <2>6, <2>7, <3>2, <3>4 DEF StoreStep, Alters
  <2> QED BY <2>2, <2>8, <2>9
<1>7. CASE D!SyncData(p)
  <2>1. /\ pc[p] = "replaced" /\ pc' = [pc EXCEPT ![p] = "ready"] /\ data' = D!Written
        /\ mem' = [mem EXCEPT ![p] = new[p]] /\ new' = [new EXCEPT ![p] = D!Nothing]
        /\ UNCHANGED <<lock, holder, created>>
    BY <1>7 DEF D!SyncData, D!Goto
  <2>2. data'.seen = data.seen /\ (DRefused' <=> DRefused)
    BY <2>1 DEF D!Written, DDisk, DRefused
  <2>3. /\ pc'[p] = "ready" /\ mem'[p] = new[p]
        /\ \A q \in Procs : q # p => pc'[q] = pc[q] /\ mem'[q] = mem[q] /\ new'[q] = new[q]
    BY <2>1 DEF DOwn
  <2>4. DView(p)' = DView(p)
    BY <2>1, <2>3 DEF DView, D!Plain
  <2> QED BY <2>1, <2>2, <2>3, <2>4, DQuiet
<1>8. CASE D!CommitFails(p) \/ D!Leave(p) \/ D!Crash(p)
  BY <1>8, DEndShows DEF D!CommitFails, D!Leave, D!Crash
<1> QED BY <1>3, <1>4, <1>5, <1>6, <1>7, <1>8

\* Every step of the adapter on a running machine is a step of CredentialStore.
LEMMA RRefines ==
  ASSUME DInv, losses = 0, [R!Next]_R!vars
  PROVE  StoreStep(D!Shown, D!Views, D!Shown', D!Views')
<1>1. CASE DRunning
  <2>1. ASSUME NEW p \in Procs,
               \/ D!TakeLease(p) \/ D!Read(p) \/ D!OpenFails(p) \/ D!Load(p) \/ D!Invalidate(p)
               \/ D!Stage(p) \/ D!Replace(p) \/ D!SyncData(p) \/ D!CommitFails(p) \/ D!Leave(p) \/ D!Crash(p)
        PROVE  StoreStep(D!Shown, D!Views, D!Shown', D!Views')
    BY <2>1, DOpeningShows, DWritingShows
  <2>2. ASSUME NEW p \in Procs, NEW c \in Creds, D!Save(p, c)
        PROVE  StoreStep(D!Shown, D!Views, D!Shown', D!Views')
    BY <2>2, DWritingShows
  <2>3. CASE D!WriteBack
    <3>1. UNCHANGED <<holder, pc, created, mem, new>>
      BY <2>3 DEF D!WriteBack
    <3>2. data'.seen = data.seen /\ lock'.there = lock.there
      BY <2>3, DFacts DEF D!WriteBack, D!Written, DDisk
    <3>3. D!Views' = D!Views
      BY <3>1 DEF D!Views, D!Plain
    <3>4. D!Shown' = D!Shown
      BY <3>1, <3>2, DShows DEF DRefused
    <3> QED BY <3>3, <3>4 DEF StoreStep
  <2> QED BY <1>1, <2>1, <2>2, <2>3 DEF DRunning
<1>2. CASE UNCHANGED R!vars
  <2>1. UNCHANGED <<lock, data, holder, pc, created, mem, new>>
    BY <1>2 DEF R!vars
  <2>2. D!Views' = D!Views
    BY <2>1 DEF D!Views, D!Plain
  <2>3. D!Shown' = D!Shown
    BY <2>1, DShows DEF DRefused
  <2> QED BY <2>2, <2>3 DEF StoreStep
<1> QED BY <1>1, <1>2, RSplit

(***************************************************************************)
(* The profiles of the command line tool                                   *)
(***************************************************************************)

\* A command moves and leaves the file alone.
LEMMA PMove ==
  ASSUME PInv, NEW p \in Procs, pc[p] # "out",
         NEW l \in {"out", "save", "written"}, P!Goto(p, l),
         UNCHANGED <<file, name, runs, losses, saved, want, overlap>>,
         stray' \in BOOLEAN, crashed' \in BOOLEAN, stray' => crashed',
         NEW s \in P!Stores, store' = [store EXCEPT ![p] = s],
         l # "out" /\ ~overlap => s = [want EXCEPT ![name[p]] = s[name[p]]]
  PROVE  PInv'
<1>1. pc' \in [Procs -> {"out", "set", "remove", "save", "written"}] /\ store' \in [Procs -> P!Stores]
  BY DEF PInv, P!TypeOK, P!Goto
<1>2. P!TypeOK'
  BY <1>1 DEF PInv, P!TypeOK
<1>3. /\ pc'[p] = l /\ store'[p] = s
      /\ \A q \in Procs : q # p => pc'[q] = pc[q] /\ store'[q] = store[q]
  BY DEF PInv, P!TypeOK, P!Goto
<1>4. ASSUME NEW q \in Procs PROVE PAlone(q)'
  <2>1. CASE q = p
    <3>1. PAlone(p)
      BY DEF PInv
    <3> QED BY <1>3, <2>1, <3>1 DEF PAlone
  <2>2. CASE q # p
    <3>1. PAlone(q) /\ PAlone(p)
      BY DEF PInv
    <3>2. ~overlap => pc[q] = "out"
      BY <2>2, <3>1 DEF PAlone
    <3> QED BY <1>3, <2>2, <3>2 DEF PAlone
  <2> QED BY <2>1, <2>2
<1>5. file'.flushed /\ file'.seen \in saved' /\ file'.disk \in saved' /\ (~overlap' => file'.seen = want')
  BY DEF PInv
<1> QED BY <1>2, <1>4, <1>5 DEF PInv

\* A command that ends leaves its store where it was.
LEMMA PEnds ==
  ASSUME PInv, NEW p \in Procs, P!GiveUp(p) \/ P!WriteNew(p) \/ P!SaveFails(p) \/ P!Kill(p)
  PROVE  PInv'
<1>1. /\ pc[p] # "out" /\ store[p] \in P!Stores /\ store = [store EXCEPT ![p] = store[p]]
  BY DEF P!GiveUp, P!WriteNew, P!SaveFails, P!Kill, PInv, P!TypeOK
<1>2. stray \in BOOLEAN /\ crashed \in BOOLEAN /\ (stray => crashed)
  BY DEF PInv, P!TypeOK
<1>3. CASE P!GiveUp(p)
  BY <1>1, <1>2, <1>3, PMove DEF P!GiveUp
<1>4. CASE P!WriteNew(p)
  <2>1. pc[p] = "save"
    BY <1>4 DEF P!WriteNew
  <2>2. ~overlap => store[p] = [want EXCEPT ![name[p]] = store[p][name[p]]]
    <3>1. PAlone(p)
      BY DEF PInv
    <3> QED BY <2>1, <3>1 DEF PAlone
  <2> QED BY <1>1, <1>2, <1>4, <2>2, PMove DEF P!WriteNew
<1>5. CASE P!SaveFails(p)
  BY <1>1, <1>2, <1>5, PMove DEF P!SaveFails, P!AfterFailure
<1>6. CASE P!Kill(p)
  <2>1. stray' \in BOOLEAN /\ crashed' = TRUE
    BY <1>2, <1>6 DEF P!Kill
  <2>2. /\ P!Goto(p, "out") /\ UNCHANGED <<file, name, store, runs, losses, saved, want, overlap>>
    BY <1>6 DEF P!Kill
  <2>3. crashed' \in BOOLEAN /\ (stray' => crashed')
    BY <2>1
  <2> QED BY <1>1, <2>1, <2>2, <2>3, PMove
<1> QED BY <1>3, <1>4, <1>5, <1>6

\* set and remove change the profile they name.
LEMMA PChanges ==
  ASSUME PInv, NEW p \in Procs, (\E t \in {"t1", "t2"} : P!Set(p, t)) \/ P!Remove(p)
  PROVE  PInv'
<1>1. PICK t \in {"t1", "t2", "none"} :
        /\ pc[p] \in {"set", "remove"}
        /\ store' = [store EXCEPT ![p] = [store[p] EXCEPT ![name[p]] = t]]
        /\ P!Goto(p, "save")
        /\ UNCHANGED <<file, name, stray, runs, losses, saved, want, overlap, crashed>>
  <2>1. ASSUME NEW t \in {"t1", "t2"}, P!Set(p, t)
        PROVE  \E u \in {"t1", "t2", "none"} : store' = [store EXCEPT ![p] = [store[p] EXCEPT ![name[p]] = u]]
    BY <2>1 DEF P!Set, P!Inserted
  <2>2. P!Remove(p) => store' = [store EXCEPT ![p] = [store[p] EXCEPT ![name[p]] = "none"]]
    BY DEF P!Remove
  <2>3. \E u \in {"t1", "t2", "none"} : store' = [store EXCEPT ![p] = [store[p] EXCEPT ![name[p]] = u]]
    BY <2>1, <2>2
  <2>4. /\ pc[p] \in {"set", "remove"} /\ P!Goto(p, "save")
        /\ UNCHANGED <<file, name, stray, runs, losses, saved, want, overlap, crashed>>
    BY DEF P!Set, P!Remove
  <2> QED BY <2>3, <2>4
<1> DEFINE s == [store[p] EXCEPT ![name[p]] = t]
<1>2. store[p] \in P!Stores /\ name[p] \in {"n1", "n2"} /\ want \in P!Stores
  BY DEF PInv, P!TypeOK
<1>3. s \in P!Stores /\ s[name[p]] = t
  BY <1>2 DEF P!Stores
<1>4. ~overlap => s = [want EXCEPT ![name[p]] = s[name[p]]]
  <2>1. PAlone(p)
    BY DEF PInv
  <2>2. ~overlap => store[p] = want
    BY <1>1, <2>1 DEF PAlone
  <2> QED BY <1>3, <2>2
<1>5. stray' \in BOOLEAN /\ crashed' \in BOOLEAN /\ (stray' => crashed')
  BY <1>1 DEF PInv, P!TypeOK
<1> HIDE DEF s
<1> QED BY <1>1, <1>3, <1>4, <1>5, PMove DEF s

\* A command starts from the file.
LEMMA PLoads ==
  ASSUME PInv, NEW p \in Procs, NEW n \in {"n1", "n2"}, NEW c \in {"set", "remove"}, P!Load(p, n, c)
  PROVE  PInv'
<1>1. /\ pc[p] = "out" /\ runs < 3 /\ runs' = runs + 1 /\ store' = [store EXCEPT ![p] = file.seen]
      /\ name' = [name EXCEPT ![p] = n] /\ pc' = [pc EXCEPT ![p] = c]
      /\ overlap' = (overlap \/ \E q \in Procs : pc[q] # "out")
      /\ UNCHANGED <<file, stray, losses, saved, want, crashed>>
  BY DEF P!Load, P!Goto
<1>2. P!TypeOK'
  <2>1. pc' \in [Procs -> {"out", "set", "remove", "save", "written"}] /\ name' \in [Procs -> {"n1", "n2"}]
    BY <1>1 DEF PInv, P!TypeOK
  <2>2. store' \in [Procs -> P!Stores]
    BY <1>1 DEF PInv, P!TypeOK
  <2>3. runs' \in 0..3
    BY <1>1 DEF PInv, P!TypeOK
  <2>4. overlap' \in BOOLEAN
    BY <1>1
  <2> QED BY <1>1, <2>1, <2>2, <2>3, <2>4 DEF PInv, P!TypeOK
<1>3. ~overlap' => ~overlap /\ file.seen = want /\ \A q \in Procs : pc[q] = "out"
  BY <1>1 DEF PInv
<1>4. /\ pc'[p] = c /\ store'[p] = file.seen /\ \A q \in Procs : q # p => pc'[q] = pc[q]
  BY <1>1 DEF PInv, P!TypeOK
<1>5. ASSUME NEW q \in Procs PROVE PAlone(q)'
  <2>1. ~overlap' /\ pc'[q] # "out" => q = p
    BY <1>3, <1>4
  <2> QED BY <1>1, <1>3, <1>4, <2>1 DEF PAlone
<1>6. /\ file'.flushed /\ file'.seen \in saved' /\ file'.disk \in saved'
      /\ ~overlap' => file'.seen = want'
      /\ stray' => crashed'
  BY <1>1, <1>3 DEF PInv
<1> QED BY <1>2, <1>5, <1>6 DEF PInv

\* The file is replaced by the command's store.
LEMMA PPublishes ==
  ASSUME PInv, NEW p \in Procs, P!Rename(p) \/ P!RemoveFile(p)
  PROVE  PInv'
<1>1. /\ pc[p] \in {"save", "written"} /\ pc' = [pc EXCEPT ![p] = "out"]
      /\ file' = [file EXCEPT !.seen = store[p], !.flushed = TRUE]
      /\ saved' = saved \cup {store[p]}
      /\ want' = [want EXCEPT ![name[p]] = store[p][name[p]]]
      /\ UNCHANGED <<name, store, stray, runs, losses, overlap, crashed>>
  BY DEF P!Rename, P!RemoveFile, P!Publish, P!Goto, P!Synced
<1>2. store[p] \in P!Stores /\ name[p] \in {"n1", "n2"} /\ want \in P!Stores
  BY DEF PInv, P!TypeOK
<1>3. /\ file' \in [seen : P!Stores, disk : P!Stores, flushed : BOOLEAN]
      /\ file'.seen = store[p] /\ file'.disk = file.disk /\ file'.flushed
  BY <1>1, <1>2 DEF PInv, P!TypeOK
<1>4. P!TypeOK'
  <2>1. want' \in P!Stores
    BY <1>1, <1>2 DEF P!Stores
  <2>2. pc' \in [Procs -> {"out", "set", "remove", "save", "written"}] /\ saved' \subseteq P!Stores
    BY <1>1, <1>2 DEF PInv, P!TypeOK
  <2> QED BY <1>1, <1>3, <2>1, <2>2 DEF PInv, P!TypeOK
<1>5. PAlone(p)
  BY DEF PInv
<1>6. ~overlap => store[p] = want'
  BY <1>1, <1>5 DEF PAlone
<1>7. ASSUME NEW q \in Procs PROVE PAlone(q)'
  <2>1. ~overlap => pc'[q] = "out"
    BY <1>1, <1>5 DEF PAlone, PInv, P!TypeOK
  <2> QED BY <1>1, <2>1 DEF PAlone
<1>8. /\ file'.seen \in saved' /\ file'.disk \in saved'
      /\ ~overlap' => file'.seen = want'
      /\ stray' => crashed'
  BY <1>1, <1>3, <1>6 DEF PInv
<1> QED BY <1>3, <1>4, <1>7, <1>8 DEF PInv

\* The system writes back, or the power is lost.
LEMMA PWorld ==
  ASSUME PInv, P!WriteBack \/ P!PowerLoss
  PROVE  PInv'
<1>1. CASE P!WriteBack
  <2>1. UNCHANGED <<pc, name, store, stray, runs, losses, saved, want, overlap, crashed>>
    BY <1>1 DEF P!WriteBack
  <2>2. /\ file' \in [seen : P!Stores, disk : P!Stores, flushed : BOOLEAN]
        /\ file'.seen = file.seen /\ file'.disk = file.seen /\ file'.flushed
    BY <1>1 DEF P!WriteBack, P!Entry, PInv, P!TypeOK
  <2>3. P!TypeOK'
    BY <2>1, <2>2 DEF PInv, P!TypeOK
  <2>4. \A q \in Procs : PAlone(q)'
    BY <2>1 DEF PInv, PAlone
  <2> QED BY <2>1, <2>2, <2>3, <2>4 DEF PInv
<1>2. CASE P!PowerLoss
  <2>1. /\ losses < 1 /\ losses' = losses + 1 /\ pc' = [p \in Procs |-> "out"] /\ overlap' = TRUE /\ crashed' = TRUE
        /\ stray' = (stray \/ \E p \in Procs : pc[p] = "written")
        /\ file' = [seen |-> file.disk, disk |-> file.disk, flushed |-> TRUE]
        /\ UNCHANGED <<name, store, runs, saved, want>>
    BY <1>2 DEF P!PowerLoss
  <2>2. /\ file' \in [seen : P!Stores, disk : P!Stores, flushed : BOOLEAN]
        /\ file'.seen = file.disk /\ file'.disk = file.disk /\ file'.flushed
    BY <2>1 DEF PInv, P!TypeOK
  <2>3. losses' \in 0..1
    BY <2>1 DEF PInv, P!TypeOK
  <2>4. stray' \in BOOLEAN /\ overlap' \in BOOLEAN /\ crashed' \in BOOLEAN
    BY <2>1
  <2>5. pc' \in [Procs -> {"out", "set", "remove", "save", "written"}]
    BY <2>1
  <2>6. P!TypeOK'
    BY <2>1, <2>2, <2>3, <2>4, <2>5 DEF PInv, P!TypeOK
  <2> QED BY <2>1, <2>2, <2>6 DEF PInv, PAlone
<1> QED BY <1>1, <1>2

\* Every step of the tool's profiles keeps the invariant.
LEMMA PStep == PInv /\ [P!Next]_P!vars => PInv'
<1> SUFFICES ASSUME PInv, [P!Next]_P!vars PROVE PInv'
  OBVIOUS
<1>1. ASSUME NEW p \in Procs, NEW n \in {"n1", "n2"}, NEW c \in {"set", "remove"}, P!Load(p, n, c) PROVE PInv'
  BY <1>1, PLoads
<1>2. ASSUME NEW p \in Procs, NEW t \in {"t1", "t2"}, P!Set(p, t) PROVE PInv'
  BY <1>2, PChanges
<1>3. ASSUME NEW p \in Procs,
             \/ P!Remove(p) \/ P!GiveUp(p) \/ P!WriteNew(p) \/ P!Rename(p) \/ P!RemoveFile(p)
             \/ P!SaveFails(p) \/ P!Kill(p)
      PROVE  PInv'
  BY <1>3, PChanges, PEnds, PPublishes
<1>4. CASE UNCHANGED P!vars
  <2>1. UNCHANGED <<file, pc, name, store, stray, runs, losses, saved, want, overlap, crashed>>
    BY <1>4 DEF P!vars
  <2> QED BY <2>1 DEF PInv, P!TypeOK, PAlone
<1> QED BY <1>1, <1>2, <1>3, <1>4, PWorld DEF P!Next

\* No file, and no command.
LEMMA PStart == P!Init => PInv
<1> SUFFICES ASSUME P!Init PROVE PInv
  OBVIOUS
<1>1. P!Empty \in P!Stores
  BY DEF P!Empty, P!Stores
<1>2. file \in [seen : P!Stores, disk : P!Stores, flushed : BOOLEAN]
  BY <1>1 DEF P!Init
<1>3. /\ pc \in [Procs -> {"out", "set", "remove", "save", "written"}]
      /\ name \in [Procs -> {"n1", "n2"}] /\ store \in [Procs -> P!Stores]
      /\ runs \in 0..3 /\ losses \in 0..1 /\ saved \subseteq P!Stores /\ want \in P!Stores
  BY <1>1 DEF P!Init
<1>4. stray \in BOOLEAN /\ overlap \in BOOLEAN /\ crashed \in BOOLEAN
  BY Zenon DEF P!Init
<1>5. P!TypeOK
  BY <1>2, <1>3, <1>4 DEF P!TypeOK
<1> QED BY <1>5 DEF P!Init, PInv, PAlone

(***************************************************************************)
(* The stores together                                                     *)
(***************************************************************************)

storesVars == <<platform, lock, marker, holder, data, pc, created, mem, new, losses,
                keyringOnly, nativeOnly, dpapiOnly, profilesOnly>>

\* A step of the program is a step of the store of its platform.
LEMMA StoresSteps ==
  ASSUME StoresInv, [StoresNext]_storesVars
  PROVE  /\ platform' = platform
         /\ platform \in Keyring => [K!Next]_K!vars
         /\ platform = "windows" => [W!Next]_W!vars
         /\ platform = "macos" => [M!Next]_M!vars
         /\ platform = "dpapi" => [D!Next]_D!vars
         /\ platform = "dpapi running" => [R!Next]_R!vars
         /\ platform = "profiles" => [P!Next]_P!vars
<1>1. CASE StoresNext
  BY <1>1 DEF StoresNext, Keyring
<1>2. CASE UNCHANGED storesVars
  <2>1. /\ UNCHANGED <<platform, lock, marker, holder, data, pc, created, mem, new, losses>>
        /\ UNCHANGED <<keyring, late, machine, corrupt, interrupted, held, acked>>
        /\ UNCHANGED <<file, name, store, stray, runs, saved, want, overlap, crashed>>
    BY <1>2 DEF storesVars, keyringOnly, nativeOnly, dpapiOnly, profilesOnly
  <2>2. UNCHANGED K!vars /\ UNCHANGED W!vars /\ UNCHANGED M!vars
    BY <2>1 DEF K!vars, W!vars, W!files, W!env, M!vars, M!files, M!env
  <2>3. UNCHANGED D!vars /\ UNCHANGED R!vars /\ UNCHANGED P!vars
    BY <2>1 DEF D!vars, R!vars, P!vars
  <2> QED BY <2>1, <2>2, <2>3
<1> QED BY <1>1, <1>2

\* The invariants hold at the start ...
LEMMA StoresStart == StoresInit => StoresInv
<1> SUFFICES ASSUME StoresInit PROVE StoresInv
  OBVIOUS
<1>1. CASE platform \in Keyring /\ K!Init /\ (platform = "keyring" <=> keyring = K!Fresh)
  <2>1. platform = "keyring" => KDurable
    BY <1>1 DEF K!Init, KDurable, KWorks
  <2> QED BY <1>1, <2>1, KStart DEF StoresInv, Keyring, Native, Dpapi
<1>2. CASE platform \in Native /\ W!Init
  BY <1>2, NStart, WStart DEF StoresInv, Keyring, Native, Dpapi
<1>3. CASE platform \in Dpapi /\ D!Init
  <2>1. losses = 0
    BY <1>3 DEF D!Init
  <2> QED BY <1>3, <2>1, DStart DEF StoresInv, Keyring, Native, Dpapi
<1>4. CASE platform = "profiles" /\ P!Init
  BY <1>4, PStart DEF StoresInv, Keyring, Native, Dpapi
<1> QED BY <1>1, <1>2, <1>3, <1>4 DEF StoresInit

\* ... and every step keeps them.
LEMMA StoresStep == StoresInv /\ [StoresNext]_storesVars => StoresInv'
<1> SUFFICES ASSUME StoresInv, [StoresNext]_storesVars PROVE StoresInv'
  OBVIOUS
<1>1. /\ platform' = platform /\ platform \in {"profiles", "windows", "macos", "dpapi", "dpapi running"} \cup Keyring
  BY StoresSteps DEF StoresInv, Keyring, Native, Dpapi
<1>2. CASE platform \in Keyring
  BY <1>1, <1>2, StoresSteps, KStep, KDurableStep DEF StoresInv, Keyring, Native, Dpapi
<1>3. CASE platform = "windows"
  BY <1>1, <1>3, StoresSteps, WStep DEF StoresInv, Keyring, Native, Dpapi
<1>4. CASE platform = "macos"
  BY <1>1, <1>4, StoresSteps, MStep DEF StoresInv, Keyring, Native, Dpapi
<1>5. CASE platform = "dpapi"
  BY <1>1, <1>5, StoresSteps, DStep DEF StoresInv, Keyring, Native, Dpapi
<1>6. CASE platform = "dpapi running"
  <2>1. DInv /\ losses = 0 /\ [R!Next]_R!vars
    BY <1>6, StoresSteps DEF StoresInv, Dpapi
  <2>2. CASE R!Next
    BY <1>1, <1>6, <2>1, <2>2, RSplit, DRunningStep DEF StoresInv, Keyring, Native, Dpapi
  <2>3. CASE UNCHANGED R!vars
    <3>1. UNCHANGED D!vars /\ losses' = losses
      BY <2>3 DEF R!vars, D!vars
    <3> QED BY <1>1, <1>6, <2>1, <3>1, DStill DEF StoresInv, Keyring, Native, Dpapi
  <2> QED BY <2>1, <2>2, <2>3
<1>7. CASE platform = "profiles"
  BY <1>1, <1>7, StoresSteps, PStep DEF StoresInv, Keyring, Native, Dpapi
<1> QED BY <1>1, <1>2, <1>3, <1>4, <1>5, <1>6, <1>7

\* Every step of a program's store, whatever it is built for, keeps that
\* store's invariant (storage.rs and the backends).
THEOREM StoresInductive == StoresSpec => []StoresInv
<1>1. StoresInv /\ [StoresNext]_storesVars => StoresInv'
  BY StoresStep
<1> QED BY <1>1, StoresStart, PTL DEF StoresSpec, storesVars

\* The variables of each store keep their types, for any number of processes,
\* credentials, versions and power losses.
THEOREM StoresTypes == StoresSpec => []TypesOK
<1>1. StoresInv => TypesOK
  BY DEF StoresInv, TypesOK, KInv, NInv, DInv, PInv, Keyring, Native, Dpapi
<1> QED BY <1>1, StoresInductive, PTL

\* A process that has opened a store works from what is stored, alone
\* (lease.rs, begin_write; installed.rs, open): the lease is exclusive, no
\* straggling helper can change the keyring behind it, the fence of a write is
\* durable where no record was left in the keyring, a moved directory was
\* bound to this machine first, and on Windows CorruptState is only for a
\* directory whose writer or first opener was cut short.
THEOREM StoresAreHeldAlone == StoresSpec => []HeldAlone
<1>1. StoresInv => HeldAlone
  <2> SUFFICES ASSUME StoresInv PROVE HeldAlone
    OBVIOUS
  <2>1. ASSUME platform \in Keyring PROVE K!ReadyMatchesKeyring /\ K!LeaseIsExclusive
    <3>1. KInv
      BY <2>1 DEF StoresInv
    <3>2. ASSUME NEW p \in Procs, pc[p] = "ready" PROVE mem[p] = keyring /\ late = {}
      BY <3>1, <3>2, KFacts DEF KPhase, KFiles
    <3>3. ASSUME NEW p \in Procs, pc[p] \in K!Leased PROVE holder = p
      BY <3>1, <3>3, KFacts DEF KPhase
    <3> QED BY <3>2, <3>3 DEF K!ReadyMatchesKeyring, K!LeaseIsExclusive
  <2>2. ASSUME platform \in Native PROVE W!MachineBound
    <3>1. NInv
      BY <2>2 DEF StoresInv
    <3> QED BY <3>1, NFacts DEF NPhase, W!MachineBound
  <2>3. ASSUME platform \in Dpapi PROVE D!WorksFromFile
    <3>1. DInv
      BY <2>3 DEF StoresInv
    <3> QED BY <3>1, DFacts DEF DPhase, D!WorksFromFile
  <2>4. ASSUME platform = "windows" PROVE W!SecondProcessInUse
    BY <2>4 DEF StoresInv, WCause, W!SecondProcessInUse
  <2>5. ASSUME platform = "keyring" PROVE K!FenceIsDurable
    BY <2>5 DEF StoresInv, KDurable, KWorks, K!Writing, K!FenceIsDurable
  <2> QED BY <2>1, <2>2, <2>3, <2>4, <2>5 DEF HeldAlone
<1> QED BY <1>1, StoresInductive, PTL

\* What a caller was told is written stays so after a crash or a power loss
\* (storage/windows.rs, commit; cli/src/config.rs, save).
THEOREM WhatIsWrittenStays == StoresSpec => []WrittenStays
<1>1. StoresInv => WrittenStays
  <2> SUFFICES ASSUME StoresInv PROVE WrittenStays
    OBVIOUS
  <2>1. ASSUME platform \in Dpapi PROVE D!NeverOlder
    <3>1. DInv
      BY <2>1 DEF StoresInv
    <3>2. ASSUME NEW p \in Procs, pc[p] = "ready" PROVE mem[p].n >= acked
      <4>1. mem[p] = data.seen /\ mem[p] \in D!Records /\ acked =< data.seen.n /\ acked \in 0..4
        BY <3>1, <3>2, DFacts DEF DPhase, DFiles, DDisk
      <4> QED BY <4>1 DEF D!Records
    <3> QED BY <3>2 DEF D!NeverOlder
  <2>2. ASSUME platform = "profiles" PROVE P!AlwaysWhole /\ P!OthersKept /\ P!NoStrayToken
    BY <2>2 DEF StoresInv, PInv, P!AlwaysWhole, P!OthersKept, P!NoStrayToken
  <2> QED BY <2>1, <2>2 DEF WrittenStays
<1> QED BY <1>1, StoresInductive, PTL

\* What is shown is what the store of the platform shows.
LEMMA StoresShow ==
  ASSUME StoresInv, platform' = platform
  PROVE  /\ platform = "keyring" =>
              Shown = K!Shown /\ Views = K!Views /\ Shown' = K!Shown' /\ Views' = K!Views'
         /\ platform \in Native =>
              Shown = W!Shown /\ Views = W!Views /\ Shown' = W!Shown' /\ Views' = W!Views'
         /\ platform = "dpapi running" =>
              Shown = D!Shown /\ Views = D!Views /\ Shown' = D!Shown' /\ Views' = D!Views'
         /\ platform \in {"keyring left", "dpapi", "profiles"} => Shown' = Shown /\ Views' = Views
BY DEF Shown, Views, Native, StoresInv

\* The stores implement CredentialStore (storage.rs): a save carries the current
\* version, a write shows as a whole or fences the store, and nothing older
\* comes back, over crashes, failed steps, late writes and power loss.
THEOREM StoresImplementStorage == StoresSpec => Refines
<1>1. StoresInit => Storage!Init
  <2> SUFFICES ASSUME StoresInit PROVE Storage!Init
    OBVIOUS
  <2>1. CASE platform = "keyring" /\ K!Init /\ keyring = K!Fresh
    <3>1. Shown = K!Shown /\ Views = K!Views
      BY <2>1 DEF Shown, Views, Native
    <3>2. K!Shown = Storage!Fresh
      BY <2>1 DEF K!Init, K!Shown, K!Mark, K!Fresh, Storage!Fresh
    <3>3. K!Views = [p \in Procs |-> Storage!Nothing]
      BY <2>1 DEF K!Init, K!Views, K!Nothing, K!Fresh, Storage!Nothing
    <3> QED BY <3>1, <3>2, <3>3 DEF Storage!Init
  <2>2. CASE platform \in Native /\ W!Init
    <3>1. Shown = W!Shown /\ Views = W!Views
      BY <2>2 DEF Shown, Views, Native
    <3>2. W!Shown = Storage!Fresh
      <4>1. holder = NoProc /\ marker = [seen |-> FALSE, disk |-> FALSE] /\ data.seen = W!Fresh
        BY <2>2 DEF W!Init
      <4>2. marker # [seen |-> TRUE, disk |-> TRUE]
        BY <4>1
      <4> QED BY <4>1, <4>2, NPlain DEF W!Shown
    <3>3. W!Views = [p \in Procs |-> Storage!Nothing]
      <4>1. W!Nothing # W!Fresh
        BY DEF W!Nothing, W!Fresh, W!Pseudo
      <4>2. W!Views = [p \in Procs |-> W!Plain(W!Nothing)]
        BY <2>2, <4>1 DEF W!Init, W!Views
      <4> QED BY <4>2, NPlain
    <3> QED BY <3>1, <3>2, <3>3 DEF Storage!Init
  <2>3. CASE platform = "dpapi running" /\ D!Init
    <3>1. Shown = D!Shown /\ Views = D!Views
      BY <2>3 DEF Shown, Views, Native
    <3>2. D!Shown = Storage!Fresh
      <4>1. ~lock.there /\ data.seen = D!Fresh
        BY <2>3 DEF D!Init
      <4> QED BY <4>1, DPlain DEF D!Shown
    <3>3. D!Views = [p \in Procs |-> Storage!Nothing]
      <4>1. D!Views = [p \in Procs |-> D!Plain(D!Nothing)]
        BY <2>3 DEF D!Init, D!Views
      <4> QED BY <4>1, DPlain
    <3> QED BY <3>1, <3>2, <3>3 DEF Storage!Init
  <2>4. CASE platform \in {"keyring left", "dpapi", "profiles"}
    <3>1. Shown = Storage!Fresh /\ Views = [p \in Procs |-> Storage!Nothing]
      BY <2>4 DEF Shown, Views, Native, Storage!Fresh, Storage!Nothing
    <3> QED BY <3>1 DEF Storage!Init
  <2> QED BY <2>1, <2>2, <2>3, <2>4 DEF StoresInit, Keyring, Dpapi
<1>2. StoresInv /\ [StoresNext]_storesVars => [Storage!Next]_Storage!vars
  <2> SUFFICES ASSUME StoresInv, [StoresNext]_storesVars PROVE StoreStep(Shown, Views, Shown', Views')
    BY StoreSteps
  <2>1. platform' = platform
    BY StoresSteps
  <2>2. CASE platform = "keyring"
    <3>1. KInv /\ KDurable /\ [K!Next]_K!vars
      BY <2>2, StoresSteps DEF StoresInv, Keyring
    <3>2. StoreStep(K!Shown, K!Views, K!Shown', K!Views')
      BY <3>1, KRefines
    <3> QED BY <2>1, <2>2, <3>2, StoresShow
  <2>3. CASE platform \in Native
    <3>1. NInv /\ (([W!Next]_W!vars /\ WCause) \/ [M!Next]_M!vars)
      BY <2>3, StoresSteps DEF StoresInv, Native
    <3>2. StoreStep(W!Shown, W!Views, W!Shown', W!Views')
      BY <3>1, NRefines
    <3> QED BY <2>1, <2>3, <3>2, StoresShow
  <2>4. CASE platform = "dpapi running"
    <3>1. DInv /\ losses = 0 /\ [R!Next]_R!vars
      BY <2>4, StoresSteps DEF StoresInv, Dpapi
    <3>2. StoreStep(D!Shown, D!Views, D!Shown', D!Views')
      BY <3>1, RRefines
    <3> QED BY <2>1, <2>4, <3>2, StoresShow
  <2>5. CASE platform \in {"keyring left", "dpapi", "profiles"}
    BY <2>1, <2>5, StoresShow DEF StoreStep
  <2> QED BY <2>2, <2>3, <2>4, <2>5 DEF StoresInv, Keyring, Native, Dpapi
<1> QED BY <1>1, <1>2, StoresInductive, PTL DEF StoresSpec, storesVars, Refines, Storage!Spec
=============================================================================
