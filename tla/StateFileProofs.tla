--------------------------- MODULE StateFileProofs ---------------------------
(***************************************************************************)
(* TLAPS proofs about the state directory of module StateFile, for every   *)
(* set of processes and every number of commits.                           *)
(***************************************************************************)
EXTENDS StateFile, TLAPS

(***************************************************************************)
(* Type correctness                                                        *)
(***************************************************************************)

\* Every step of the directory keeps the types.
LEMMA TypeStep == ASSUME TypeOK, [Next]_vars PROVE TypeOK'
<1> USE MaxRecordsAssumption DEF TypeOK, Layers, Contents, Absent, Torn, Phases,
        OpenPhases, WritePhases, Results, Synced, Goto, Unlocked, OpenReturns,
        files, procs, history
<1>1. ASSUME NEW p \in Procs, Opening(p) PROVE TypeOK'
  <2>1. CASE OpenLock(p)     BY <2>1 DEF OpenLock
  <2>2. CASE TakeLease(p)    BY <2>2 DEF TakeLease
  <2>3. CASE CheckMarker(p)  BY <2>3 DEF CheckMarker
  <2>4. CASE SyncLease(p)    BY <2>4 DEF SyncLease
  <2>5. CASE SyncParent(p)   BY <2>5 DEF SyncParent
  <2>6. CASE ReadData(p)     BY <2>6 DEF ReadData, StartWrite
  <2>7. CASE OpenFails(p)    BY <2>7 DEF OpenFails
  <2> QED BY <1>1, <2>1, <2>2, <2>3, <2>4, <2>5, <2>6, <2>7 DEF Opening
<1>2. ASSUME NEW p \in Procs, Writing(p) PROVE TypeOK'
  <2>1. CASE Commit(p)       BY <2>1 DEF Commit, StartWrite
  <2>2. CASE Mark(p)         BY <2>2 DEF Mark
  <2>3. CASE MarkSync(p)     BY <2>3 DEF MarkSync
  <2>4. CASE Stage(p)        BY <2>4 DEF Stage
  <2>5. CASE StageSync(p)    BY <2>5 DEF StageSync
  <2>6. CASE Rename(p)       BY <2>6 DEF Rename
  <2>7. CASE DirSync(p)      BY <2>7 DEF DirSync
  <2>8. CASE Unmark(p)       BY <2>8 DEF Unmark
  <2>9. CASE UnmarkSync(p)   BY <2>9 DEF UnmarkSync
  <2>10. CASE WriteFails(p)  BY <2>10 DEF WriteFails, GiveUp
  <2>11. CASE UnmarkFails(p) BY <2>11 DEF UnmarkFails
  <2>12. CASE Remark(p)      BY <2>12 DEF Remark, GiveUp
  <2>13. CASE RemarkSync(p)  BY <2>13 DEF RemarkSync, GiveUp
  <2> QED BY <1>2, <2>1, <2>2, <2>3, <2>4, <2>5, <2>6, <2>7, <2>8, <2>9,
             <2>10, <2>11, <2>12, <2>13 DEF Writing
<1>3. ASSUME NEW p \in Procs, CheckFails(p) PROVE TypeOK'
  BY <1>3 DEF CheckFails
<1>4. ASSUME NEW p \in Procs, Close(p) PROVE TypeOK'
  BY <1>4 DEF Close
<1>5. ASSUME NEW p \in Procs, Crash(p) PROVE TypeOK'
  BY <1>5 DEF Crash
<1>6. CASE WriteBack  BY <1>6 DEF WriteBack
<1>7. CASE PowerLoss  BY <1>7 DEF PowerLoss, Survives
<1>8. CASE UNCHANGED vars BY <1>8 DEF vars
<1> QED BY <1>1, <1>2, <1>3, <1>4, <1>5, <1>6, <1>7, <1>8 DEF Next

\* A directory nobody has opened has the right types.
LEMMA TypeInit == ASSUME Init PROVE TypeOK
<1>1. established \in BOOLEAN /\ interrupted \in BOOLEAN
  BY Zenon DEF Init
<1>2. /\ lock \in Layers({"absent", "present"})
      /\ marker \in Layers({"empty", "pending"})
      /\ data \in Layers(Contents \cup {Torn})
      /\ flushed \subseteq Contents
  BY MaxRecordsAssumption DEF Init, Layers, Contents, Absent
<1>3. /\ holder \in Procs \cup {NoProc}
      /\ pc \in [Procs -> Phases]
      /\ fresh \subseteq Procs /\ opening \subseteq Procs
      /\ mem \in [Procs -> Contents] /\ staged \in [Procs -> Contents]
      /\ written \in Contents /\ floor \in Contents
      /\ result \in [Procs -> Results]
  BY MaxRecordsAssumption DEF Init, Contents, Absent, Phases, Results
<1> QED BY <1>1, <1>2, <1>3 DEF TypeOK

\* The directory and the processes keep their types: in particular every
\* record ever read or written is the number of a commit that was started.
THEOREM TypeCorrect == Spec => []TypeOK
<1>1. Init => TypeOK
  BY TypeInit
<1>2. TypeOK /\ [Next]_vars => TypeOK'
  BY TypeStep
<1> QED BY <1>1, <1>2, PTL DEF Spec

(***************************************************************************)
(* The inductive invariant of the fence                                    *)
(***************************************************************************)

\* The flock and the phases agree.
LeaseInv == \A p \in Procs : pc[p] \in Leased <=> holder = p

\* Names reach the disk before anything relies on them, and a record is
\* synchronised before its name is.
NamesInv ==
  /\ lock.dur = "present" => lock.vol = "present"
  /\ data.vol # Absent \/ data.dur # Absent \/ floor # 0 => lock.dur = "present"
  /\ data.vol \in flushed \cup {Absent}
  /\ data.dur \in flushed \cup {Absent}
  /\ Absent \notin flushed
  /\ Torn \notin flushed
  /\ floor <= written

\* What the fence is for: a directory whose marker is, or after a power loss
\* may be found, empty has one record, and it is not older than the floor.
FenceInv ==
  marker.vol = "empty" \/ marker.dur = "empty" =>
    data.vol = data.dur /\ data.vol >= floor

\* What each phase of a process has established.
PhaseInv(p) ==
  /\ pc[p] # "closed" => lock.vol = "present"
  /\ pc[p] \in {"syncLease", "syncParent", "read", "mark", "unmarkSync", "ready"}
       => marker.vol = "empty"
  /\ pc[p] = "markSync" => marker.vol = "pending"
  /\ pc[p] \in WritePhases =>
       /\ staged[p] = written
       /\ written # Absent
       /\ lock.dur = "present"
  /\ pc[p] = "read" /\ p \in fresh => lock.dur = "present"
  /\ pc[p] \in Fenced => marker.vol = "pending" /\ marker.dur = "pending"
  /\ pc[p] = "rename" => staged[p] \in flushed
  /\ pc[p] = "dirSync" => data.vol = staged[p]
  /\ pc[p] \in Replaced => data.vol = staged[p] /\ data.dur = staged[p]
  /\ pc[p] = "ready" => data.vol = mem[p] /\ data.vol # Absent

Safe == LeaseInv /\ NamesInv /\ FenceInv /\ \A p \in Procs : PhaseInv(p)

IInv == TypeOK /\ Safe

\* Every step keeps the invariant of the fence.
LEMMA SafeStep == ASSUME IInv, [Next]_vars PROVE Safe'
<1> USE ProcsAssumption, MaxRecordsAssumption
    DEF IInv, TypeOK, Safe, LeaseInv, NamesInv, FenceInv, PhaseInv, Layers, Contents,
        Absent, Torn, Phases, OpenPhases, WritePhases, Leased, Fenced, Replaced,
        Synced, Goto, Unlocked, OpenReturns, files, procs, history
<1>1. ASSUME NEW p \in Procs, Opening(p) PROVE Safe'
  <2>1. CASE OpenLock(p)
    BY <2>1 DEF OpenLock
  <2>2. CASE TakeLease(p)
    BY <2>2 DEF TakeLease
  <2>3. CASE CheckMarker(p)
    BY <2>3 DEF CheckMarker
  <2>4. CASE SyncLease(p)
    BY <2>4 DEF SyncLease
  <2>5. CASE SyncParent(p)
    BY <2>5 DEF SyncParent
  <2>6. CASE ReadData(p)
    BY <2>6 DEF ReadData, StartWrite
  <2>7. CASE OpenFails(p)
    BY <2>7 DEF OpenFails
  <2> QED BY <1>1, <2>1, <2>2, <2>3, <2>4, <2>5, <2>6, <2>7 DEF Opening
<1>2. ASSUME NEW p \in Procs, Writing(p) PROVE Safe'
  <2>1. CASE Commit(p)
    BY <2>1 DEF Commit, StartWrite
  <2>2. CASE Mark(p)
    BY <2>2 DEF Mark
  <2>3. CASE MarkSync(p)
    BY <2>3 DEF MarkSync
  <2>4. CASE Stage(p)
    BY <2>4 DEF Stage
  <2>5. CASE StageSync(p)
    BY <2>5 DEF StageSync
  <2>6. CASE Rename(p)
    BY <2>6 DEF Rename
  <2>7. CASE DirSync(p)
    BY <2>7 DEF DirSync
  <2>8. CASE Unmark(p)
    BY <2>8 DEF Unmark
  <2>9. CASE UnmarkSync(p)
    BY <2>9 DEF UnmarkSync
  <2>10. CASE WriteFails(p)
    BY <2>10 DEF WriteFails, GiveUp
  <2>11. CASE UnmarkFails(p)
    BY <2>11 DEF UnmarkFails
  <2>12. CASE Remark(p)
    BY <2>12 DEF Remark, GiveUp
  <2>13. CASE RemarkSync(p)
    BY <2>13 DEF RemarkSync, GiveUp
  <2> QED BY <1>2, <2>1, <2>2, <2>3, <2>4, <2>5, <2>6, <2>7, <2>8, <2>9, <2>10, <2>11, <2>12, <2>13 DEF Writing
<1>3. ASSUME NEW p \in Procs, CheckFails(p) PROVE Safe'
  BY <1>3 DEF CheckFails
<1>4. ASSUME NEW p \in Procs, Close(p) PROVE Safe'
  BY <1>4 DEF Close
<1>5. ASSUME NEW p \in Procs, Crash(p) PROVE Safe'
  BY <1>5 DEF Crash
<1>6. CASE WriteBack  BY <1>6 DEF WriteBack
<1>7. CASE PowerLoss  BY <1>7 DEF PowerLoss, Survives
<1>8. CASE UNCHANGED vars BY <1>8 DEF vars
<1> QED BY <1>1, <1>2, <1>3, <1>4, <1>5, <1>6, <1>7, <1>8 DEF Next

(***************************************************************************)
(* Theorems                                                                *)
(***************************************************************************)

\* The invariant of the fence holds in every behaviour of the directory.
LEMMA Inductive == Spec => []IInv
<1>1. Init => IInv
  <2> SUFFICES ASSUME Init PROVE IInv
    OBVIOUS
  <2>1. TypeOK
    BY TypeInit
  <2>2. Safe
    BY ProcsAssumption DEF Init, Safe, LeaseInv, NamesInv, FenceInv, PhaseInv, Absent, Torn,
       Phases, OpenPhases, WritePhases, Leased, Fenced, Replaced
  <2> QED BY <2>1, <2>2 DEF IInv
<1>2. IInv /\ [Next]_vars => IInv'
  BY TypeStep, SafeStep DEF IInv
<1> QED BY <1>1, <1>2, PTL DEF Spec

\* For every set of processes and every number of commits: after the fence of
\* a commit is durable, Backend::open never hands out an older record.
THEOREM NeverRollsBack == Spec => []NoRollback
<1>1. IInv => NoRollback
  BY DEF IInv, TypeOK, Safe, FenceInv, PhaseInv, NoRollback, Layers, Contents, Absent, Torn
<1> QED BY <1>1, Inductive, PTL

\* The record a process works from is on disk, whole, under a durable name:
\* an acknowledged Backend::write survives a power loss.
THEOREM AcknowledgedIsDurable == Spec => []ReadyIsDurable
<1>1. IInv => ReadyIsDurable
  BY DEF IInv, TypeOK, Safe, NamesInv, FenceInv, PhaseInv, ReadyIsDurable, Layers
<1> QED BY <1>1, Inductive, PTL

\* The flock admits one process past Backend::open, for any number of them.
THEOREM LeaseIsExclusive == Spec => []OneLease
<1>1. IInv => OneLease
  BY DEF IInv, Safe, LeaseInv, OneLease
<1> QED BY <1>1, Inductive, PTL

(***************************************************************************)
(* CorruptState is never reported without a cause                          *)
(***************************************************************************)

\* As long as nothing was interrupted: one process created the lock file, the
\* marker belongs to a running write, and an established record is in place.
Quiet ==
  ~interrupted =>
    /\ lock.vol = "absent" => fresh = {}
    /\ \A p, q \in fresh : p = q
    /\ marker.vol = "pending" => \E p \in Procs : pc[p] \in WritePhases
    /\ established => data.vol # Absent
    /\ \A p \in Procs : pc[p] \in OpenPhases /\ p \in fresh => data.vol = Absent
    /\ \A p \in Procs : pc[p] \in WritePhases => p \in fresh \/ data.vol # Absent
    /\ \A p \in Procs : pc[p] \notin {"remark", "remarkSync"}

\* Every step keeps the invariant of an undisturbed directory.
LEMMA QuietStep == ASSUME IInv, Quiet, [Next]_vars PROVE Quiet'
<1> USE ProcsAssumption, MaxRecordsAssumption
    DEF IInv, TypeOK, Safe, LeaseInv, NamesInv, FenceInv, PhaseInv, Quiet, Layers, Contents,
        Absent, Torn, Phases, OpenPhases, WritePhases, Leased, Fenced, Replaced,
        Synced, Goto, Unlocked, OpenReturns, files, procs, history
<1>1. ASSUME NEW p \in Procs, Opening(p) PROVE Quiet'
  <2>1. CASE OpenLock(p)
    BY <2>1 DEF OpenLock
  <2>2. CASE TakeLease(p)
    BY <2>2 DEF TakeLease
  <2>3. CASE CheckMarker(p)
    BY <2>3 DEF CheckMarker
  <2>4. CASE SyncLease(p)
    BY <2>4 DEF SyncLease
  <2>5. CASE SyncParent(p)
    BY <2>5 DEF SyncParent
  <2>6. CASE ReadData(p)
    BY <2>6 DEF ReadData, StartWrite
  <2>7. CASE OpenFails(p)
    BY <2>7 DEF OpenFails
  <2> QED BY <1>1, <2>1, <2>2, <2>3, <2>4, <2>5, <2>6, <2>7 DEF Opening
<1>2. ASSUME NEW p \in Procs, Writing(p) PROVE Quiet'
  <2>1. CASE Commit(p)
    BY <2>1 DEF Commit, StartWrite
  <2>2. CASE Mark(p)
    BY <2>2 DEF Mark
  <2>3. CASE MarkSync(p)
    BY <2>3 DEF MarkSync
  <2>4. CASE Stage(p)
    BY <2>4 DEF Stage
  <2>5. CASE StageSync(p)
    BY <2>5 DEF StageSync
  <2>6. CASE Rename(p)
    BY <2>6 DEF Rename
  <2>7. CASE DirSync(p)
    BY <2>7 DEF DirSync
  <2>8. CASE Unmark(p)
    BY <2>8 DEF Unmark
  <2>9. CASE UnmarkSync(p)
    BY <2>9 DEF UnmarkSync
  <2>10. CASE WriteFails(p)
    BY <2>10 DEF WriteFails, GiveUp
  <2>11. CASE UnmarkFails(p)
    BY <2>11 DEF UnmarkFails
  <2>12. CASE Remark(p)
    BY <2>12 DEF Remark, GiveUp
  <2>13. CASE RemarkSync(p)
    BY <2>13 DEF RemarkSync, GiveUp
  <2> QED BY <1>2, <2>1, <2>2, <2>3, <2>4, <2>5, <2>6, <2>7, <2>8, <2>9, <2>10, <2>11, <2>12, <2>13 DEF Writing
<1>3. ASSUME NEW p \in Procs, CheckFails(p) PROVE Quiet'
  BY <1>3 DEF CheckFails
<1>4. ASSUME NEW p \in Procs, Close(p) PROVE Quiet'
  BY <1>4 DEF Close
<1>5. ASSUME NEW p \in Procs, Crash(p) PROVE Quiet'
  BY <1>5 DEF Crash
<1>6. CASE WriteBack  BY <1>6 DEF WriteBack
<1>7. CASE PowerLoss  BY <1>7 DEF PowerLoss, Survives
<1>8. CASE UNCHANGED vars BY <1>8 DEF vars
<1> QED BY <1>1, <1>2, <1>3, <1>4, <1>5, <1>6, <1>7, <1>8 DEF Next

\* An undisturbed, established directory is never reported as CorruptState,
\* for any number of processes opening, writing and closing it.
THEOREM CorruptStateHasACause == Spec => NoFalseCorruption
<1> DEFINE Cause ==
      \A p \in Procs : result[p] # "CorruptState" /\ result'[p] = "CorruptState"
                         => interrupted \/ ~established
<1>1. Init => Quiet
  BY DEF Init, Quiet, Absent, OpenPhases, WritePhases
<1>2. IInv /\ Quiet /\ [Next]_vars => Quiet'
  BY QuietStep
<1>3. ASSUME IInv, Quiet, Next PROVE Cause
  <2> SUFFICES ASSUME NEW p \in Procs,
                      result[p] # "CorruptState", result'[p] = "CorruptState"
               PROVE  interrupted \/ ~established
    OBVIOUS
  <2> USE DEF OpenReturns, Goto, Unlocked, files, procs, history
  <2>1. CheckMarker(p) \/ ReadData(p)
    <3>1. ASSUME NEW q \in Procs, Opening(q), ~CheckMarker(q), ~ReadData(q) PROVE FALSE
      BY <3>1, <1>3 DEF Opening, OpenLock, TakeLease, SyncLease, SyncParent, OpenFails, IInv, TypeOK
    <3>2. ASSUME NEW q \in Procs, Writing(q) PROVE FALSE
      BY <3>2, <1>3 DEF Writing, Commit, Mark, MarkSync, Stage, StageSync, Rename, DirSync,
         Unmark, UnmarkSync, WriteFails, UnmarkFails, Remark, RemarkSync, GiveUp, StartWrite,
         IInv, TypeOK
    <3>3. ASSUME NEW q \in Procs, CheckFails(q) \/ Close(q) \/ Crash(q) PROVE FALSE
      BY <3>3 DEF CheckFails, Close, Crash
    <3>4. ~WriteBack /\ ~PowerLoss
      BY DEF WriteBack, PowerLoss
    <3>5. PICK q \in Procs : CheckMarker(q) \/ ReadData(q)
      BY <1>3, <3>1, <3>2, <3>3, <3>4 DEF Next
    <3> QED BY <3>5, <1>3 DEF CheckMarker, ReadData, StartWrite, IInv, TypeOK
  <2>2. CASE CheckMarker(p)
    <3>1. pc[p] \in Leased /\ marker.vol = "pending"
      BY <2>2, <1>3 DEF CheckMarker, IInv, TypeOK, Layers, Leased, Phases, OpenPhases
    <3>2. \A q \in Procs : pc[q] \in WritePhases => q = p
      BY <3>1, <1>3 DEF IInv, Safe, LeaseInv, Leased, Phases, WritePhases
    <3>3. pc[p] \notin WritePhases
      BY <2>2 DEF CheckMarker, WritePhases
    <3> QED BY <3>1, <3>2, <3>3, <1>3 DEF Quiet
  <2>3. CASE ReadData(p)
    <3>1. data.vol # Torn
      BY <1>3 DEF IInv, Safe, NamesInv, Absent, Torn
    <3>2. data.vol = Absent <=> p \notin fresh
      BY <2>3, <3>1, <1>3 DEF ReadData, StartWrite, IInv, TypeOK
    <3> QED BY <2>3, <3>2, <1>3 DEF ReadData, Quiet, OpenPhases
  <2> QED BY <2>1, <2>2, <2>3
<1>4. IInv /\ Quiet /\ [Next]_vars => [Cause]_vars
  BY <1>3
<1> QED BY <1>1, <1>2, <1>4, Inductive, PTL DEF Spec, NoFalseCorruption
=============================================================================
