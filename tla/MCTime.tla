-------------------------------- MODULE MCTime --------------------------------
(***************************************************************************)
(* The three ways in which an installed client may have access to a        *)
(* product: a grant that ages by the client's clocks (GrantClock), an      *)
(* offline file (OfflineFile), and the exchange in which a grant is        *)
(* verified (Grants).  A behaviour is one of them: they are alternatives   *)
(* in the client too, and each is the whole state of its own part.         *)
(***************************************************************************)
EXTENDS GrantClock

CONSTANTS
  Files, NoFile, FileTolerance, FileStart, FileSkews, MaxInst,   \* OfflineFile
  Skew, Online, Offline, SessionLife, RefreshMin, RefreshMax,    \* Grants
  OfflineRefreshMin, OfflineRefreshMax, CredentialLife, Disorder, MaxKey,
  MaxTime                                                        \* both

VARIABLES
  part,                                               \* which of the three
  time, rec, poisoned, pc, next, accepted, seen, owed, paid,   \* OfflineFile
  signing, keys, ex, held, verdict, took              \* Grants

\* Back and forward by more than the tolerance, and back by less.
MCSkews == {-6, -3, 0, 6}

\* An issued file, a conflicting one of the same sequence, a renewal, and a
\* file for the installation a rebind will draw.
File(inst, seq, iat, exp) == [inst |-> inst, seq |-> seq, iat |-> iat, exp |-> exp]
MCFiles == {File(1, 1, 4, 6), File(1, 1, 4, 7), File(1, 2, 5, 7), File(2, 1, 5, 7)}
MCNoFile == File(0, 0, 0, 0)

O == INSTANCE OfflineFile WITH
  Tolerance <- FileTolerance, Res <- 1, Start <- FileStart, Skews <- FileSkews

G == INSTANCE Grants

ASSUME ConstantsAssumption == O!ConstantsOK /\ G!ConstantsOK

Off == "unused"
clockOnly == <<truth, honest, running, req, base, durable>>
fileOnly == <<rec, poisoned, pc, next, seen, owed, paid>>
grantOnly == <<signing, keys, ex, held, verdict, took>>
clockOff == truth = Off /\ honest = Off /\ running = Off /\ req = Off /\ base = Off /\ durable = Off
fileOff == /\ rec = Off /\ poisoned = Off /\ pc = Off /\ next = Off
           /\ seen = Off /\ owed = Off /\ paid = Off
grantOff == signing = Off /\ keys = Off /\ ex = Off /\ held = Off /\ verdict = Off /\ took = Off

TimeInit ==
  \/ part = "clock" /\ Init /\ fileOff /\ grantOff /\ time = Off /\ accepted = Off
  \/ part = "file" /\ O!Init /\ clockOff /\ grantOff /\ cache = Off
  \/ part = "grant" /\ G!Init /\ clockOff /\ fileOff /\ skew = Off /\ mem = Off /\ since = Off

TimeNext ==
  /\ UNCHANGED part
  /\ \/ part = "clock" /\ Next /\ UNCHANGED <<fileOnly, grantOnly, time, accepted>>
     \/ part = "file" /\ O!Next /\ UNCHANGED <<clockOnly, grantOnly, cache>>
     \/ part = "grant" /\ G!Next /\ UNCHANGED <<clockOnly, fileOnly, skew, mem, since>>

TimeSpec == TimeInit /\ [][TimeNext]_<<vars, part, time, accepted, fileOnly, grantOnly>>

-----------------------------------------------------------------------------
(* Properties *)

\* The variables of each part have their types.
TypesOK ==
  CASE part = "clock" -> TypeOK [] part = "file" -> O!TypeOK [] part = "grant" -> G!TypeOK

\* Time a client believes in (clock.rs, now_with_wall; installed.rs,
\* restored_time): it never falls behind a saved floor, it counts every second
\* processes ran, so setting the wall clock back buys nothing, it is not late
\* for the server's, and a clock nobody set is never called uncertain.
ClockIsSound ==
  part = "clock" => NeverBelowFloor /\ RunningTimeCounts /\ NeverLate /\ HonestClockIsTrusted

\* An offline file (installed.rs, save_offline, checkpoint_offline,
\* restore_offline): no replaced or conflicting file is shown again, one that
\* was over stays over, nothing buys it time, memory never shows what a restart
\* would not restore, and the client opens every record it writes itself,
\* whatever step a crash or a failed commit interrupts.
OfflineIsFinal ==
  part = "file" =>
    /\ O!NewestFileOnly /\ O!OverStaysOver /\ O!ReimportNeverExtends
    /\ O!MemoryMatchesRecord /\ O!OwnRecordOpens

\* Verification (grants.rs, access.rs verify_reply, installed.rs restore): a
\* rotation of keys or a slow exchange within the skew turns no honest grant
\* away, no grant is usable for longer than the longest lease or beyond its licence
\* and its credential, and a restart neither loses nor extends one.
GrantIsSound ==
  part = "grant" => G!HonestReplyIsAccepted /\ G!LeaseIsBounded /\ G!RestartIsNeutral
=============================================================================
