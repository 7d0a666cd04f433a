------------------------------- MODULE MCStores -------------------------------
(***************************************************************************)
(* Where credentials are kept.  A program is built for one platform and    *)
(* has one of these stores: the keyring adapter (SecretStore, also with a  *)
(* record left in the keyring by a directory that was made anew), the      *)
(* installed record on Windows or macOS (NativeFile), the DPAPI adapter    *)
(* (DpapiStore, also on a machine that keeps running), or the profiles of  *)
(* the command line tool (Profiles).  They implement CredentialStore, and  *)
(* here is the mapping; the profiles do not, nor a keyring that was not    *)
(* empty (see FenceIsDurable).                                             *)
(***************************************************************************)
EXTENDS Naturals

CONSTANTS Procs, Creds, NoCred, NoProc, MaxGen, Machines, MaxLosses

\* A credential is none of the states of a store that stand in its place.
ASSUME StoresAssumption ==
  /\ NoProc \notin Procs
  /\ NoCred \notin Creds
  /\ {"fresh", "fenced", "nothing", "torn"} \cap (Creds \cup {NoCred}) = {}
  /\ MaxGen \in Nat /\ MaxLosses \in Nat

VARIABLES
  platform,
  lock, marker, holder, data, pc, created, mem, new, losses,
  keyring, late,                              \* SecretStore
  machine, corrupt, interrupted,              \* NativeFile
  held, acked,                                \* DpapiStore
  file, name, store, stray, runs, saved, want, overlap, crashed   \* Profiles

K == INSTANCE SecretStore WITH Left <- [gen : 0..MaxGen, cred : Creds \cup {NoCred}]
W == INSTANCE NativeFile WITH AtomicLease <- TRUE
M == INSTANCE NativeFile WITH AtomicLease <- FALSE
D == INSTANCE DpapiStore WITH MaxWrites <- 4
R == INSTANCE DpapiStore WITH MaxWrites <- 4, MaxLosses <- 0
P == INSTANCE Profiles WITH
  Names <- {"n1", "n2"}, Tokens <- {"t1", "t2"}, NoToken <- "none", MaxRuns <- 3, MaxLosses <- 1

Off == "unused"
keyringOnly == <<keyring, late>>
nativeOnly == <<machine, corrupt, interrupted>>
dpapiOnly == <<held, acked>>
profilesOnly == <<file, name, store, stray, runs, saved, want, overlap, crashed>>
keyringOff == keyring = Off /\ late = Off
nativeOff == machine = Off /\ corrupt = Off /\ interrupted = Off
dpapiOff == held = Off /\ acked = Off
profilesOff == /\ file = Off /\ name = Off /\ store = Off /\ stray = Off /\ runs = Off
               /\ saved = Off /\ want = Off /\ overlap = Off /\ crashed = Off

Keyring == {"keyring", "keyring left"}
Native == {"windows", "macos"}
Dpapi == {"dpapi", "dpapi running"}

StoresInit ==
  \/ /\ platform \in Keyring /\ K!Init /\ (platform = "keyring" <=> keyring = K!Fresh)
     /\ data = Off /\ nativeOff /\ dpapiOff /\ profilesOff
  \/ platform \in Native /\ W!Init /\ keyringOff /\ dpapiOff /\ profilesOff
  \/ platform \in Dpapi /\ D!Init /\ marker = Off /\ keyringOff /\ nativeOff /\ profilesOff
  \/ /\ platform = "profiles" /\ P!Init
     /\ lock = Off /\ marker = Off /\ holder = Off /\ data = Off /\ created = Off /\ mem = Off
     /\ new = Off /\ keyringOff /\ nativeOff /\ dpapiOff

StoresNext ==
  /\ UNCHANGED platform
  /\ \/ platform \in Keyring /\ K!Next /\ UNCHANGED <<data, nativeOnly, dpapiOnly, profilesOnly>>
     \/ platform = "windows" /\ W!Next /\ UNCHANGED <<keyringOnly, dpapiOnly, profilesOnly>>
     \/ platform = "macos" /\ M!Next /\ UNCHANGED <<keyringOnly, dpapiOnly, profilesOnly>>
     \/ platform = "dpapi" /\ D!Next /\ UNCHANGED <<marker, keyringOnly, nativeOnly, profilesOnly>>
     \/ platform = "dpapi running" /\ R!Next /\ UNCHANGED <<marker, keyringOnly, nativeOnly, profilesOnly>>
     \/ /\ platform = "profiles" /\ P!Next
        /\ UNCHANGED <<lock, marker, holder, data, created, mem, new, keyringOnly, nativeOnly, dpapiOnly>>

StoresSpec ==
  StoresInit /\ [][StoresNext]_<<platform, lock, marker, holder, data, pc, created, mem, new, losses,
                                 keyringOnly, nativeOnly, dpapiOnly, profilesOnly>>

-----------------------------------------------------------------------------
(* Properties *)

\* The variables of each store have their types.
TypesOK ==
  CASE platform \in Keyring -> K!TypeOK
    [] platform \in Native -> W!TypeOK
    [] platform \in Dpapi -> D!TypeOK
    [] platform = "profiles" -> P!TypeOK

\* What a store shows to its processes; those that do not implement
\* CredentialStore stand still here.
Shown ==
  CASE platform = "keyring" -> K!Shown
    [] platform \in Native -> W!Shown
    [] platform = "dpapi running" -> D!Shown
    [] OTHER -> [gen |-> 0, cred |-> "fresh"]

Views ==
  CASE platform = "keyring" -> K!Views
    [] platform \in Native -> W!Views
    [] platform = "dpapi running" -> D!Views
    [] OTHER -> [p \in Procs |-> [gen |-> 0, cred |-> "nothing"]]

Storage == INSTANCE CredentialStore WITH store <- Shown, view <- Views

\* What the Storage trait promises (storage.rs), whatever the platform: a save
\* carries the current version, a write shows as a whole or fences the store,
\* and nothing older comes back, over crashes, failed steps, helpers that write
\* late (secret_service/helper.rs) and power loss.  The keyring promises
\* this where it was empty at first, DPAPI for a machine that keeps running.
Refines == Storage!Spec

\* A process that has opened a store works from what is stored, alone: no
\* straggling helper can change the keyring behind it and a write's fence lies
\* in a durable file where the keyring was empty at first (lease.rs, begin_write
\* and open), no other process is past the lease, and a directory moved to
\* another machine was bound again first (installed.rs, open).  On Windows the
\* other one receives InstallationInUse, at any moment (advanced.md:119), and
\* CorruptState only for a directory whose writer or first opener was cut short.
HeldAlone ==
  /\ platform \in Keyring => K!ReadyMatchesKeyring /\ K!LeaseIsExclusive
  /\ platform = "keyring" => K!FenceIsDurable
  /\ platform \in Native => W!MachineBound
  /\ platform \in Dpapi => D!WorksFromFile
  /\ platform = "windows" => W!SecondProcessInUse

\* What a caller was told is written stays so after a crash or a power loss: an
\* invalidated credential does not come back (storage/windows.rs, commit), and
\* credentials.json of the tool is a whole store with every profile that was
\* not named, and no token left beside it (cli/src/config.rs, save).
WrittenStays ==
  /\ platform \in Dpapi => D!NeverOlder
  /\ platform = "profiles" => P!AlwaysWhole /\ P!OthersKept /\ P!NoStrayToken
=============================================================================
