-------------------------------- MODULE Profiles --------------------------------
(***************************************************************************)
(* The saved credential profiles of the command-line tool (cli/src         *)
(* credentials.rs and config.rs).  `credentials set` and `credentials      *)
(* remove` read the whole file, change one profile and replace the file;   *)
(* between reading and replacing lies the prompt for the token, and there  *)
(* is no lock.                                                             *)
(***************************************************************************)
EXTENDS Naturals, FiniteSets

CONSTANTS Procs, Names, Tokens, NoToken,
          MaxRuns,     \* bound: commands
          MaxLosses    \* bound: power losses

VARIABLES
  file,      \* credentials.json: as the system shows it, as it is on disk, its content flushed
  pc, name, store,   \* per process: the command's profile and the store it holds
  stray,     \* a temporary file, with tokens in it, that no process will remove
  runs, losses,
  saved,     \* history: every store the file has held
  want,      \* history: the store if commands ran one at a time
  overlap,   \* history: two commands ran at the same time, or the machine stopped
  crashed    \* history: a process was killed

vars == <<file, pc, name, store, stray, runs, losses, saved, want, overlap, crashed>>

Stores == [Names -> Tokens \cup {NoToken}]
Empty == [n \in Names |-> NoToken]
Torn == [n \in Names |-> "torn"]

TypeOK ==
  /\ file \in [seen : Stores, disk : Stores, flushed : BOOLEAN]
  /\ pc \in [Procs -> {"out", "set", "remove", "save", "written"}]
  /\ name \in [Procs -> Names]
  /\ store \in [Procs -> Stores]
  /\ stray \in BOOLEAN
  /\ runs \in 0..MaxRuns /\ losses \in 0..MaxLosses
  /\ saved \subseteq Stores /\ want \in Stores
  /\ overlap \in BOOLEAN /\ crashed \in BOOLEAN

Init ==
  /\ file = [seen |-> Empty, disk |-> Empty, flushed |-> TRUE]
  /\ pc = [p \in Procs |-> "out"]
  /\ \E n \in Names : name = [p \in Procs |-> n]
  /\ store = [p \in Procs |-> Empty]
  /\ stray = FALSE /\ runs = 0 /\ losses = 0
  /\ saved = {Empty} /\ want = Empty /\ overlap = FALSE /\ crashed = FALSE

Goto(p, l) == pc' = [pc EXCEPT ![p] = l]

\* load: no file is an empty store; set and remove start with it.
Load(p, n, command) ==
  /\ pc[p] = "out" /\ runs < MaxRuns
  /\ runs' = runs + 1
  /\ store' = [store EXCEPT ![p] = file.seen]
  /\ name' = [name EXCEPT ![p] = n]
  /\ Goto(p, command)
  /\ overlap' = (overlap \/ \E q \in Procs : pc[q] # "out")
  /\ UNCHANGED <<file, stray, losses, saved, want, crashed>>

\* Mutant: the other profiles are forgotten.
InsertedAlone(p, t) == [Empty EXCEPT ![name[p]] = t]

Inserted(p, t) == [store[p] EXCEPT ![name[p]] = t]

\* set: read_token returns, after as long as the prompt takes.
Set(p, t) ==
  /\ pc[p] = "set"
  /\ store' = [store EXCEPT ![p] = Inserted(p, t)]
  /\ Goto(p, "save")
  /\ UNCHANGED <<file, name, stray, runs, losses, saved, want, overlap, crashed>>

\* remove, of a profile that is there.
Remove(p) ==
  /\ pc[p] = "remove"
  /\ store[p][name[p]] # NoToken
  /\ store' = [store EXCEPT ![p][name[p]] = NoToken]
  /\ Goto(p, "save")
  /\ UNCHANGED <<file, name, stray, runs, losses, saved, want, overlap, crashed>>

\* A bad token, no such profile, an unreadable file, no directory.
GiveUp(p) ==
  /\ \/ pc[p] \in {"set", "save"}
     \/ pc[p] = "remove" /\ store[p][name[p]] = NoToken
  /\ Goto(p, "out")
  /\ UNCHANGED <<file, name, store, stray, runs, losses, saved, want, overlap, crashed>>

\* write_new: a new file only the owner can read, written and synchronised.
WriteNew(p) ==
  /\ pc[p] = "save" /\ store[p] # Empty
  /\ Goto(p, "written")
  /\ UNCHANGED <<file, name, store, stray, runs, losses, saved, want, overlap, crashed>>

\* Mutant: the temporary file is renamed unsynchronised.
NotSynced == FALSE

Synced == TRUE

\* The serial outcome: this command's change to what the others left.
Publish(p, flushed) ==
  /\ file' = [file EXCEPT !.seen = store[p], !.flushed = flushed]
  /\ saved' = saved \cup {store[p]}
  /\ want' = [want EXCEPT ![name[p]] = store[p][name[p]]]
  /\ Goto(p, "out")

Rename(p) ==
  /\ pc[p] = "written"
  /\ Publish(p, Synced)
  /\ UNCHANGED <<name, store, stray, runs, losses, overlap, crashed>>

\* Without a profile left the file is removed.
RemoveFile(p) ==
  /\ pc[p] = "save" /\ store[p] = Empty
  /\ Publish(p, TRUE)
  /\ UNCHANGED <<name, store, stray, runs, losses, overlap, crashed>>

\* Mutant: a failed save leaves its temporary file.
LeavesTemporary == TRUE

\* save removes it.
AfterFailure == stray

\* Writing or renaming fails.
SaveFails(p) ==
  /\ pc[p] = "written"
  /\ stray' = AfterFailure
  /\ Goto(p, "out")
  /\ UNCHANGED <<file, name, store, runs, losses, saved, want, overlap, crashed>>

\* The process is killed.
Kill(p) ==
  /\ pc[p] # "out"
  /\ Goto(p, "out")
  /\ stray' = (stray \/ pc[p] = "written")
  /\ crashed' = TRUE
  /\ UNCHANGED <<file, name, store, runs, losses, saved, want, overlap>>

\* What the disk has once the directory entry is written back.
Entry == IF file.flushed THEN file.seen ELSE Torn

WriteBack ==
  /\ file.disk # Entry
  /\ file' = [file EXCEPT !.disk = Entry]
  /\ UNCHANGED <<pc, name, store, stray, runs, losses, saved, want, overlap, crashed>>

\* The directory is never synchronised, so the last replacements may be undone.
PowerLoss ==
  /\ losses < MaxLosses /\ losses' = losses + 1
  /\ file' = [seen |-> file.disk, disk |-> file.disk, flushed |-> TRUE]
  /\ pc' = [p \in Procs |-> "out"]
  /\ stray' = (stray \/ \E p \in Procs : pc[p] = "written")
  /\ overlap' = TRUE /\ crashed' = TRUE
  /\ UNCHANGED <<name, store, runs, saved, want>>

Next ==
  \/ \E p \in Procs, n \in Names, c \in {"set", "remove"} : Load(p, n, c)
  \/ \E p \in Procs, t \in Tokens : Set(p, t)
  \/ \E p \in Procs :
       \/ Remove(p) \/ GiveUp(p) \/ WriteNew(p) \/ Rename(p) \/ RemoveFile(p)
       \/ SaveFails(p) \/ Kill(p)
  \/ WriteBack \/ PowerLoss

Spec == Init /\ [][Next]_vars

-----------------------------------------------------------------------------
(* Properties *)

\* The file is at all times a whole store that some command saved, also after a
\* power loss ("Replace the credential file atomically", config.rs:133).
AlwaysWhole == file.seen \in saved /\ file.disk \in saved

\* Commands that run one after another, killed or failing at any point, lose no
\* profile they do not name.  Commands that overlap may: there is no lock.
OthersKept == ~overlap => file.seen = want

\* A file with a token in it is left behind only by a process that was killed.
NoStrayToken == stray => crashed
=============================================================================
