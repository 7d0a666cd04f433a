------------------------------ MODULE Downloads ------------------------------
(***************************************************************************)
(* Updates and verified downloads, sdk/rust/src/updates.rs, and the        *)
(* seller's side of a protected one, sdk/rust/src/downloads.rs.            *)
(*                                                                         *)
(* A download asks for an update, has it authorized, follows redirects,    *)
(* stages the body in a file beside the destination and publishes it under *)
(* the destination's name.  Several downloads share one destination with   *)
(* each other and with other programs; power may be lost at any moment.    *)
(* Digests and signatures are perfect: a body has the right digest exactly *)
(* when no byte of it was altered.  A time unit stands for 30 seconds.     *)
(***************************************************************************)
EXTENDS Integers, FiniteSets

CONSTANTS D,            \* downloads; an element also names the file it stages
          Absent, Other,\* the destination does not exist, or is another program's
          Releases,     \* release numbers the server may talk about
          Installed,    \* installed_release_number of the caller
          Len,          \* byte_length of every artifact
          MaxSize,      \* max_size of the caller
          LastHop,      \* redirects followed (5 in the code)
          Skew, MaxLife,\* of a ticket: iat at most Skew ahead, life at most MaxLife
          MaxTime,      \* bound: the clock
          MaxLosses     \* bound: losses of power

ConstantsOK ==
  /\ Absent # Other /\ {Absent, Other} \cap D = {}
  /\ Len \in Nat \ {0} /\ MaxSize \in Nat /\ LastHop \in Nat
  /\ Skew \in Nat /\ MaxLife \in Nat \ {0}
  /\ MaxTime \in Nat /\ MaxLosses \in Nat /\ Releases \subseteq Nat /\ Releases # {}
  /\ Installed \in Nat

VARIABLES
  dl,        \* what each download is doing
  auth,      \* its authorization: artifact, ticket and whether it is protected
  file,      \* the bytes of the file it staged
  dest,      \* whose file the destination's name refers to
  disk,      \* the same on the disk, until the directory is written back
  now, cancelled, losses,
  sentTo,    \* history: where each ticket went
  served     \* history: when the seller first and last honoured it

vars == <<dl, auth, file, dest, disk, now, cancelled, losses, sentTo, served>>

-----------------------------------------------------------------------------
(* Metadata *)

\* The artifact a server's answer describes: of this release, for this target
\* and channel or another one.
Artifacts == [release : Releases, mine : BOOLEAN]

\* An answer of /updates: the release it names, the artifact, and the one
\* artifact the release lists.
Offers == [number : Releases, artifact : Artifacts, listed : Artifacts]

\* check_for_updates_with: the release is newer, the artifact is of that
\* release and of the requested target, and the release lists just that one.
Accepts(o) ==
  o.number > Installed /\ o.artifact.release = o.number /\ o.artifact.mine /\ o.listed = o.artifact

\* Mutant: whatever artifact the server authorizes is taken.
Authorizes(wanted, got) == got \in Artifacts

\* authorize_download: release_id and artifact_id are the ones asked for.
SameArtifact(wanted, got) == got = wanted

Tickets == [iat : -Skew..(MaxTime + 2 * Skew + 1), exp : -Skew..(MaxTime + MaxLife + 2 * Skew + 2)]
NoTicket == [iat |-> 0, exp |-> 0]

\* Mutant: a ticket from the future is good.
TicketGoodEarly(t, time) == t.exp > t.iat /\ t.exp - t.iat <= MaxLife /\ t.exp > time

\* DownloadTicketVerifier::verify_at, with the key, issuer, audience and the
\* form of the claims taken as right.
TicketGood(t, time) ==
  /\ t.exp > t.iat
  /\ t.exp - t.iat <= MaxLife
  /\ t.iat <= time + Skew
  /\ t.exp > time

-----------------------------------------------------------------------------
Steps == {"idle", "offered", "ready", "hop", "body", "whole", "synced", "clear", "published",
          "done", "failed"}

TypeOK ==
  /\ dl \in [D -> [pc : Steps, hop : 0..LastHop, size : 0..Len, good : BOOLEAN, replace : BOOLEAN]]
  /\ auth \in [D -> [art : Artifacts, ticket : Tickets, protected : BOOLEAN]]
  /\ file \in [D -> [staged : BOOLEAN, bytes : 0..Len, good : BOOLEAN, synced : BOOLEAN]]
  /\ dest \in D \cup {Absent, Other} /\ disk \in D \cup {Absent, Other}
  /\ now \in 0..MaxTime /\ cancelled \in BOOLEAN /\ losses \in 0..MaxLosses
  /\ sentTo \in [D -> SUBSET {"origin", "elsewhere"}]
  /\ served \in [D -> [first : -1..MaxTime, last : -1..MaxTime]]

NoFile == [staged |-> FALSE, bytes |-> 0, good |-> TRUE, synced |-> FALSE]
IdleDownload == [pc |-> "idle", hop |-> 0, size |-> 0, good |-> TRUE, replace |-> FALSE]

Init ==
  /\ dl = [d \in D |-> IdleDownload]
  /\ auth \in {[d \in D |-> [art |-> a, ticket |-> NoTicket, protected |-> FALSE]] :
                 a \in {CHOOSE a \in Artifacts : TRUE}}
  /\ file = [d \in D |-> NoFile]
  /\ dest \in {Absent, Other} /\ disk = dest
  /\ now = 0 /\ cancelled = FALSE /\ losses = 0
  /\ sentTo = [d \in D |-> {}]
  /\ served = [d \in D |-> [first |-> -1, last |-> -1]]

At(d, pc) == dl[d].pc = pc
Goto(d, pc) == dl' = [dl EXCEPT ![d].pc = pc]
OnDisk == <<dest, disk>>
World == <<now, cancelled, losses>>
History == <<sentTo, served>>

\* Mutant: the staged file stays.
FailLeaving(d) == Goto(d, "failed") /\ UNCHANGED file

\* The call returns an error: StagedFile is dropped and its file removed (the
\* removal itself succeeds).
Fail(d) == Goto(d, "failed") /\ file' = [file EXCEPT ![d].staged = FALSE]

-----------------------------------------------------------------------------
(* Asking *)

\* check_for_updates_with; an answer that is not accepted changes nothing.
CheckForUpdates(d) ==
  /\ At(d, "idle") /\ ~cancelled
  /\ \E o \in Offers :
       /\ Accepts(o)
       /\ auth' = [auth EXCEPT ![d].art = o.artifact]
  /\ Goto(d, "offered")
  /\ UNCHANGED <<file, OnDisk, World, History>>

\* authorize_download: a public artifact has no ticket, a protected one has a
\* ticket whose claims are the server's business.
AuthorizeDownload(d) ==
  /\ At(d, "offered") /\ ~cancelled
  /\ \E a \in Artifacts, p \in BOOLEAN :
       /\ SameArtifact(auth[d].art, a)
       /\ \E iat \in (now - Skew)..(now + 2 * Skew + 1), life \in 1..(MaxLife + 1) :
            auth' = [auth EXCEPT ![d] =
                       [art |-> a, protected |-> p,
                        ticket |-> IF p THEN [iat |-> iat, exp |-> iat + life] ELSE NoTicket]]
  /\ Goto(d, "ready")
  /\ UNCHANGED <<file, OnDisk, World, History>>

-----------------------------------------------------------------------------
(* Transfer *)

\* download_using up to the first request.  The existing destination is looked
\* at here, long before the file is published.
Start(d) ==
  /\ At(d, "ready")
  /\ \E replace \in BOOLEAN :
       IF \/ Len > MaxSize \/ MaxSize = 0
          \/ auth[d].protected /\ auth[d].ticket.exp <= now
          \/ ~replace /\ dest # Absent
       THEN dl' = [dl EXCEPT ![d].pc = "failed", ![d].replace = replace] /\ UNCHANGED file
       ELSE /\ dl' = [dl EXCEPT ![d] = [IdleDownload EXCEPT !.pc = "hop", !.replace = replace]]
            /\ file' = [file EXCEPT ![d] = [NoFile EXCEPT !.staged = TRUE]]
  /\ UNCHANGED <<auth, OnDisk, World, History>>

\* Mutant: the ticket goes wherever the request goes.
CarriesTicketOn(d) == auth[d].protected

\* bearer_auth: only the artifact's own address gets the ticket.
CarriesTicket(d) == auth[d].protected /\ dl[d].hop = 0

Sends(d) == sentTo' = [sentTo EXCEPT ![d] = @ \cup
  IF CarriesTicket(d) THEN {IF dl[d].hop = 0 THEN "origin" ELSE "elsewhere"} ELSE {}]

\* Mutant: redirects without end.
MoreHopsAlways(d) == TRUE

MoreHops(d) == dl[d].hop < LastHop

\* A redirect to an address delivery_url allows.
Redirected(d) ==
  /\ At(d, "hop") /\ MoreHops(d)
  /\ Sends(d)
  /\ dl' = [dl EXCEPT ![d].hop = @ + 1]
  /\ UNCHANGED <<auth, file, OnDisk, World, served>>

\* The seller's endpoint looks at the ticket before it answers 200.
Serves(d) ==
  served' = IF auth[d].protected /\ dl[d].hop = 0
            THEN [served EXCEPT ![d] = [first |-> IF @.first < 0 THEN now ELSE @.first, last |-> now]]
            ELSE served

\* Status 200, and a Content-Length that is absent or right.
Accepted(d) ==
  /\ At(d, "hop")
  /\ auth[d].protected /\ dl[d].hop = 0 => TicketGood(auth[d].ticket, now)
  /\ Sends(d) /\ Serves(d)
  /\ Goto(d, "body")
  /\ UNCHANGED <<auth, file, OnDisk, World>>

\* No answer, a redirect too many or not allowed, another status, a length or
\* an encoding that does not fit.
RequestFails(d) ==
  /\ At(d, "hop")
  /\ Sends(d)
  /\ Fail(d)
  /\ UNCHANGED <<auth, OnDisk, World, served>>

\* A chunk that fits is hashed and written.
Chunk(d, ok) ==
  /\ At(d, "body")
  /\ dl[d].size + 1 <= Len
  /\ dl' = [dl EXCEPT ![d].size = @ + 1, ![d].good = @ /\ ok]
  /\ file' = [file EXCEPT ![d].bytes = @ + 1, ![d].good = @ /\ ok]
  /\ UNCHANGED <<auth, OnDisk, World, History>>

\* The connection breaks or times out, a chunk is too long, or a write fails.
BodyFails(d) ==
  /\ At(d, "body")
  /\ Fail(d)
  /\ UNCHANGED <<auth, OnDisk, World, History>>

\* Length and digest are the artifact's.
Whole(d) == dl[d].size = Len /\ dl[d].good

BodyEnds(d) ==
  /\ At(d, "body")
  /\ IF Whole(d) THEN Goto(d, "whole") /\ UNCHANGED file ELSE Fail(d)
  /\ UNCHANGED <<auth, OnDisk, World, History>>

-----------------------------------------------------------------------------
(* Publishing *)

\* Mutant: the file is not synchronised.
NotSynced(d) == file

SyncAll(d) == [file EXCEPT ![d].synced = TRUE]

Sync(d) ==
  /\ At(d, "whole")
  /\ \/ file' = SyncAll(d) /\ Goto(d, "synced")
     \/ Fail(d)
  /\ UNCHANGED <<auth, OnDisk, World, History>>

\* is_cancelled, for the last time.
LastCheck(d) ==
  /\ At(d, "synced")
  /\ IF cancelled THEN Fail(d) ELSE Goto(d, "clear") /\ UNCHANGED file
  /\ UNCHANGED <<auth, OnDisk, World, History>>

\* Mutant: the file is renamed over whatever is there.
MayPublishOver(d) == TRUE

\* rename replaces what is there; hard_link fails when something is.
MayPublish(d) == dl[d].replace \/ dest = Absent

Publish(d) ==
  /\ At(d, "clear") /\ MayPublish(d)
  /\ dest' = d
  /\ file' = [file EXCEPT ![d].staged = ~dl[d].replace]
  /\ Goto(d, "published")
  /\ UNCHANGED <<auth, disk, World, History>>

PublishFails(d) ==
  /\ At(d, "clear")
  /\ Fail(d)
  /\ UNCHANGED <<auth, OnDisk, World, History>>

\* The staged name is removed and the call returns Ok.
Finish(d) ==
  /\ At(d, "published")
  /\ file' = [file EXCEPT ![d].staged = FALSE]
  /\ Goto(d, "done")
  /\ UNCHANGED <<auth, OnDisk, World, History>>

\* A closed client ends the transfer where it waits, and the caller may drop
\* the future there.
Dropped(d) ==
  /\ dl[d].pc \in {"hop", "body"}
  /\ Fail(d)
  /\ UNCHANGED <<auth, OnDisk, World, History>>

\* A failed download is tried again with the same authorization.
Again(d) ==
  /\ At(d, "failed") /\ dest # d /\ disk # d
  /\ Goto(d, "ready")
  /\ UNCHANGED <<auth, file, OnDisk, World, History>>

-----------------------------------------------------------------------------
(* The rest of the world *)

Cancel ==
  /\ ~cancelled /\ cancelled' = TRUE
  /\ UNCHANGED <<dl, auth, file, OnDisk, now, losses, History>>

Tick ==
  /\ now < MaxTime /\ now' = now + 1
  /\ UNCHANGED <<dl, auth, file, OnDisk, cancelled, losses, History>>

\* Another program creates the destination.
OtherCreates ==
  /\ dest = Absent /\ dest' = Other
  /\ UNCHANGED <<dl, auth, file, disk, World, History>>

\* The file system writes the directory back.
WriteBack ==
  /\ disk # dest /\ disk' = dest
  /\ UNCHANGED <<dl, auth, file, dest, World, History>>

\* Power is lost: names return to what the disk has, and bytes that were not
\* synchronised may be gone.  Staged names are left behind.  What had not
\* begun is begun by the next process.
LosePower ==
  /\ losses < MaxLosses /\ losses' = losses + 1
  /\ dest' = disk
  /\ \E kept \in [D -> 0..Len] :
       /\ \A d \in D : kept[d] <= file[d].bytes /\ (file[d].synced => kept[d] = file[d].bytes)
       /\ file' = [d \in D |-> [file[d] EXCEPT !.bytes = kept[d]]]
  /\ dl' = [d \in D |-> IF dl[d].pc \in {"idle", "offered", "ready"} THEN dl[d]
                         ELSE [dl[d] EXCEPT !.pc = "failed"]]
  /\ UNCHANGED <<auth, disk, now, cancelled, History>>

Next ==
  \/ \E d \in D :
       \/ CheckForUpdates(d) \/ AuthorizeDownload(d) \/ Start(d)
       \/ Redirected(d) \/ Accepted(d) \/ RequestFails(d)
       \/ \E ok \in BOOLEAN : Chunk(d, ok)
       \/ BodyFails(d) \/ BodyEnds(d) \/ Sync(d) \/ LastCheck(d)
       \/ Publish(d) \/ PublishFails(d) \/ Finish(d) \/ Dropped(d) \/ Again(d)
  \/ Cancel \/ Tick \/ OtherCreates \/ WriteBack \/ LosePower

Spec == Init /\ [][Next]_vars

-----------------------------------------------------------------------------
(* Properties *)

\* The destination is a whole, unaltered artifact or what it was before, also
\* after power was lost at any step and with two downloads to one destination.
DestinationIsWhole ==
  \A d \in D : d \in {dest, disk} => file[d].bytes = Len /\ file[d].good

\* What is published belongs to a release newer than the installed one, for
\* this target: the offer and the authorization talk about one artifact.
PublishedIsNewer ==
  \A d \in D : d \in {dest, disk} => auth[d].art.release > Installed /\ auth[d].art.mine

\* A download that was not asked to replace publishes only where nothing was,
\* although it looked at the destination before the transfer.  (Of a step.)
NeverClobbers ==
  \A d \in D : dest # d /\ dest' = d /\ losses' = losses /\ ~dl[d].replace => dest = Absent

\* A download that returned an error left no staged file, unless power was
\* lost, and did not touch the destination.
FailureLeavesNothing ==
  losses = 0 => \A d \in D : At(d, "failed") => ~file[d].staged /\ dest # d

\* The ticket is seen by the artifact's own address only.
TicketStaysHome == \A d \in D : sentTo[d] \subseteq {"origin"}

\* Whatever the claims of a ticket, a seller honours it for a bounded time.
TicketWindow == \A d \in D : served[d].last - served[d].first < MaxLife + Skew
=============================================================================
