---------------------------- MODULE DownloadsProofs ----------------------------
(***************************************************************************)
(* TLAPS proofs about updates and downloads (module Downloads), for any    *)
(* number of downloads to one destination, any artifact length, any limit  *)
(* on redirects and any lifetime of tickets.                               *)
(***************************************************************************)
EXTENDS Downloads, TLAPS

(***************************************************************************)
(* The inductive invariant                                                 *)
(***************************************************************************)

Dls == [pc : Steps, hop : 0..LastHop, size : 0..Len, good : BOOLEAN, replace : BOOLEAN]
Auths == [art : Artifacts, ticket : Tickets, protected : BOOLEAN]
Files == [staged : BOOLEAN, bytes : 0..Len, good : BOOLEAN, synced : BOOLEAN]

\* What is under the destination's name went through every check, and a
\* download that has not published owns neither name.
FileInv(d) ==
  /\ d \in {dest, disk} => /\ dl[d].pc \in {"published", "done", "failed"}
                           /\ file[d].bytes = Len /\ file[d].good /\ file[d].synced
  /\ dl[d].pc \in {"hop", "body"} =>
       dl[d].size = file[d].bytes /\ (dl[d].good => file[d].good)
  /\ dl[d].pc \in {"whole", "synced", "clear"} => file[d].bytes = Len /\ file[d].good
  /\ dl[d].pc \in {"synced", "clear"} => file[d].synced

\* As long as power was not lost, a staged name belongs to a download under way.
StageInv(d) ==
  losses = 0 =>
    /\ dl[d].pc \in {"idle", "offered", "ready", "failed"} => ~file[d].staged
    /\ dl[d].pc = "failed" => dest # d

\* The artifact was accepted when it was offered and has not changed since.
OfferInv(d) == dl[d].pc # "idle" => auth[d].art.release > Installed /\ auth[d].art.mine

\* Where the ticket went, and the times at which it was good.
TicketInv(d) ==
  /\ sentTo[d] \subseteq {"origin"}
  /\ \/ served[d].first = -1 /\ served[d].last = -1
     \/ /\ dl[d].pc \notin {"idle", "offered"}
        /\ served[d].first \in Nat
        /\ auth[d].ticket.exp - auth[d].ticket.iat <= MaxLife
        /\ auth[d].ticket.iat <= served[d].first + Skew
        /\ auth[d].ticket.exp > served[d].last

Each(d) == FileInv(d) /\ StageInv(d) /\ OfferInv(d) /\ TicketInv(d)

DownloadInv == TypeOK /\ \A d \in D : Each(d)

(***************************************************************************)
(* Lemmas                                                                  *)
(***************************************************************************)

\* Facts every step starts from.
LEMMA DownloadFacts ==
  ASSUME ConstantsOK, DownloadInv
  PROVE  /\ dl \in [D -> Dls] /\ auth \in [D -> Auths] /\ file \in [D -> Files]
         /\ now \in Nat /\ losses \in Nat
         /\ \A d \in D : dl[d] \in Dls /\ auth[d] \in Auths /\ file[d] \in Files /\ Each(d)
BY DEF ConstantsOK, DownloadInv, TypeOK, Dls, Auths, Files

\* Nothing of a download changes when it is another one's turn.
LEMMA OtherDownload ==
  ASSUME DownloadInv, NEW e \in D,
         dl'[e] = dl[e], auth'[e] = auth[e], file'[e] = file[e],
         sentTo'[e] = sentTo[e], served'[e] = served[e],
         e \in {dest', disk'} => e \in {dest, disk}, dest' = e => dest = e, losses' = losses
  PROVE  Each(e)'
<1>1. Each(e)
  BY DEF DownloadInv
<1>2. FileInv(e)'
  BY <1>1 DEF Each, FileInv
<1>3. StageInv(e)'
  BY <1>1 DEF Each, StageInv
<1>4. OfferInv(e)' /\ TicketInv(e)'
  BY <1>1 DEF Each, OfferInv, TicketInv
<1> QED BY <1>2, <1>3, <1>4 DEF Each

\* A download takes its next step.
LEMMA GotoType ==
  ASSUME ConstantsOK, DownloadInv, NEW d \in D, NEW pc \in Steps, Goto(d, pc)
  PROVE  /\ dl' \in [D -> Dls] /\ \A e \in D : e # d => dl'[e] = dl[e]
         /\ dl'[d].pc = pc /\ dl'[d].hop = dl[d].hop /\ dl'[d].size = dl[d].size
         /\ dl'[d].good = dl[d].good /\ dl'[d].replace = dl[d].replace
<1>1. dl' = [dl EXCEPT ![d] = [dl[d] EXCEPT !.pc = pc]]
  BY DownloadFacts DEF Goto
<1>2. [dl[d] EXCEPT !.pc = pc] \in Dls
  BY DownloadFacts DEF Dls
<1> QED BY <1>1, <1>2, DownloadFacts DEF Dls

\* The call returns an error and its staged file goes.
LEMMA FailType ==
  ASSUME ConstantsOK, DownloadInv, NEW d \in D, Fail(d)
  PROVE  /\ dl' \in [D -> Dls] /\ file' \in [D -> Files]
         /\ \A e \in D : e # d => dl'[e] = dl[e] /\ file'[e] = file[e]
         /\ dl'[d].pc = "failed" /\ ~file'[d].staged
<1>1. /\ dl' \in [D -> Dls] /\ \A e \in D : e # d => dl'[e] = dl[e]
      /\ dl'[d].pc = "failed"
  BY GotoType DEF Fail, Steps
<1>2. file' = [file EXCEPT ![d] = [file[d] EXCEPT !.staged = FALSE]]
  BY DownloadFacts DEF Fail
<1>3. [file[d] EXCEPT !.staged = FALSE] \in Files
  BY DownloadFacts DEF Files
<1> QED BY <1>1, <1>2, <1>3, DownloadFacts DEF Files

\* bearer_auth: a request carries the ticket to the artifact's own address.
LEMMA SendsHome ==
  ASSUME ConstantsOK, DownloadInv, NEW d \in D, Sends(d)
  PROVE  /\ sentTo' \in [D -> SUBSET {"origin", "elsewhere"}]
         /\ \A e \in D : e # d => sentTo'[e] = sentTo[e]
         /\ sentTo'[d] \subseteq {"origin"}
<1>1. sentTo' = [sentTo EXCEPT ![d] = sentTo[d] \cup
        IF CarriesTicket(d) THEN {IF dl[d].hop = 0 THEN "origin" ELSE "elsewhere"} ELSE {}]
  BY DEF Sends
<1>2. CarriesTicket(d) => dl[d].hop = 0
  BY DEF CarriesTicket
<1>3. sentTo \in [D -> SUBSET {"origin", "elsewhere"}] /\ sentTo[d] \subseteq {"origin"}
  BY DEF DownloadInv, TypeOK, Each, TicketInv
<1> QED BY <1>1, <1>2, <1>3

(***************************************************************************)
(* One lemma per step, or per steps of one shape                           *)
(***************************************************************************)

\* Nothing but the state of download d changes.
OnlyMine(d) ==
  /\ \A e \in D : e # d => /\ dl'[e] = dl[e] /\ auth'[e] = auth[e] /\ file'[e] = file[e]
                           /\ sentTo'[e] = sentTo[e] /\ served'[e] = served[e]
  /\ UNCHANGED <<dest, disk, now, cancelled, losses>>

\* A step of one download that leaves the destination alone.
LEMMA MineStep ==
  ASSUME DownloadInv, NEW d \in D, OnlyMine(d), TypeOK', Each(d)'
  PROVE  DownloadInv'
<1>1. ASSUME NEW e \in D, e # d PROVE Each(e)'
  BY <1>1, OtherDownload DEF OnlyMine
<1> QED BY <1>1 DEF DownloadInv

\* The types after a step that leaves the destination and the world alone.
LEMMA MineType ==
  ASSUME DownloadInv, UNCHANGED <<dest, disk, now, cancelled, losses>>,
         dl' \in [D -> Dls], file' \in [D -> Files], auth' \in [D -> Auths],
         sentTo' \in [D -> SUBSET {"origin", "elsewhere"}],
         served' \in [D -> [first : -1..MaxTime, last : -1..MaxTime]]
  PROVE  TypeOK'
BY DEF DownloadInv, TypeOK, Dls, Files, Auths

\* A download fails at any step before it publishes.
LEMMA FailStep ==
  ASSUME ConstantsOK, DownloadInv, NEW d \in D, Fail(d),
         dl[d].pc \in {"hop", "body", "whole", "synced", "clear"},
         Sends(d) \/ UNCHANGED sentTo, UNCHANGED <<auth, OnDisk, World, served>>
  PROVE  DownloadInv'
<1>1. /\ dl' \in [D -> Dls] /\ file' \in [D -> Files]
      /\ \A e \in D : e # d => dl'[e] = dl[e] /\ file'[e] = file[e]
      /\ dl'[d].pc = "failed" /\ ~file'[d].staged
  BY FailType
<1>2. /\ sentTo' \in [D -> SUBSET {"origin", "elsewhere"}]
      /\ \A e \in D : e # d => sentTo'[e] = sentTo[e]
      /\ sentTo'[d] \subseteq {"origin"}
  BY SendsHome DEF DownloadInv, TypeOK, Each, TicketInv
<1>3. auth' = auth /\ served' = served /\ UNCHANGED <<dest, disk, now, cancelled, losses>>
  BY DEF OnDisk, World
<1>4. TypeOK'
  BY <1>1, <1>2, <1>3, DownloadFacts, MineType DEF DownloadInv, TypeOK
<1>5. Each(d) /\ d \notin {dest, disk}
  BY DownloadFacts DEF Each, FileInv
<1>6. FileInv(d)' /\ StageInv(d)'
  BY <1>1, <1>3, <1>5 DEF FileInv, StageInv
<1>7. OfferInv(d)' /\ TicketInv(d)'
  BY <1>1, <1>2, <1>3, <1>5 DEF Each, OfferInv, TicketInv
<1> QED BY <1>1, <1>2, <1>3, <1>4, <1>6, <1>7, MineStep DEF OnlyMine, Each

\* check_for_updates_with: the offer is accepted.
LEMMA CheckStep ==
  ASSUME ConstantsOK, DownloadInv, NEW d \in D, CheckForUpdates(d)
  PROVE  DownloadInv'
<1>1. PICK o \in Offers : Accepts(o) /\ auth' = [auth EXCEPT ![d].art = o.artifact]
  BY DEF CheckForUpdates
<1>2. /\ dl[d].pc = "idle" /\ Goto(d, "offered") /\ file' = file /\ sentTo' = sentTo
      /\ served' = served /\ UNCHANGED <<dest, disk, now, cancelled, losses>>
  BY DEF CheckForUpdates, At, OnDisk, World, History
<1>3. /\ dl' \in [D -> Dls] /\ \A e \in D : e # d => dl'[e] = dl[e]
      /\ dl'[d].pc = "offered"
  BY <1>2, GotoType DEF Steps
<1> DEFINE a == [auth[d] EXCEPT !.art = o.artifact]
<1>4. /\ o.artifact \in Artifacts /\ o.number \in Nat /\ o.artifact.release > Installed
      /\ o.artifact.mine
  <2>1. o.artifact \in Artifacts /\ o.number \in Releases
    BY DEF Offers
  <2> QED BY <1>1, <2>1 DEF Accepts, ConstantsOK
<1>5. a \in Auths /\ a.art = o.artifact /\ auth' = [auth EXCEPT ![d] = a]
  BY <1>1, <1>4, DownloadFacts DEF Auths
<1> HIDE DEF a
<1>6. auth' \in [D -> Auths] /\ auth'[d].art = o.artifact /\ \A e \in D : e # d => auth'[e] = auth[e]
  BY <1>5, DownloadFacts
<1>7. TypeOK'
  BY <1>2, <1>3, <1>6, DownloadFacts, MineType DEF DownloadInv, TypeOK
<1>8. Each(d)
  BY DownloadFacts
<1>9. FileInv(d)' /\ StageInv(d)'
  BY <1>2, <1>3, <1>8 DEF Each, FileInv, StageInv
<1>10. OfferInv(d)' /\ TicketInv(d)'
  BY <1>2, <1>3, <1>4, <1>6, <1>8 DEF Each, OfferInv, TicketInv
<1> QED BY <1>2, <1>3, <1>6, <1>7, <1>9, <1>10, MineStep DEF OnlyMine, Each

\* authorize_download: the authorization is of the artifact that was asked for.
LEMMA AuthorizeStep ==
  ASSUME ConstantsOK, DownloadInv, NEW d \in D, AuthorizeDownload(d)
  PROVE  DownloadInv'
<1>1. PICK a \in Artifacts, p \in BOOLEAN :
        /\ SameArtifact(auth[d].art, a)
        /\ \E iat \in (now - Skew)..(now + 2 * Skew + 1), life \in 1..(MaxLife + 1) :
             auth' = [auth EXCEPT ![d] =
                        [art |-> a, protected |-> p,
                         ticket |-> IF p THEN [iat |-> iat, exp |-> iat + life] ELSE NoTicket]]
  BY DEF AuthorizeDownload
<1>2. PICK iat \in (now - Skew)..(now + 2 * Skew + 1), life \in 1..(MaxLife + 1) :
        auth' = [auth EXCEPT ![d] =
                   [art |-> a, protected |-> p,
                    ticket |-> IF p THEN [iat |-> iat, exp |-> iat + life] ELSE NoTicket]]
  BY <1>1
<1> DEFINE t == IF p THEN [iat |-> iat, exp |-> iat + life] ELSE NoTicket
<1>3. t \in Tickets
  <2>1. now \in 0..MaxTime /\ Skew \in Nat /\ MaxLife \in Nat /\ MaxTime \in Nat
    BY DEF DownloadInv, TypeOK, ConstantsOK
  <2>2. iat \in -Skew..(MaxTime + 2 * Skew + 1) /\ iat + life \in -Skew..(MaxTime + MaxLife + 2 * Skew + 2)
    BY <2>1
  <2>3. [iat |-> iat, exp |-> iat + life] \in Tickets
    BY <2>2 DEF Tickets
  <2>4. NoTicket \in Tickets
    BY <2>1 DEF Tickets, NoTicket
  <2> QED BY <2>3, <2>4
<1> HIDE DEF t
<1>4. [art |-> a, protected |-> p, ticket |-> t] \in Auths
  BY <1>3 DEF Auths
<1>5. /\ auth' \in [D -> Auths] /\ auth'[d].art = auth[d].art
      /\ \A e \in D : e # d => auth'[e] = auth[e]
  BY <1>1, <1>2, <1>4, DownloadFacts DEF t, SameArtifact
<1>6. /\ dl[d].pc = "offered" /\ Goto(d, "ready") /\ file' = file /\ sentTo' = sentTo
      /\ served' = served /\ UNCHANGED <<dest, disk, now, cancelled, losses>>
  BY DEF AuthorizeDownload, At, OnDisk, World, History
<1>7. /\ dl' \in [D -> Dls] /\ \A e \in D : e # d => dl'[e] = dl[e]
      /\ dl'[d].pc = "ready"
  BY <1>6, GotoType DEF Steps
<1>8. TypeOK'
  BY <1>5, <1>6, <1>7, DownloadFacts, MineType DEF DownloadInv, TypeOK
<1>9. Each(d)
  BY DownloadFacts
<1>10. FileInv(d)' /\ StageInv(d)'
  BY <1>6, <1>7, <1>9 DEF Each, FileInv, StageInv
<1>11. OfferInv(d)' /\ TicketInv(d)'
  BY <1>5, <1>6, <1>7, <1>9 DEF Each, OfferInv, TicketInv
<1> QED BY <1>5, <1>6, <1>7, <1>8, <1>10, <1>11, MineStep DEF OnlyMine, Each

\* download_using up to the first request.
LEMMA StartStep ==
  ASSUME ConstantsOK, DownloadInv, NEW d \in D, Start(d)
  PROVE  DownloadInv'
<1>1. PICK replace \in BOOLEAN :
        \/ dl' = [dl EXCEPT ![d].pc = "failed", ![d].replace = replace] /\ UNCHANGED file
        \/ /\ dl' = [dl EXCEPT ![d] = [IdleDownload EXCEPT !.pc = "hop", !.replace = replace]]
           /\ file' = [file EXCEPT ![d] = [NoFile EXCEPT !.staged = TRUE]]
  BY DEF Start
<1>2. /\ dl[d].pc = "ready" /\ auth' = auth /\ sentTo' = sentTo
      /\ served' = served /\ UNCHANGED <<dest, disk, now, cancelled, losses>>
  BY DEF Start, At, OnDisk, World, History
<1>3. Each(d) /\ d \notin {dest, disk} /\ (losses = 0 => ~file[d].staged)
  BY <1>2, DownloadFacts DEF Each, FileInv, StageInv
<1>4. CASE dl' = [dl EXCEPT ![d].pc = "failed", ![d].replace = replace] /\ UNCHANGED file
  <2> DEFINE c == [dl[d] EXCEPT !.pc = "failed", !.replace = replace]
  <2>1. c \in Dls /\ c.pc = "failed" /\ dl' = [dl EXCEPT ![d] = c]
    BY <1>4, DownloadFacts DEF Dls, Steps
  <2> HIDE DEF c
  <2>2. dl' \in [D -> Dls] /\ dl'[d].pc = "failed" /\ \A e \in D : e # d => dl'[e] = dl[e]
    BY <2>1, DownloadFacts
  <2>3. TypeOK'
    BY <1>2, <1>4, <2>2, DownloadFacts, MineType DEF DownloadInv, TypeOK
  <2>4. FileInv(d)' /\ StageInv(d)' /\ OfferInv(d)' /\ TicketInv(d)'
    BY <1>2, <1>3, <1>4, <2>2 DEF Each, FileInv, StageInv, OfferInv, TicketInv
  <2> QED BY <1>2, <1>4, <2>2, <2>3, <2>4, MineStep DEF OnlyMine, Each
<1>5. CASE /\ dl' = [dl EXCEPT ![d] = [IdleDownload EXCEPT !.pc = "hop", !.replace = replace]]
           /\ file' = [file EXCEPT ![d] = [NoFile EXCEPT !.staged = TRUE]]
  <2> DEFINE c == [IdleDownload EXCEPT !.pc = "hop", !.replace = replace]
             f == [NoFile EXCEPT !.staged = TRUE]
  <2>1. /\ c \in Dls /\ c.pc = "hop" /\ c.size = 0 /\ f \in Files /\ f.bytes = 0
    <3>1. 0 \in 0..LastHop /\ 0 \in 0..Len /\ replace \in BOOLEAN
      BY DEF ConstantsOK
    <3>2. IdleDownload \in Dls /\ NoFile \in Files
      BY <3>1 DEF Dls, Steps, Files, IdleDownload, NoFile
    <3>3. IdleDownload.size = 0 /\ NoFile.bytes = 0
      BY DEF IdleDownload, NoFile
    <3> QED BY <3>1, <3>2, <3>3 DEF Dls, Steps, Files
  <2>2. f.good = TRUE
    BY DEF NoFile
  <2>3. dl' = [dl EXCEPT ![d] = c] /\ file' = [file EXCEPT ![d] = f]
    BY <1>5
  <2> HIDE DEF c, f
  <2>4. /\ dl' \in [D -> Dls] /\ file' \in [D -> Files] /\ dl'[d] = c /\ file'[d] = f
        /\ \A e \in D : e # d => dl'[e] = dl[e] /\ file'[e] = file[e]
    BY <2>1, <2>3, DownloadFacts
  <2>5. TypeOK'
    BY <1>2, <2>4, DownloadFacts, MineType DEF DownloadInv, TypeOK
  <2>6. FileInv(d)'
    BY <1>2, <1>3, <2>1, <2>2, <2>4 DEF FileInv
  <2>7. StageInv(d)' /\ OfferInv(d)' /\ TicketInv(d)'
    BY <1>2, <1>3, <2>1, <2>4 DEF Each, StageInv, OfferInv, TicketInv
  <2> QED BY <1>2, <2>4, <2>5, <2>6, <2>7, MineStep DEF OnlyMine, Each
<1> QED BY <1>1, <1>4, <1>5

\* A redirect is followed.
LEMMA RedirectedStep ==
  ASSUME ConstantsOK, DownloadInv, NEW d \in D, Redirected(d)
  PROVE  DownloadInv'
<1> DEFINE c == [dl[d] EXCEPT !.hop = dl[d].hop + 1]
<1>1. /\ dl[d].pc = "hop" /\ dl[d].hop < LastHop /\ Sends(d) /\ auth' = auth /\ file' = file
      /\ served' = served /\ UNCHANGED <<dest, disk, now, cancelled, losses>>
      /\ dl' = [dl EXCEPT ![d] = c]
  BY DownloadFacts DEF Redirected, At, MoreHops, OnDisk, World, Dls
<1>2. dl[d].hop + 1 \in 0..LastHop
  BY <1>1, DownloadFacts DEF ConstantsOK, Dls
<1>3. c \in Dls /\ c.pc = "hop" /\ c.size = dl[d].size /\ c.good = dl[d].good
  BY <1>1, <1>2, DownloadFacts DEF Dls
<1> HIDE DEF c
<1>4. dl' \in [D -> Dls] /\ dl'[d] = c /\ \A e \in D : e # d => dl'[e] = dl[e]
  BY <1>1, <1>3, DownloadFacts
<1>5. /\ sentTo' \in [D -> SUBSET {"origin", "elsewhere"}]
      /\ \A e \in D : e # d => sentTo'[e] = sentTo[e]
      /\ sentTo'[d] \subseteq {"origin"}
  BY <1>1, SendsHome
<1>6. TypeOK'
  BY <1>1, <1>4, <1>5, DownloadFacts, MineType DEF DownloadInv, TypeOK
<1>7. Each(d)
  BY DownloadFacts
<1>8. FileInv(d)'
  BY <1>1, <1>3, <1>4, <1>7 DEF Each, FileInv
<1>9. StageInv(d)' /\ OfferInv(d)' /\ TicketInv(d)'
  BY <1>1, <1>3, <1>4, <1>5, <1>7 DEF Each, StageInv, OfferInv, TicketInv
<1> QED BY <1>1, <1>4, <1>5, <1>6, <1>8, <1>9, MineStep DEF OnlyMine, Each

\* Status 200: an endpoint that asks for the ticket has found it good.
LEMMA AcceptedStep ==
  ASSUME ConstantsOK, DownloadInv, NEW d \in D, Accepted(d)
  PROVE  DownloadInv'
<1>1. /\ dl[d].pc = "hop" /\ Sends(d) /\ Serves(d) /\ Goto(d, "body") /\ auth' = auth
      /\ file' = file /\ UNCHANGED <<dest, disk, now, cancelled, losses>>
      /\ auth[d].protected /\ dl[d].hop = 0 => TicketGood(auth[d].ticket, now)
  BY DEF Accepted, At, OnDisk, World
<1>2. /\ dl' \in [D -> Dls] /\ \A e \in D : e # d => dl'[e] = dl[e]
      /\ dl'[d].pc = "body" /\ dl'[d].size = dl[d].size /\ dl'[d].good = dl[d].good
  BY <1>1, GotoType DEF Steps
<1>3. /\ sentTo' \in [D -> SUBSET {"origin", "elsewhere"}]
      /\ \A e \in D : e # d => sentTo'[e] = sentTo[e]
      /\ sentTo'[d] \subseteq {"origin"}
  BY <1>1, SendsHome
<1>4. Each(d) /\ served[d] \in [first : -1..MaxTime, last : -1..MaxTime] /\ now \in 0..MaxTime
  BY DownloadFacts DEF DownloadInv, TypeOK
<1>5. /\ served' \in [D -> [first : -1..MaxTime, last : -1..MaxTime]]
      /\ \A e \in D : e # d => served'[e] = served[e]
      /\ \/ served'[d] = served[d]
         \/ /\ auth[d].protected /\ dl[d].hop = 0
            /\ served'[d].last = now
            /\ served'[d].first = IF served[d].first < 0 THEN now ELSE served[d].first
  <2>1. CASE auth[d].protected /\ dl[d].hop = 0
    <3> DEFINE r == [first |-> IF served[d].first < 0 THEN now ELSE served[d].first, last |-> now]
    <3>1. served' = [served EXCEPT ![d] = r]
      BY <1>1, <2>1 DEF Serves
    <3>2. /\ r \in [first : -1..MaxTime, last : -1..MaxTime] /\ r.last = now
          /\ r.first = IF served[d].first < 0 THEN now ELSE served[d].first
      BY <1>4 DEF ConstantsOK
    <3> HIDE DEF r
    <3> QED BY <2>1, <3>1, <3>2 DEF DownloadInv, TypeOK
  <2>2. CASE ~(auth[d].protected /\ dl[d].hop = 0)
    BY <1>1, <2>2 DEF Serves, DownloadInv, TypeOK
  <2> QED BY <2>1, <2>2
<1>6. TypeOK'
  BY <1>1, <1>2, <1>3, <1>5, DownloadFacts, MineType
<1>7. FileInv(d)'
  BY <1>1, <1>2, <1>4 DEF Each, FileInv
<1>8. StageInv(d)' /\ OfferInv(d)'
  BY <1>1, <1>2, <1>4 DEF Each, StageInv, OfferInv
<1>9. TicketInv(d)'
  <2>1. CASE served'[d] = served[d]
    BY <1>1, <1>2, <1>3, <1>4, <2>1 DEF Each, TicketInv
  <2>2. CASE /\ auth[d].protected /\ dl[d].hop = 0
             /\ served'[d].last = now
             /\ served'[d].first = IF served[d].first < 0 THEN now ELSE served[d].first
    <3>1. TicketGood(auth[d].ticket, now)
      BY <1>1, <2>2
    <3>2. now \in Nat /\ served[d].first \in Int
      BY <1>4 DEF ConstantsOK
    <3>3. auth[d].ticket.iat \in Int /\ auth[d].ticket.exp \in Int /\ Skew \in Nat /\ MaxLife \in Nat
      BY DownloadFacts DEF Auths, Tickets, ConstantsOK
    <3> QED BY <1>1, <1>2, <1>3, <1>4, <2>2, <3>1, <3>2, <3>3 DEF Each, TicketInv, TicketGood
  <2> QED BY <1>5, <2>1, <2>2
<1> QED BY <1>1, <1>2, <1>3, <1>5, <1>6, <1>7, <1>8, <1>9, MineStep DEF OnlyMine, Each

\* A chunk is hashed and written.
LEMMA ChunkStep ==
  ASSUME ConstantsOK, DownloadInv, NEW d \in D, NEW ok \in BOOLEAN, Chunk(d, ok)
  PROVE  DownloadInv'
<1> DEFINE g == dl[d].good /\ ok
           h == file[d].good /\ ok
           c == [dl[d] EXCEPT !.size = dl[d].size + 1, !.good = g]
           f == [file[d] EXCEPT !.bytes = file[d].bytes + 1, !.good = h]
<1>1. /\ dl[d].pc = "body" /\ dl[d].size + 1 <= Len /\ auth' = auth /\ sentTo' = sentTo
      /\ served' = served /\ UNCHANGED <<dest, disk, now, cancelled, losses>>
      /\ dl' = [dl EXCEPT ![d] = c] /\ file' = [file EXCEPT ![d] = f]
  BY DownloadFacts DEF Chunk, At, OnDisk, World, History, Dls, Files
<1>2. g \in BOOLEAN /\ h \in BOOLEAN
  BY Zenon
<1>3. Each(d) /\ dl[d].size = file[d].bytes
  BY <1>1, DownloadFacts DEF Each, FileInv
<1>4. dl[d].size + 1 \in 0..Len
  BY <1>1, DownloadFacts DEF ConstantsOK, Dls
<1>5. g => h
  BY <1>1, <1>3, Zenon DEF Each, FileInv
<1> HIDE DEF g, h
<1>6. /\ c \in Dls /\ c.pc = "body" /\ c.size = dl[d].size + 1 /\ c.good = g
      /\ f \in Files /\ f.bytes = dl[d].size + 1 /\ f.good = h /\ f.staged = file[d].staged
  BY <1>1, <1>2, <1>3, <1>4, DownloadFacts DEF Dls, Files
<1> HIDE DEF c, f
<1>7. /\ dl' \in [D -> Dls] /\ file' \in [D -> Files] /\ dl'[d] = c /\ file'[d] = f
      /\ \A e \in D : e # d => dl'[e] = dl[e] /\ file'[e] = file[e]
  BY <1>1, <1>6, DownloadFacts
<1>8. TypeOK'
  BY <1>1, <1>7, DownloadFacts, MineType DEF DownloadInv, TypeOK
<1>9. FileInv(d)'
  BY <1>1, <1>3, <1>5, <1>6, <1>7 DEF Each, FileInv
<1>10. StageInv(d)' /\ OfferInv(d)' /\ TicketInv(d)'
  BY <1>1, <1>3, <1>6, <1>7 DEF Each, StageInv, OfferInv, TicketInv
<1> QED BY <1>1, <1>7, <1>8, <1>9, <1>10, MineStep DEF OnlyMine, Each

\* The checks between the last byte and the publication, where they pass.
LEMMA ProceedStep ==
  ASSUME ConstantsOK, DownloadInv, NEW d \in D, NEW pc \in {"whole", "clear"}, Goto(d, pc),
         pc = "whole" => At(d, "body") /\ Whole(d), pc = "clear" => At(d, "synced"),
         UNCHANGED <<file, auth, OnDisk, World, History>>
  PROVE  DownloadInv'
<1>1. /\ dl' \in [D -> Dls] /\ \A e \in D : e # d => dl'[e] = dl[e]
      /\ dl'[d].pc = pc
  BY GotoType DEF Steps
<1>2. /\ file' = file /\ auth' = auth /\ sentTo' = sentTo /\ served' = served
      /\ UNCHANGED <<dest, disk, now, cancelled, losses>>
  BY DEF OnDisk, World, History
<1>3. TypeOK'
  BY <1>1, <1>2, DownloadFacts, MineType DEF DownloadInv, TypeOK
<1>4. Each(d) /\ dl[d].pc \in {"body", "synced"}
  BY DownloadFacts DEF At
<1>5. FileInv(d)'
  BY <1>1, <1>2, <1>4 DEF Each, FileInv, At, Whole
<1>6. StageInv(d)' /\ OfferInv(d)' /\ TicketInv(d)'
  BY <1>1, <1>2, <1>4 DEF Each, StageInv, OfferInv, TicketInv
<1> QED BY <1>1, <1>2, <1>3, <1>5, <1>6, MineStep DEF OnlyMine, Each

\* sync_all: the bytes are on the disk before the name is.
LEMMA SyncStep ==
  ASSUME ConstantsOK, DownloadInv, NEW d \in D, At(d, "whole"), file' = SyncAll(d),
         Goto(d, "synced"), UNCHANGED <<auth, OnDisk, World, History>>
  PROVE  DownloadInv'
<1>1. /\ dl' \in [D -> Dls] /\ \A e \in D : e # d => dl'[e] = dl[e]
      /\ dl'[d].pc = "synced"
  BY GotoType DEF Steps
<1>2. /\ auth' = auth /\ sentTo' = sentTo /\ served' = served /\ dl[d].pc = "whole"
      /\ UNCHANGED <<dest, disk, now, cancelled, losses>>
  BY DEF OnDisk, World, History, At
<1> DEFINE f == [file[d] EXCEPT !.synced = TRUE]
<1>3. /\ f \in Files /\ f.bytes = file[d].bytes /\ f.good = file[d].good
      /\ f.synced = TRUE /\ file' = [file EXCEPT ![d] = f]
  BY DownloadFacts DEF Files, SyncAll
<1> HIDE DEF f
<1>4. /\ file' \in [D -> Files] /\ file'[d] = f /\ \A e \in D : e # d => file'[e] = file[e]
  BY <1>3, DownloadFacts
<1>5. TypeOK'
  BY <1>1, <1>2, <1>4, DownloadFacts, MineType DEF DownloadInv, TypeOK
<1>6. Each(d)
  BY DownloadFacts
<1>7. FileInv(d)'
  BY <1>1, <1>2, <1>3, <1>4, <1>6 DEF Each, FileInv
<1>8. StageInv(d)' /\ OfferInv(d)' /\ TicketInv(d)'
  BY <1>1, <1>2, <1>6 DEF Each, StageInv, OfferInv, TicketInv
<1> QED BY <1>1, <1>2, <1>4, <1>5, <1>7, <1>8, MineStep DEF OnlyMine, Each

\* The file gets the destination's name.
LEMMA PublishStep ==
  ASSUME ConstantsOK, DownloadInv, NEW d \in D, Publish(d)
  PROVE  DownloadInv'
<1> DEFINE b == ~dl[d].replace
           f == [file[d] EXCEPT !.staged = b]
<1>1. /\ dl[d].pc = "clear" /\ dest' = d /\ Goto(d, "published")
      /\ file' = [file EXCEPT ![d] = f]
      /\ auth' = auth /\ sentTo' = sentTo /\ served' = served
      /\ UNCHANGED <<disk, now, cancelled, losses>>
  BY DownloadFacts DEF Publish, At, World, History, Files
<1>2. b \in BOOLEAN
  BY Zenon
<1> HIDE DEF b
<1>3. /\ f \in Files /\ f.bytes = file[d].bytes /\ f.good = file[d].good
      /\ f.synced = file[d].synced
  BY <1>2, DownloadFacts DEF Files
<1> HIDE DEF f
<1>4. /\ dl' \in [D -> Dls] /\ dl'[d].pc = "published"
      /\ file' \in [D -> Files] /\ file'[d] = f
      /\ \A e \in D : e # d => dl'[e] = dl[e] /\ file'[e] = file[e]
  BY <1>1, <1>3, DownloadFacts, GotoType DEF Steps
<1>5. TypeOK'
  BY <1>1, <1>4 DEF DownloadInv, TypeOK, Dls, Files
<1>6. Each(d)
  BY DownloadFacts
<1>7. FileInv(d)'
  BY <1>1, <1>3, <1>4, <1>6 DEF Each, FileInv
<1>8. StageInv(d)' /\ OfferInv(d)' /\ TicketInv(d)'
  BY <1>1, <1>4, <1>6 DEF Each, StageInv, OfferInv, TicketInv
<1>9. ASSUME NEW e \in D, e # d PROVE Each(e)'
  BY <1>1, <1>4, <1>9, OtherDownload
<1> QED BY <1>5, <1>7, <1>8, <1>9 DEF DownloadInv, Each

\* The staged name is removed after the publication.
LEMMA FinishStep ==
  ASSUME ConstantsOK, DownloadInv, NEW d \in D, Finish(d)
  PROVE  DownloadInv'
<1> DEFINE f == [file[d] EXCEPT !.staged = FALSE]
<1>1. /\ dl[d].pc = "published" /\ Goto(d, "done") /\ file' = [file EXCEPT ![d] = f]
      /\ auth' = auth /\ sentTo' = sentTo /\ served' = served
      /\ UNCHANGED <<dest, disk, now, cancelled, losses>>
  BY DownloadFacts DEF Finish, At, OnDisk, World, History, Files
<1>2. /\ f \in Files /\ f.bytes = file[d].bytes /\ f.good = file[d].good
      /\ f.synced = file[d].synced
  BY DownloadFacts DEF Files
<1> HIDE DEF f
<1>3. /\ dl' \in [D -> Dls] /\ dl'[d].pc = "done"
      /\ file' \in [D -> Files] /\ file'[d] = f
      /\ \A e \in D : e # d => dl'[e] = dl[e] /\ file'[e] = file[e]
  BY <1>1, <1>2, DownloadFacts, GotoType DEF Steps
<1>4. TypeOK'
  BY <1>1, <1>3, DownloadFacts, MineType DEF DownloadInv, TypeOK
<1>5. Each(d)
  BY DownloadFacts
<1>6. FileInv(d)'
  BY <1>1, <1>2, <1>3, <1>5 DEF Each, FileInv
<1>7. StageInv(d)' /\ OfferInv(d)' /\ TicketInv(d)'
  BY <1>1, <1>3, <1>5 DEF Each, StageInv, OfferInv, TicketInv
<1> QED BY <1>1, <1>3, <1>4, <1>6, <1>7, MineStep DEF OnlyMine, Each

\* A failed download is tried again.
LEMMA AgainStep ==
  ASSUME ConstantsOK, DownloadInv, NEW d \in D, Again(d)
  PROVE  DownloadInv'
<1>1. /\ dl[d].pc = "failed" /\ Goto(d, "ready") /\ dest # d /\ disk # d /\ file' = file
      /\ auth' = auth /\ sentTo' = sentTo /\ served' = served
      /\ UNCHANGED <<dest, disk, now, cancelled, losses>>
  BY DEF Again, At, OnDisk, World, History
<1>2. /\ dl' \in [D -> Dls] /\ dl'[d].pc = "ready" /\ \A e \in D : e # d => dl'[e] = dl[e]
  BY <1>1, GotoType DEF Steps
<1>3. TypeOK'
  BY <1>1, <1>2, DownloadFacts, MineType DEF DownloadInv, TypeOK
<1>4. Each(d)
  BY DownloadFacts
<1>5. FileInv(d)' /\ StageInv(d)' /\ OfferInv(d)' /\ TicketInv(d)'
  BY <1>1, <1>2, <1>4 DEF Each, FileInv, StageInv, OfferInv, TicketInv
<1> QED BY <1>1, <1>2, <1>3, <1>5, MineStep DEF OnlyMine, Each

\* Cancellation, time, another program, and the directory written back.
LEMMA WorldStep ==
  ASSUME ConstantsOK, DownloadInv, Cancel \/ Tick \/ OtherCreates \/ WriteBack
  PROVE  DownloadInv'
<1>1. /\ dl' = dl /\ auth' = auth /\ file' = file /\ sentTo' = sentTo /\ served' = served
      /\ losses' = losses /\ dest' \in {dest, Other} /\ disk' \in {disk, dest}
  BY DEF Cancel, Tick, OtherCreates, WriteBack, OnDisk, World, History
<1>2. now' \in 0..MaxTime /\ cancelled' \in BOOLEAN
  <2>1. now \in 0..MaxTime /\ cancelled \in BOOLEAN /\ MaxTime \in Nat
    BY DEF DownloadInv, TypeOK, ConstantsOK
  <2>2. CASE Tick
    BY <2>1, <2>2 DEF Tick
  <2>3. CASE Cancel
    BY <2>1, <2>3 DEF Cancel
  <2>4. CASE OtherCreates \/ WriteBack
    BY <2>1, <2>4 DEF OtherCreates, WriteBack, World
  <2> QED BY <2>2, <2>3, <2>4
<1>3. Other \notin D
  BY DEF ConstantsOK
<1>4. TypeOK'
  BY <1>1, <1>2 DEF DownloadInv, TypeOK
<1>5. ASSUME NEW e \in D PROVE Each(e)'
  BY <1>1, <1>3, OtherDownload
<1> QED BY <1>4, <1>5 DEF DownloadInv

\* Power is lost: what is published was synchronised before.
LEMMA LosePowerStep == ASSUME ConstantsOK, DownloadInv, LosePower PROVE DownloadInv'
<1>1. PICK kept \in [D -> 0..Len] :
        /\ \A d \in D : kept[d] <= file[d].bytes /\ (file[d].synced => kept[d] = file[d].bytes)
        /\ file' = [d \in D |-> [file[d] EXCEPT !.bytes = kept[d]]]
  BY DEF LosePower
<1>2. /\ losses < MaxLosses /\ losses' = losses + 1 /\ dest' = disk
      /\ dl' = [d \in D |-> IF dl[d].pc \in {"idle", "offered", "ready"} THEN dl[d]
                            ELSE [dl[d] EXCEPT !.pc = "failed"]]
      /\ auth' = auth /\ disk' = disk /\ now' = now /\ cancelled' = cancelled
      /\ sentTo' = sentTo /\ served' = served
  BY DEF LosePower, History
<1>3. losses' \in 0..MaxLosses /\ losses' # 0
  BY <1>2, DownloadFacts DEF ConstantsOK
<1>4. ASSUME NEW d \in D
      PROVE  /\ file'[d] \in Files /\ file'[d].bytes = kept[d] /\ file'[d].good = file[d].good
             /\ file'[d].synced = file[d].synced
             /\ dl'[d] \in Dls
             /\ \/ dl'[d] = dl[d] /\ dl[d].pc \in {"idle", "offered", "ready"}
                \/ dl'[d].pc = "failed" /\ dl[d].pc \notin {"idle", "offered", "ready"}
  <2>1. file[d] \in Files /\ dl[d] \in Dls /\ kept[d] \in 0..Len
    BY DownloadFacts
  <2>2. file'[d] = [file[d] EXCEPT !.bytes = kept[d]]
    BY <1>1
  <2>3. file'[d] \in Files /\ file'[d].bytes = kept[d] /\ file'[d].good = file[d].good
        /\ file'[d].synced = file[d].synced
    BY <2>1, <2>2 DEF Files
  <2>4. [dl[d] EXCEPT !.pc = "failed"] \in Dls /\ [dl[d] EXCEPT !.pc = "failed"].pc = "failed"
    BY <2>1 DEF Dls, Steps
  <2> QED BY <1>2, <2>1, <2>3, <2>4
<1>5. TypeOK'
  <2>1. dl' \in [D -> Dls] /\ file' \in [D -> Files]
    BY <1>1, <1>2, <1>4
  <2> QED BY <1>2, <1>3, <2>1 DEF DownloadInv, TypeOK, Dls, Files
<1>6. ASSUME NEW d \in D PROVE Each(d)'
  <2>1. Each(d)
    BY DownloadFacts
  <2>2. FileInv(d)'
    BY <1>1, <1>2, <1>4, <2>1 DEF Each, FileInv
  <2>3. StageInv(d)' /\ OfferInv(d)' /\ TicketInv(d)'
    BY <1>2, <1>3, <1>4, <2>1 DEF Each, StageInv, OfferInv, TicketInv
  <2> QED BY <2>2, <2>3 DEF Each
<1> QED BY <1>5, <1>6 DEF DownloadInv

(***************************************************************************)
(* The theorems                                                            *)
(***************************************************************************)

\* Nothing has been asked for and nothing is staged.
LEMMA DownloadInit == ASSUME ConstantsOK, Init PROVE DownloadInv
<1>1. 0 \in 0..LastHop /\ 0 \in 0..Len /\ 0 \in 0..MaxTime /\ -1 \in -1..MaxTime
      /\ 0 \in 0..MaxLosses /\ 0 \in -Skew..(MaxTime + 2 * Skew + 1)
      /\ 0 \in -Skew..(MaxTime + MaxLife + 2 * Skew + 2)
  BY DEF ConstantsOK
<1>2. IdleDownload \in Dls /\ NoFile \in Files /\ NoTicket \in Tickets
  BY <1>1 DEF Dls, Steps, Files, Tickets, IdleDownload, NoFile, NoTicket
<1>3. (CHOOSE a \in Artifacts : TRUE) \in Artifacts
  <2>1. PICK r \in Releases : TRUE
    BY DEF ConstantsOK
  <2>2. [release |-> r, mine |-> TRUE] \in Artifacts
    BY DEF Artifacts
  <2> QED BY <2>2, Zenon
<1>4. auth \in [D -> Auths]
  <2> DEFINE w == [art |-> CHOOSE a \in Artifacts : TRUE, ticket |-> NoTicket, protected |-> FALSE]
  <2>1. auth = [d \in D |-> w]
    BY DEF Init
  <2>2. w \in Auths
    BY <1>2, <1>3 DEF Auths
  <2> HIDE DEF w
  <2> QED BY <2>1, <2>2
<1>5. TypeOK
  BY <1>1, <1>2, <1>4 DEF Init, TypeOK, Dls, Files, Auths
<1>6. ASSUME NEW d \in D PROVE Each(d)
  <2>1. dl[d].pc = "idle" /\ d \notin {dest, disk} /\ sentTo[d] = {} /\ served[d].first = -1
        /\ served[d].last = -1
    BY DEF Init, IdleDownload, ConstantsOK
  <2>2. file[d].staged = FALSE
    BY DEF Init, NoFile
  <2> QED BY <2>1, <2>2 DEF Each, FileInv, StageInv, OfferInv, TicketInv
<1> QED BY <1>5, <1>6 DEF DownloadInv

\* Every step of the downloads and of the world keeps the invariant.
LEMMA DownloadNext == ASSUME ConstantsOK, DownloadInv, [Next]_vars PROVE DownloadInv'
<1>1. ASSUME NEW d \in D, CheckForUpdates(d) PROVE DownloadInv'   BY <1>1, CheckStep
<1>2. ASSUME NEW d \in D, AuthorizeDownload(d) PROVE DownloadInv' BY <1>2, AuthorizeStep
<1>3. ASSUME NEW d \in D, Start(d) PROVE DownloadInv'             BY <1>3, StartStep
<1>4. ASSUME NEW d \in D, Redirected(d) PROVE DownloadInv'        BY <1>4, RedirectedStep
<1>5. ASSUME NEW d \in D, Accepted(d) PROVE DownloadInv'          BY <1>5, AcceptedStep
<1>6. ASSUME NEW d \in D, RequestFails(d) PROVE DownloadInv'
  BY <1>6, FailStep DEF RequestFails, At
<1>7. ASSUME NEW d \in D, NEW ok \in BOOLEAN, Chunk(d, ok) PROVE DownloadInv'
  BY <1>7, ChunkStep
<1>8. ASSUME NEW d \in D, BodyFails(d) \/ PublishFails(d) \/ Dropped(d) PROVE DownloadInv'
  BY <1>8, FailStep DEF BodyFails, PublishFails, Dropped, At, History
<1>9. ASSUME NEW d \in D, BodyEnds(d) PROVE DownloadInv'
  <2>1. CASE Whole(d)
    BY <1>9, <2>1, ProceedStep DEF BodyEnds
  <2>2. CASE ~Whole(d)
    BY <1>9, <2>2, FailStep DEF BodyEnds, At, History
  <2> QED BY <2>1, <2>2
<1>10. ASSUME NEW d \in D, Sync(d) PROVE DownloadInv'
  <2>1. CASE file' = SyncAll(d) /\ Goto(d, "synced")
    BY <1>10, <2>1, SyncStep DEF Sync
  <2>2. CASE Fail(d)
    BY <1>10, <2>2, FailStep DEF Sync, At, History
  <2> QED BY <1>10, <2>1, <2>2 DEF Sync
<1>11. ASSUME NEW d \in D, LastCheck(d) PROVE DownloadInv'
  <2>1. CASE ~cancelled
    BY <1>11, <2>1, ProceedStep DEF LastCheck
  <2>2. CASE cancelled
    BY <1>11, <2>2, FailStep DEF LastCheck, At, History
  <2> QED BY <2>1, <2>2
<1>12. ASSUME NEW d \in D, Publish(d) PROVE DownloadInv'          BY <1>12, PublishStep
<1>13. ASSUME NEW d \in D, Finish(d) PROVE DownloadInv'           BY <1>13, FinishStep
<1>14. ASSUME NEW d \in D, Again(d) PROVE DownloadInv'            BY <1>14, AgainStep
<1>15. CASE Cancel \/ Tick \/ OtherCreates \/ WriteBack           BY <1>15, WorldStep
<1>16. CASE LosePower                                             BY <1>16, LosePowerStep
<1>17. CASE UNCHANGED vars
  <2>1. TypeOK'
    BY <1>17 DEF vars, DownloadInv, TypeOK
  <2>2. ASSUME NEW e \in D PROVE Each(e)'
    BY <1>17, OtherDownload DEF vars
  <2> QED BY <2>1, <2>2 DEF DownloadInv
<1> QED BY <1>1, <1>2, <1>3, <1>4, <1>5, <1>6, <1>7, <1>8, <1>9, <1>10, <1>11, <1>12, <1>13,
           <1>14, <1>15, <1>16, <1>17 DEF Next

\* What the invariant says of the destination, of failures and of tickets.
LEMMA DownloadSafe ==
  ASSUME ConstantsOK, DownloadInv
  PROVE  /\ DestinationIsWhole /\ PublishedIsNewer /\ FailureLeavesNothing
         /\ TicketStaysHome /\ TicketWindow
<1>1. DestinationIsWhole /\ PublishedIsNewer
  BY DEF DownloadInv, Each, FileInv, OfferInv, DestinationIsWhole, PublishedIsNewer
<1>2. FailureLeavesNothing /\ TicketStaysHome
  BY DEF DownloadInv, Each, StageInv, TicketInv, FailureLeavesNothing, TicketStaysHome, At
<1>3. TicketWindow
  <2> SUFFICES ASSUME NEW d \in D PROVE served[d].last - served[d].first < MaxLife + Skew
    BY DEF TicketWindow
  <2>1. served[d].last \in Int /\ served[d].first \in Int
    BY DEF DownloadInv, TypeOK
  <2>2. auth[d].ticket.iat \in Int /\ auth[d].ticket.exp \in Int
    BY DownloadFacts DEF Auths, Tickets
  <2>3. Skew \in Nat /\ MaxLife \in Nat \ {0}
    BY DEF ConstantsOK
  <2> QED BY <2>1, <2>2, <2>3 DEF DownloadInv, Each, TicketInv
<1> QED BY <1>1, <1>2, <1>3

\* hard_link, or a rename that was asked for: a download that may not replace
\* publishes only where nothing is, however long ago it looked.
LEMMA ClobbersNothing == ASSUME ConstantsOK, DownloadInv, [Next]_vars PROVE NeverClobbers
<1> SUFFICES ASSUME NEW d \in D, dest # d, dest' = d, losses' = losses, ~dl[d].replace
             PROVE  dest = Absent
  BY DEF NeverClobbers
<1>1. losses \in Nat /\ Other \notin D
  BY DownloadFacts DEF ConstantsOK
<1>2. CASE LosePower
  BY <1>1, <1>2 DEF LosePower
<1>3. CASE OtherCreates
  BY <1>1, <1>3 DEF OtherCreates
<1>4. ASSUME NEW e \in D, Publish(e) PROVE dest = Absent
  <2>1. e = d
    BY <1>4 DEF Publish
  <2> QED BY <1>4, <2>1 DEF Publish, MayPublish
<1>5. CASE dest' = dest
  BY <1>5
<1> QED BY <1>2, <1>3, <1>4, <1>5
     DEF Next, vars, OnDisk, CheckForUpdates, AuthorizeDownload, Start, Redirected, Accepted,
         RequestFails, Chunk, BodyFails, BodyEnds, Sync, LastCheck, PublishFails, Finish,
         Dropped, Again, Cancel, Tick, WriteBack

\* The invariant holds of every state the downloads reach.
THEOREM DownloadInductive == ASSUME ConstantsOK PROVE Spec => []DownloadInv
<1>1. Init => DownloadInv
  BY DownloadInit
<1>2. DownloadInv /\ [Next]_vars => DownloadInv'
  BY DownloadNext
<1> QED BY <1>1, <1>2, PTL DEF Spec

\* The destination is a whole, unaltered artifact or what it was, after a loss
\* of power at any step and with any number of downloads to one destination.
THEOREM DestinationStaysWhole == ASSUME ConstantsOK PROVE Spec => []DestinationIsWhole
<1>1. DownloadInv => DestinationIsWhole
  BY DownloadSafe
<1> QED BY <1>1, DownloadInductive, PTL

\* What is published is of a newer release and for this target, although the
\* offer and the authorization are two answers of the server.
THEOREM OnlyNewerIsPublished == ASSUME ConstantsOK PROVE Spec => []PublishedIsNewer
<1>1. DownloadInv => PublishedIsNewer
  BY DownloadSafe
<1> QED BY <1>1, DownloadInductive, PTL

\* A download that returned an error left no staged file and did not touch the
\* destination, unless power was lost.
THEOREM FailureIsClean == ASSUME ConstantsOK PROVE Spec => []FailureLeavesNothing
<1>1. DownloadInv => FailureLeavesNothing
  BY DownloadSafe
<1> QED BY <1>1, DownloadInductive, PTL

\* A ticket is seen by the artifact's own address only, and honoured for less
\* than its longest life and the allowed skew together.
THEOREM TicketIsConfined == ASSUME ConstantsOK PROVE Spec => [](TicketStaysHome /\ TicketWindow)
<1>1. DownloadInv => TicketStaysHome /\ TicketWindow
  BY DownloadSafe
<1> QED BY <1>1, DownloadInductive, PTL

\* A download that may not replace never takes a name that is in use.
THEOREM NothingIsClobbered == ASSUME ConstantsOK PROVE Spec => [][NeverClobbers]_vars
<1>1. DownloadInv /\ [Next]_vars => [NeverClobbers]_vars
  BY ClobbersNothing
<1> QED BY <1>1, DownloadInductive, PTL DEF Spec
=============================================================================
