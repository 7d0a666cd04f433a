------------------------------ MODULE MCServices ------------------------------
(***************************************************************************)
(* What a program asks of the service besides access: calls with a         *)
(* customer's account (Accounts), and updates (Downloads), once with two   *)
(* downloads to one destination and once with one download and the clock   *)
(* of a protected endpoint.  They share no state; a behaviour is one of    *)
(* them.                                                                   *)
(***************************************************************************)
EXTENDS Accounts, TLC

CONSTANTS d1, d2, d3, Absent, Other

VARIABLES part, dl, auth, file, dest, disk, now, cancelled, losses, sentTo, served

\* Two downloads, power loss, no clock.
Pair == INSTANCE Downloads WITH
  D <- {d1, d2}, Releases <- {1, 2}, Installed <- 1, Len <- 1, MaxSize <- 1,
  LastHop <- 1, Skew <- 0, MaxLife <- 1, MaxTime <- 0, MaxLosses <- 1

\* One download and every second around the ends of a ticket.
Single == INSTANCE Downloads WITH
  D <- {d3}, Releases <- {1, 2}, Installed <- 1, Len <- 2, MaxSize <- 2,
  LastHop <- 2, Skew <- 1, MaxLife <- 2, MaxTime <- 5, MaxLosses <- 1

ASSUME ConstantsAssumption == Pair!ConstantsOK /\ Single!ConstantsOK

Symmetry == Permutations(Threads) \cup Permutations(Customers) \cup Permutations({d1, d2})

ServicesInit ==
  /\ Init
  /\ \/ part = "accounts" /\ Pair!Init /\ dest = Absent
     \/ part = "downloads" /\ Pair!Init
     \/ part = "tickets" /\ Single!Init

downloadVars == <<dl, auth, file, dest, disk, now, cancelled, losses, sentTo, served>>

ServicesNext ==
  /\ UNCHANGED part
  /\ \/ part = "accounts" /\ Next /\ UNCHANGED downloadVars
     \/ part = "downloads" /\ Pair!Next /\ UNCHANGED vars
     \/ part = "tickets" /\ Single!Next /\ UNCHANGED vars

ServicesSpec == ServicesInit /\ [][ServicesNext]_<<part, vars, downloadVars>>

-----------------------------------------------------------------------------
(* Properties *)

\* The variables of accounts and downloads have their types.
TypesOK == TypeOK /\ IF part = "tickets" THEN Single!TypeOK ELSE Pair!TypeOK

\* Accounts (accounts.rs, login, logout_account and activations with a
\* session): in whatever order sign-ins, activations and sign-outs overlap, one
\* customer's activation is never used while another is signed in, and nothing
\* asked for before a sign-out is held after it.
AccountIsSafe == NoCrossCustomerAccess /\ SignOutIsFinal

\* Downloads (updates.rs, download): the destination is a whole, newer artifact
\* or what it was, after a loss of power too; a failed download leaves nothing;
\* a ticket is sent to its own endpoint only, however often it is redirected,
\* and honoured for a bounded time (downloads.rs, verify).
DownloadIsSafe ==
  IF part = "tickets"
  THEN Single!DestinationIsWhole /\ Single!PublishedIsNewer /\ Single!FailureLeavesNothing /\ Single!TicketStaysHome /\ Single!TicketWindow
  ELSE Pair!DestinationIsWhole /\ Pair!PublishedIsNewer /\ Pair!FailureLeavesNothing /\ Pair!TicketStaysHome

\* State that was read before an await: an answer is delivered only while the
\* session it was obtained with is signed in (accounts.rs, check of the
\* generation), and a download that may not replace publishes only where nothing
\* is, although it looked before the transfer (updates.rs, publication).
NothingStale ==
  [][AnswerMatchesAccount /\ IF part = "tickets" THEN Single!NeverClobbers ELSE Pair!NeverClobbers
    ]_<<part, vars, downloadVars>>
=============================================================================
