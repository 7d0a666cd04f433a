------------------------------- MODULE Metering -------------------------------
(***************************************************************************)
(* Usage and resource counters, sdk/rust/src/limits.rs, over the transport *)
(* of module Transport: a mutation carries an operation id, its attempts   *)
(* may reach the server in any number and order, and the caller learns     *)
(* that it was counted, that it was not, or that the outcome is uncertain. *)
(*                                                                         *)
(* The server is external, and does what sdk/rust/README.md:221 states: it *)
(* counts an operation id once and answers a repetition with the original  *)
(* debit or allocation; it repeats a denial for usage only, and decides a  *)
(* denied resource mutation anew.  Beyond that page the model assumes that *)
(* an error envelope of Orbit, a 5xx too, means that this request was not  *)
(* counted.  Others use the same counters, so that any request for units   *)
(* may find one full; units, names, periods and dates are left out.        *)
(***************************************************************************)
EXTENDS Transport

CONSTANTS Ops,     \* jobs, each with its own operation id
          Releases, \* jobs that release an allocation made earlier; the others take units
          Debits,  \* jobs that consume usage; the others are about resources
          NoOp     \* no job

ASSUME OpsAssumption == NoOp \notin Ops /\ Releases \subseteq Ops /\ Debits \subseteq Ops \ Releases

\* The counters' paths are service routes (limits.rs, service_route).
ASSUME RouteAssumption == Service

VARIABLES
  activated, \* online_service finds a settled activation and no offline file
  gen,       \* State.generation
  task,      \* the mutation each caller makes
  ledger,    \* the server's outcome of each operation id
  revoked    \* the server no longer honours the activation's credential

meterVars == <<activated, gen, task, ledger, revoked>>
allVars == <<transportVars, meterVars>>

NoTask == [op |-> NoOp, gen |-> 0, outcome |-> "none"]

\* An operation id: the caller's job, and the attempt that drew it (always 0).
Ids == Ops \X (0..LastAttempt)

Init ==
  /\ TransportInit
  /\ activated = TRUE
  /\ gen = 0
  /\ task = [c \in Callers |-> NoTask]
  /\ ledger = [i \in Ids |-> "none"]
  /\ revoked = FALSE

-----------------------------------------------------------------------------
(* The server *)

Counted(i) == ledger[i] = "counted"
Settles(o) == \E i \in Ids : i[1] = o /\ Counted(i)

\* Mutant: an attempt draws its own operation id.
IdOfAttempt(m) == <<task[m[1]].op, m[2]>>

\* operation_id: drawn or checked once, before the first attempt.
IdOf(m) == <<task[m[1]].op, 0>>

Remembered(i) == Counted(i) \/ (i[1] \in Debits /\ ledger[i] # "none")

\* The server settles an operation id, unless it remembers what became of it.
Verdict(i) ==
  IF Remembered(i) THEN {ledger[i]}
  ELSE {"denied", "counted"} \cup (IF i[1] \in Releases THEN {} ELSE {"limit"})

VerdictOf == [counted |-> "accepted", limit |-> "limit", denied |-> "refused"]

\* A request is settled, or settled already, and answered; the answer may be a
\* gateway's.
Settled(m) ==
  \E v \in Verdict(IdOf(m)) :
    /\ ~revoked
    /\ ledger' = [ledger EXCEPT ![IdOf(m)] = v]
    /\ \E a \in {VerdictOf[v], "gateway"} : Handle(m, v = "counted", a)
    /\ UNCHANGED <<activated, gen, task, revoked>>

\* It is turned away unseen: too many requests, a gateway without a server, or
\* a credential the server does not honour.
TurnedAway(m) ==
  /\ \/ Handle(m, FALSE, "busy")
     \/ Handle(m, FALSE, "gateway")
     \/ revoked /\ Handle(m, FALSE, "refused")
  /\ UNCHANGED meterVars

Revoke == ~revoked /\ revoked' = TRUE /\ UNCHANGED <<transportVars, activated, gen, task, ledger>>

-----------------------------------------------------------------------------
(* The client *)

\* online_service up to the request: the credential and the generation are read.
Mutate(c, o) ==
  /\ activated
  /\ task[c] = NoTask
  /\ task' = [task EXCEPT ![c] = [op |-> o, gen |-> gen, outcome |-> "none"]]
  /\ Request(c, "safe")
  /\ UNCHANGED <<activated, gen, ledger, revoked>>

\* consume_optional and acquire_optional ...
Take(c, o) == o \notin Releases /\ Mutate(c, o)

\* ... and release_optional, which has no capacity denial to read.
Release(c, o) == o \in Releases /\ Mutate(c, o)

\* Refused before anything is sent: bad input, no activation, a pending one, or
\* an offline file.  These are causes failure calls certain; Closed is not.
MutateRefused(c, o) ==
  /\ task[c] = NoTask
  /\ RequestRefused(c)
  /\ task' = [task EXCEPT ![c] = [op |-> o, gen |-> gen, outcome |->
       IF closed THEN "uncertain" ELSE "refused"]]
  /\ UNCHANGED <<activated, gen, ledger, revoked>>

\* Mutant: only an unusable answer is uncertain.
OutagesAreCertain(c) == call[c].result \in {"denied", "version", "transient", "cancelled"}

\* failure: the causes after which an operation was certainly not counted by
\* this call, of those a sent request can end with.
CertainFailure(c) == call[c].result = "denied"

\* Mutant: the error member of an answer is not looked at.
ReadsAnyAnswer(c) == "ok"

\* consume_optional, acquire_optional, release_optional on an answer: a
\* counter, or the envelope of a capacity denial.
Reads(c) ==
  IF reply[c] # "limit" THEN "ok"
  ELSE IF task[c].op \in Releases THEN "uncertain" ELSE "limit"

\* The call returned: the generation is checked, then the answer.  An answer
\* whose ids, units or counters do not fit is uncertain.
Returns(c) ==
  /\ call[c].pc = "done" /\ task[c].op # NoOp /\ task[c].outcome = "none"
  /\ \E fits \in BOOLEAN :
       task' = [task EXCEPT ![c].outcome =
         IF task[c].gen # gen \/ closed THEN "uncertain"
         ELSE IF CertainFailure(c) THEN "refused"
         ELSE IF call[c].result = "ok" /\ fits THEN Reads(c)
         ELSE "uncertain"]
  /\ UNCHANGED <<transportVars, activated, gen, ledger, revoked>>

\* logout, a new activation that stays pending, or the import of an offline file.
Moves ==
  /\ activated
  /\ activated' = FALSE
  /\ gen' = gen + 1
  /\ UNCHANGED <<transportVars, task, ledger, revoked>>

\* A step of the transport alone.  Mutations use the owner's token: no caller
\* has one of its own.
Transports ==
  /\ \/ \E c \in Callers : Steps(c)
     \/ \E m \in wire : Lose(m)
     \/ Close \/ Tick
  /\ UNCHANGED meterVars

MeterNext ==
  \/ Transports
  \/ \E c \in Callers : (\E o \in Ops : Take(c, o) \/ Release(c, o) \/ MutateRefused(c, o)) \/ Returns(c)
  \/ \E m \in wire : Settled(m) \/ TurnedAway(m)
  \/ Revoke \/ Moves

MeterSpec == Init /\ [][MeterNext]_allVars

-----------------------------------------------------------------------------
(* Properties *)

\* A job is charged once, however often its request was sent by one call and
\* repeated by another with the same id.
JobCountedOnce == \A o \in Ops : Cardinality({i \in Ids : i[1] = o /\ Counted(i)}) =< 1

\* A caller that is told its job was counted may do the work: it was.
OkMeansCounted ==
  \A c \in Callers : task[c].outcome = "ok" => Settles(task[c].op)

\* A failure that is not uncertain means this job is not charged by this call:
\* an outage, a timeout, a cancellation and a logout in flight all leave it
\* uncertain.  After an outage an earlier request of the call may still be under
\* way; then it takes a server that remembers the denial and honours the
\* credential: a revoked one may hide an attempt that was counted.
CertainMeansNotCounted ==
  \A c \in Callers :
    /\ task[c].outcome \in {"refused", "limit"}
    /\ call[c].n = 0 \/ (task[c].op \in Debits /\ ~revoked)
    => handled[c] = 0

\* A capacity denial of usage is final for its id: the job was not, and will not
\* be, charged, whatever requests are still under way.
LimitMeansNeverCounted ==
  \A c \in Callers : task[c].outcome = "limit" /\ task[c].op \in Debits => ~Settles(task[c].op)

\* What a caller is told of its job (limits.rs, mutate) is true whatever was
\* lost, repeated or is still under way: counted, denied, refused.
OutcomeIsTrue == OkMeansCounted /\ CertainMeansNotCounted /\ LimitMeansNeverCounted
=============================================================================
