------------------------------ MODULE MCRequests ------------------------------
(***************************************************************************)
(* Requests and their repetition: by the transport of the client           *)
(* (Transport), and by the operator of the command line tool, who repeats  *)
(* a command whose answer was lost (Management, once with commands that    *)
(* carry a key and once with those that change many licences) and whose    *)
(* new policy is made of copied terms and flags (PolicyTerms).  They share *)
(* no state; a behaviour is one of them.                                   *)
(***************************************************************************)
EXTENDS Transport, Sequences

CONSTANTS Operators, l1, l2

VARIABLES
  part,
  lic, made, keys, moves, requests, tasks, runs,              \* Management
  pc, task, run, used, seen, step, told, known,
  phase, from, flags, terms                                   \* PolicyTerms

R == INSTANCE Management WITH
  wire <- requests, Licences <- {l1}, Names <- {"a", "b"}, Batches <- <<{l1}>>,
  Kinds <- {"keyed", "edit", "policy"}, MaxTasks <- 2, MaxRuns <- 4

M == INSTANCE Management WITH
  wire <- requests, Licences <- {l1, l2}, Names <- {"a", "b"}, Batches <- <<{l1}, {l2}>>,
  Kinds <- {"move", "merge", "status"}, MaxTasks <- 2, MaxRuns <- 2

P == INSTANCE PolicyTerms WITH Names <- {"a"}

Off == "unused"
commandVars == <<lic, made, keys, moves, requests, tasks, runs, pc, task, run, used, seen, step, told, known>>
termVars == <<phase, from, flags, terms>>
termsOff == phase = Off /\ from = Off /\ flags = Off /\ terms = Off

RequestsInit ==
  /\ TransportInit
  /\ \/ part \in {"transport", "moves"} /\ M!Init /\ termsOff
     \/ part = "retries" /\ R!Init /\ termsOff
     \/ part = "terms" /\ M!Init /\ P!Init

RequestsNext ==
  /\ UNCHANGED part
  /\ \/ part = "transport" /\ Next /\ UNCHANGED <<commandVars, termVars>>
     \/ part = "retries" /\ R!Next /\ UNCHANGED <<transportVars, termVars>>
     \/ part = "moves" /\ M!Next /\ UNCHANGED <<transportVars, termVars>>
     \/ part = "terms" /\ P!Next /\ UNCHANGED <<transportVars, commandVars>>

\* Fairness is that of Transport; nothing is assumed of operators.
RequestsSpec ==
  RequestsInit /\ [][RequestsNext]_<<part, transportVars, commandVars, termVars>> /\ Fairness

-----------------------------------------------------------------------------
(* Properties *)

\* The variables of the transport and of the tool have their types.
TypesOK == TypeOK /\ IF part = "retries" THEN R!TypeOK ELSE M!TypeOK

\* An operation returns in its time whatever the service does (transport.rs,
\* OPERATION_TIMEOUT), and sends nothing more once its caller cancelled it or
\* the client was closed.
CallsEnd == EveryCallReturns /\ CancelStopsSending

\* The command line tool.  "Repeat the same command with `--idempotency-key` and
\* that key to retry safely without applying it twice" (cli/README.md:199): a
\* keyed command changes things once however often it is repeated, and an
\* operator who was given no key knows that nothing was changed (app.rs, run).
\* change-policy moves only what was previewed and reports what it did when a
\* batch fails; a new policy is consistent and differs from the version it
\* copies only by the flags (policies.rs).
CommandsAreSafe ==
  /\ part = "retries" => R!KeyedExactlyOnce /\ R!KeyOrCertainty
  /\ part = "moves" => M!PreviewedOnly /\ M!MoveReport
  /\ part = "terms" => P!CopyIsConsistent /\ P!OnlyFlagsApply
=============================================================================
