------------------------------ MODULE Transport ------------------------------
(***************************************************************************)
(* The HTTP transport of sdk/rust/src/transport.rs: one operation is up to *)
(* three attempts of one request, within the timeout of each attempt and   *)
(* of the operation, ended at any moment by the caller or by close.        *)
(*                                                                         *)
(* A request on the wire may be handled at any later time, after its       *)
(* attempt timed out and after its caller returned; an answer may be lost. *)
(* A request stands for its method, path and body together: all attempts   *)
(* of an operation send the same bytes.  Callers make one operation each.  *)
(***************************************************************************)
EXTENDS Integers, FiniteSets

CONSTANTS Callers,         \* operations
          LastAttempt,     \* attempts are 0..LastAttempt: 2 in the code
          OpTimeout,       \* OPERATION_TIMEOUT, 30 s, in units of the model
          AttemptTimeout,  \* ATTEMPT_TIMEOUT, 10 s
          CleanupTimeout,  \* the 2 s of post_cleanup
          Delays,          \* delays before an attempt: backoff, or a longer Retry-After
          Service          \* TRUE: the path is a service_route of limits.rs

ASSUME TimeoutsAssumption ==
  /\ {OpTimeout, AttemptTimeout, CleanupTimeout} \subseteq Nat \ {0}
  /\ Delays \subseteq Nat /\ LastAttempt \in Nat
ASSUME ServiceAssumption == Service \in BOOLEAN

VARIABLES
  call,      \* what each operation is doing
  wire,      \* requests that were sent and not handled yet: <<caller, attempt>>
  reply,     \* the answer on its way to each operation's current attempt
  cancelled, \* callers whose Cancellation is set
  closed,    \* owner_cancel
  handled,   \* history: how often the server carried an operation out
  decided    \* history: operations that decided Orbit's decision

transportVars == <<call, wire, reply, cancelled, closed, handled, decided>>

Kinds == {"safe", "unsafe", "cleanup"}
Classes == {"ok", "denied", "version", "transient", "invalid", "security"}
Results == Classes \cup {"none", "configuration", "cancelled"}
Calls == [pc : {"idle", "sent", "sleep", "done"}, kind : Kinds, n : 0..LastAttempt,
          left : 0..OpTimeout, timer : Nat, result : Results]
Idle == [pc |-> "idle", kind |-> "safe", n |-> 0, left |-> OpTimeout, timer |-> 0,
         result |-> "none"]

\* Answers that differ in what attempt makes of them.  body: "json", "empty",
\* "garbage", a well-formed "error" envelope, or a "malformed" one.
Answer(status, body, code) == [status |-> status, body |-> body, code |-> code]
Accepted == {Answer(200, "json", "none"), Answer(201, "json", "none"), Answer(204, "empty", "none")}
Gateway == {Answer(502, "garbage", "none"), Answer(504, "empty", "none")}
Temporary == {Answer(429, "error", "rate_limited"), Answer(503, "error", "service_unavailable")}
Refusals ==
  {Answer(401, "error", "other"), Answer(403, "error", "app_version_unsupported"),
   Answer(403, "error", "limit_reached"),
   Answer(429, "error", "other"),
   Answer(500, "error", "other"), Answer(500, "garbage", "none"),
   Answer(502, "malformed", "none"),
   Answer(503, "error", "other"), Answer(302, "empty", "none"), Answer(400, "error", "other"),
   Answer(200, "error", "other"), Answer(200, "garbage", "none"), Answer(204, "json", "none")}

\* What the server or a gateway decided, and the answers that may say so.
Verdicts == {"accepted", "gateway", "busy", "limit", "refused"}
AnswersOf(v) ==
  CASE v = "accepted" -> Accepted
    [] v = "gateway" -> Gateway
    [] v = "busy" -> Temporary
    [] v = "limit" -> {Answer(409, "error", "limit_reached")}
    [] v = "refused" -> Refusals

-----------------------------------------------------------------------------
(* attempt: what an answer means *)

Success(a) == a.status \in 200..299
ServerError(a) == a.status \in 500..599
HasErrorMember(a) == a.body \in {"error", "malformed"}

\* Mutant: every failure of the server is an outage.
ServerErrorsAreOutages(a) == ServerError(a)

\* A failure that says nothing about the request: a gateway's, or one Orbit
\* itself calls temporary.
Outage(a) ==
  \/ a.status \in 502..504 /\ ~HasErrorMember(a)
  \/ a.status = 429 /\ a.body = "error" /\ a.code = "rate_limited"
  \/ a.status = 503 /\ a.body = "error" /\ a.code = "service_unavailable"

\* Statuses whose error envelope is read.
Denial(a) == a.body = "error" /\ (a.status \in {401, 403, 404, 409, 422, 429} \/ ServerError(a))

SuccessClass(a) ==
  IF \/ Service /\ a.status # 200
     \/ a.status = 204 /\ a.body # "empty"
     \/ a.status # 204 /\ a.body \notin {"json", "error"}
     \/ Service /\ HasErrorMember(a)
  THEN "invalid" ELSE "ok"

DenialClass(a) ==
  IF Service /\ a.code = "limit_reached"
  THEN IF a.status = 409 THEN "ok" ELSE "invalid"   \* the caller reads the envelope
  ELSE IF a.status = 403 /\ a.code = "app_version_unsupported" THEN "version" ELSE "denied"

Class(a) ==
  IF Success(a) THEN SuccessClass(a)
  ELSE IF Outage(a) THEN "transient"
  ELSE IF Denial(a) THEN DenialClass(a)
  ELSE "invalid"

\* For the history: Orbit accepted the request, or refused it for a reason
\* that is not its own unavailability.
Decision(a) ==
  \/ a \in Accepted
  \/ a.body = "error" /\ a.code \notin {"rate_limited", "service_unavailable"}

-----------------------------------------------------------------------------
(* Operations *)

TransportInit ==
  /\ call = [c \in Callers |-> Idle]
  /\ wire = {}
  /\ reply = [c \in Callers |-> "none"]
  /\ cancelled = {}
  /\ closed = FALSE
  /\ handled = [c \in Callers |-> 0]
  /\ decided = {}

\* Cancellation::is_cancelled of the caller's token or of the owner's; a
\* cleanup has neither.
Stopped(c) == call[c].kind # "cleanup" /\ (c \in cancelled \/ closed)

Busy(c) == call[c].pc \in {"sent", "sleep"}

\* attempt begins: the request leaves, and the attempt's timer starts.
Sends(c, k) ==
  /\ call' = [call EXCEPT ![c] = k]
  /\ wire' = wire \cup {<<c, k.n>>}
  /\ reply' = [reply EXCEPT ![c] = "none"]

Timeout(kind) == IF kind = "cleanup" THEN CleanupTimeout ELSE AttemptTimeout

\* request, or post_cleanup: the path, the body and the bearer are good.
Request(c, kind) ==
  /\ call[c].pc = "idle"
  /\ kind = "cleanup" \/ ~(c \in cancelled \/ closed)
  /\ Sends(c, [Idle EXCEPT !.pc = "sent", !.kind = kind, !.timer = Timeout(kind)])
  /\ UNCHANGED <<cancelled, closed, handled, decided>>

Finish(c, result) == call' = [call EXCEPT ![c].pc = "done", ![c].result = result]

\* A bad path, body or bearer, or a cancellation that came first: nothing is sent.
RequestRefused(c) ==
  /\ call[c].pc = "idle"
  /\ Finish(c, IF c \in cancelled \/ closed THEN "cancelled" ELSE "configuration")
  /\ UNCHANGED <<wire, reply, cancelled, closed, handled, decided>>

\* Mutant: every request may be repeated.
RepeatableAnyway(k, class) == k.n < LastAttempt /\ class = "transient" /\ k.kind # "cleanup"

\* Mutant: attempts are not counted.
RepeatableForever(k, class) == k.kind = "safe" /\ class = "transient"

\* retry: only a retry_safe request, after an outage, and twice at most.
Repeatable(k, class) == k.kind = "safe" /\ k.n < LastAttempt /\ class = "transient"

\* Mutant: a delay that ends with the operation's time is begun.
FitsLoosely(delay, left) == delay =< left

\* delay >= remaining gives up.
Fits(delay, left) == delay < left

\* What follows a failed or successful attempt: the answer is returned, or the
\* operation sleeps and tries again.
Settle(c, class) ==
  \E delay \in Delays :
    IF Repeatable(call[c], class) /\ Fits(delay, call[c].left)
    THEN call' = [call EXCEPT ![c].pc = "sleep", ![c].timer = delay]
    ELSE Finish(c, class)

\* The attempt is answered.
Answered(c) ==
  /\ call[c].pc = "sent" /\ ~Stopped(c)
  /\ reply[c] # "none"
  /\ \E a \in AnswersOf(reply[c]) :
       /\ Settle(c, Class(a))
       /\ decided' = IF Decision(a) THEN decided \cup {c} ELSE decided
  /\ UNCHANGED <<wire, reply, cancelled, closed, handled>>

\* request_error: an outage (a failed name lookup, a refused connection, a
\* timeout) or a failure of TLS.
Failures == {"transient", "security"}

\* AttemptFailure::transport: the attempt's time is over, or the connection
\* failed, as an outage or as a failure of TLS.
AttemptFails(c, class) ==
  /\ call[c].pc = "sent" /\ ~Stopped(c)
  /\ Settle(c, class)
  /\ UNCHANGED <<wire, reply, cancelled, closed, handled, decided>>

\* Mutant: a sleep that was cancelled goes on.
RetryAnyway(c) ==
  /\ call[c].pc = "sleep" /\ call[c].timer = 0
  /\ Sends(c, [call[c] EXCEPT !.pc = "sent", !.n = @ + 1, !.timer = AttemptTimeout])
  /\ UNCHANGED <<cancelled, closed, handled, decided>>

\* The sleep ends and the next attempt begins.
Retry(c) ==
  /\ call[c].pc = "sleep" /\ call[c].timer = 0 /\ ~Stopped(c)
  /\ Sends(c, [call[c] EXCEPT !.pc = "sent", !.n = @ + 1, !.timer = AttemptTimeout])
  /\ UNCHANGED <<cancelled, closed, handled, decided>>

\* Mutant: nothing ends an operation but an answer.
NeverOver(c) == FALSE

\* OPERATION_TIMEOUT around retry, and the timeout of post_cleanup.
TimeIsOver(c) ==
  \/ Busy(c) /\ call[c].left = 0
  \/ call[c].pc = "sent" /\ call[c].timer = 0

Expires(c) ==
  /\ TimeIsOver(c) /\ ~Stopped(c)
  /\ IF call[c].left = 0 \/ call[c].kind = "cleanup"
     THEN Finish(c, "transient")
     ELSE Settle(c, "transient")
  /\ UNCHANGED <<wire, reply, cancelled, closed, handled, decided>>

\* The select of request: dropping the future ends attempts and sleeps alike.
Interrupted(c) ==
  /\ Stopped(c) /\ Busy(c)
  /\ Finish(c, "cancelled")
  /\ UNCHANGED <<wire, reply, cancelled, closed, handled, decided>>

-----------------------------------------------------------------------------
(* The world *)

Cancel(c) ==
  /\ c \notin cancelled
  /\ cancelled' = cancelled \cup {c}
  /\ UNCHANGED <<call, wire, reply, closed, handled, decided>>

Close ==
  /\ ~closed
  /\ closed' = TRUE
  /\ UNCHANGED <<call, wire, reply, cancelled, handled, decided>>

\* The server takes a request off the wire; carried out or not, it answers,
\* and the answer counts if the attempt still waits for it.
Handle(m, carriedOut, v) ==
  /\ m \in wire
  /\ wire' = wire \ {m}
  /\ reply' = IF call[m[1]].pc = "sent" /\ call[m[1]].n = m[2]
              THEN [reply EXCEPT ![m[1]] = v] ELSE reply
  /\ handled' = [handled EXCEPT ![m[1]] = IF carriedOut THEN @ + 1 ELSE @]
  /\ UNCHANGED <<call, cancelled, closed, decided>>

\* A request is lost on its way.
Lose(m) ==
  /\ m \in wire
  /\ wire' = wire \ {m}
  /\ UNCHANGED <<call, reply, cancelled, closed, handled, decided>>

Due(c) ==
  \/ TimeIsOver(c)
  \/ call[c].pc = "sleep" /\ call[c].timer = 0
  \/ Busy(c) /\ Stopped(c)

\* Time passes for every operation in flight, and not past a timer that is due.
Tick ==
  /\ \E c \in Callers : Busy(c)
  /\ \A c \in Callers : ~Due(c)
  /\ call' = [c \in Callers |->
       IF ~Busy(c) THEN call[c]
       ELSE [call[c] EXCEPT !.left = IF @ > 0 THEN @ - 1 ELSE 0,
                            !.timer = IF @ > 0 THEN @ - 1 ELSE 0]]
  /\ UNCHANGED <<wire, reply, cancelled, closed, handled, decided>>

\* What the server does with a request nobody else interprets.
ServerAnswers(m) ==
  \/ \E v \in {"accepted", "gateway"} : Handle(m, TRUE, v)
  \/ \E v \in {"refused", "limit", "busy", "gateway"} : Handle(m, FALSE, v)

\* What the runtime runs when a timer or a token is due.
Polled(c) == Retry(c) \/ Expires(c) \/ Interrupted(c)

Steps(c) ==
  \/ Answered(c) \/ Polled(c)
  \/ \E class \in Failures : AttemptFails(c, class)

Next ==
  \/ \E c \in Callers : (\E k \in Kinds : Request(c, k)) \/ RequestRefused(c) \/ Steps(c) \/ Cancel(c)
  \/ \E m \in wire : ServerAnswers(m) \/ Lose(m)
  \/ Close \/ Tick

Spec == TransportInit /\ [][Next]_transportVars

\* Time passes, and the runtime polls a future whose timer or token is due.
\* The server and the network owe nothing.
Fairness == WF_transportVars(Tick) /\ \A c \in Callers : WF_transportVars(Polled(c))

LiveSpec == Spec /\ Fairness

-----------------------------------------------------------------------------
(* Properties *)

TypeOK ==
  /\ call \in [Callers -> Calls]
  /\ wire \subseteq Callers \X (0..LastAttempt)
  /\ reply \in [Callers -> Verdicts \cup {"none"}]
  /\ cancelled \subseteq Callers
  /\ closed \in BOOLEAN
  /\ handled \in [Callers -> 0..(LastAttempt + 1)]
  /\ decided \subseteq Callers

\* A request that is not retry_safe is carried out at most once, however its
\* answers and timeouts are ordered.
AtMostOnce == \A c \in Callers : call[c].kind # "safe" => handled[c] =< 1

\* Once Orbit has decided a request, with a success or a refusal, it is not
\* sent again: only outages are retried.
VerdictIsFinal == \A c \in Callers : Busy(c) => c \notin decided

\* retry never sleeps into the operation's timeout: the caller gets the last
\* failure, with its code, instead of a bare timeout.
SleepEndsInTime ==
  \A c \in Callers : call[c].pc = "sleep" => call[c].timer < call[c].left

\* Attempts (transport.rs, request and retry): what may not be repeated is
\* carried out once at most, a decision of the service ends the operation, and
\* a delay never outlasts the operation's own time.
SentSafely == AtMostOnce /\ VerdictIsFinal /\ SleepEndsInTime

\* After a cancellation or close nothing more is sent, not even by an
\* operation that sleeps between attempts.
CancelStopsSending ==
  [][\A c \in Callers : Stopped(c) /\ call[c].pc # "idle" => call'[c].n = call[c].n]_transportVars

\* Every operation returns, whatever the server does, within its own time.
EveryCallReturns == \A c \in Callers : Busy(c) ~> call[c].pc = "done"
=============================================================================
