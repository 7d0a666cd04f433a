---------------------------- MODULE MeteringProofs ----------------------------
(***************************************************************************)
(* TLAPS proofs about the transport (module Transport) and about metering  *)
(* over it (module Metering), for every set of callers, jobs and delays,   *)
(* every number of attempts and all timeouts.                              *)
(***************************************************************************)
EXTENDS Metering, FiniteSetTheorems, TLAPS

(***************************************************************************)
(* The inductive invariant of the transport                                *)
(***************************************************************************)

\* The attempts of an operation that are still on the wire.
InFlight(c) == {k \in 0..LastAttempt : <<c, k>> \in wire}

\* An attempt is on the wire or was carried out, not both, and each was sent
\* once: what the server carried out and what it may still carry out is no
\* more than what was sent, and what is on the wire was sent.
SentInv(c) ==
  /\ \A k \in InFlight(c) : k =< call[c].n
  /\ handled[c] + Cardinality(InFlight(c)) =< IF call[c].pc = "idle" THEN 0 ELSE call[c].n + 1

\* Only a retry_safe operation has a second attempt.  One that sleeps may send
\* once more and has time for it, and nothing was decided yet for one that may
\* still send.
RetryInv(c) ==
  /\ call[c].kind # "safe" => call[c].n = 0
  /\ call[c].pc = "sleep" =>
       call[c].kind = "safe" /\ call[c].n < LastAttempt /\ call[c].timer < call[c].left
  /\ call[c].pc # "done" => c \notin decided

\* handled is not bounded by its type here: SentInv bounds it.
TransportTypeOK ==
  /\ call \in [Callers -> Calls]
  /\ wire \subseteq Callers \X (0..LastAttempt)
  /\ reply \in [Callers -> Verdicts \cup {"none"}]
  /\ cancelled \subseteq Callers
  /\ closed \in BOOLEAN
  /\ handled \in [Callers -> Nat]
  /\ decided \subseteq Callers

TransportInv ==
  /\ TransportTypeOK
  /\ \A c \in Callers : SentInv(c) /\ RetryInv(c)

(***************************************************************************)
(* Lemmas about answers                                                    *)
(***************************************************************************)

\* An answer that decides the request is not taken for an outage: the request
\* is not repeated after it (attempt, transport.rs).
LEMMA DecisionIsNoOutage ==
  ASSUME NEW v \in Verdicts, NEW a \in AnswersOf(v), Decision(a)
  PROVE  Class(a) # "transient"
<1>1. CASE v = "accepted"
  BY <1>1 DEF AnswersOf, Accepted, Answer, Class, Success, SuccessClass
<1>2. CASE v = "gateway"
  BY <1>2 DEF AnswersOf, Accepted, Gateway, Answer, Decision
<1>3. CASE v = "busy"
  BY <1>3 DEF AnswersOf, Accepted, Temporary, Answer, Decision
<1>4. CASE v = "limit"
  BY <1>4 DEF AnswersOf, Answer, Class, Success, SuccessClass, Outage, Denial, DenialClass
<1>5. CASE v = "refused"
  <2>1. a \in Refusals
    BY <1>5 DEF AnswersOf
  <2>2. ~Outage(a) \/ ~Decision(a)
    BY <2>1 DEF Refusals, Answer, Outage, Decision, Accepted, HasErrorMember
  <2> QED BY <2>2 DEF Class, SuccessClass, DenialClass
<1> QED BY <1>1, <1>2, <1>3, <1>4, <1>5 DEF Verdicts

\* Every answer has a class.
LEMMA ClassType == \A a : Class(a) \in Classes
BY DEF Class, Classes, SuccessClass, DenialClass

\* On a service route a caller is told ok after an acceptance or a capacity
\* denial only, and is denied after a refusal only.
LEMMA ServiceClasses ==
  ASSUME NEW v \in Verdicts, NEW a \in AnswersOf(v)
  PROVE  /\ Class(a) = "ok" => v \in {"accepted", "limit"}
         /\ Class(a) = "denied" => v = "refused"
<1> USE RouteAssumption
<1>1. CASE v = "accepted"
  BY <1>1 DEF AnswersOf, Accepted, Answer, Class, Success, SuccessClass
<1>2. CASE v = "gateway"
  BY <1>2 DEF AnswersOf, Gateway, Answer, Class, Success, Outage, HasErrorMember
<1>3. CASE v = "busy"
  BY <1>3 DEF AnswersOf, Temporary, Answer, Class, Success, Outage
<1>4. CASE v = "limit"
  BY <1>4 DEF AnswersOf, Answer, Class, Success, Outage, Denial, DenialClass
<1>5. CASE v = "refused"
  <2>1. a \in Refusals
    BY <1>5 DEF AnswersOf
  <2>2. Success(a) => SuccessClass(a) = "invalid"
    BY <2>1 DEF Refusals, Answer, Success, SuccessClass, HasErrorMember
  <2>3. DenialClass(a) = "ok" => a.code = "limit_reached" /\ a.status = 409
    BY DEF DenialClass
  <2>4. ~(a.code = "limit_reached" /\ a.status = 409)
    BY <2>1 DEF Refusals, Answer
  <2> QED BY <1>5, <2>2, <2>3, <2>4 DEF Class
<1> QED BY <1>1, <1>2, <1>3, <1>4, <1>5 DEF Verdicts

(***************************************************************************)
(* Steps of the transport                                                  *)
(***************************************************************************)

\* Facts every step starts from.
LEMMA TransportFacts ==
  ASSUME TransportInv
  PROVE  /\ TransportTypeOK
         /\ LastAttempt \in Nat /\ OpTimeout \in Nat /\ Idle \in Calls
         /\ \A c \in Callers :
              /\ SentInv(c) /\ RetryInv(c)
              /\ call[c] \in Calls /\ call[c].n \in 0..LastAttempt /\ call[c].left \in 0..OpTimeout
              /\ call[c].timer \in Nat /\ call[c].n \in Nat /\ call[c].left \in Nat
              /\ handled[c] \in Nat
              /\ IsFiniteSet(InFlight(c)) /\ Cardinality(InFlight(c)) \in Nat
<1> USE TimeoutsAssumption
<1>1. LastAttempt \in Nat /\ OpTimeout \in Nat
  OBVIOUS
<1>2. Idle \in Calls
  BY DEF Idle, Calls, Kinds, Results
<1>3. ASSUME NEW c \in Callers
      PROVE  /\ SentInv(c) /\ RetryInv(c)
             /\ call[c] \in Calls /\ call[c].n \in 0..LastAttempt /\ call[c].left \in 0..OpTimeout
             /\ call[c].timer \in Nat /\ handled[c] \in Nat
  BY DEF TransportInv, TransportTypeOK, Calls
<1>4. ASSUME NEW c \in Callers
      PROVE  IsFiniteSet(InFlight(c)) /\ Cardinality(InFlight(c)) \in Nat
  <2>1. IsFiniteSet(0..LastAttempt)
    BY FS_Interval
  <2>2. InFlight(c) \in SUBSET (0..LastAttempt)
    BY DEF InFlight
  <2>3. IsFiniteSet(InFlight(c))
    BY <2>1, <2>2, FS_Subset
  <2> QED BY <2>3, FS_CardinalityType
<1> QED BY <1>1, <1>2, <1>3, <1>4 DEF TransportInv

\* An operation that a step leaves alone.
LEMMA OtherOperation ==
  ASSUME NEW c \in Callers, SentInv(c), RetryInv(c), call'[c] = call[c],
         handled'[c] = handled[c], InFlight(c)' = InFlight(c), c \in decided' => c \in decided
  PROVE  SentInv(c)' /\ RetryInv(c)'
BY DEF SentInv, RetryInv

\* The next attempt of an operation is sent.
LEMMA SendKeeps ==
  ASSUME TransportInv, NEW c \in Callers, NEW k \in Calls, Sends(c, k),
         UNCHANGED <<cancelled, closed, handled, decided>>,
         k.pc = "sent", k.kind # "safe" => k.n = 0, c \notin decided,
         \/ call[c].pc = "idle" /\ k.n = 0
         \/ call[c].pc # "idle" /\ k.n = call[c].n + 1
  PROVE  TransportInv'
<1> USE TransportFacts
<1>1. k.n \in 0..LastAttempt
  BY DEF Calls
<1>2. TransportTypeOK'
  BY <1>1 DEF TransportTypeOK, Sends
<1>3. call'[c] = k /\ \A d \in Callers : d # c => call'[d] = call[d]
  BY DEF Sends, TransportTypeOK
<1>4. InFlight(c)' = InFlight(c) \cup {k.n} /\ k.n \notin InFlight(c)
  <2>1. InFlight(c)' = InFlight(c) \cup {k.n}
    BY <1>1 DEF InFlight, Sends
  <2>2. CASE call[c].pc = "idle"
    <3>1. Cardinality(InFlight(c)) = 0
      BY <2>2 DEF SentInv
    <3>2. InFlight(c) = {}
      BY <3>1, FS_EmptySet
    <3> QED BY <2>1, <3>2
  <2>3. CASE call[c].pc # "idle"
    BY <2>1, <2>3 DEF SentInv
  <2> QED BY <2>2, <2>3
<1>5. Cardinality(InFlight(c))' = Cardinality(InFlight(c)) + 1
  BY <1>4, FS_AddElement
<1>6. SentInv(c)'
  <2>1. \A j \in InFlight(c)' : j =< k.n
    <3>1. CASE call[c].pc = "idle"
      <4>1. Cardinality(InFlight(c)) = 0
        BY <3>1 DEF SentInv
      <4> QED BY <4>1, <1>1, <1>4, FS_EmptySet
    <3>2. CASE call[c].pc # "idle"
      <4>1. \A j \in InFlight(c) : j \in Nat /\ j =< call[c].n
        <5>1. InFlight(c) \subseteq Nat
          BY TimeoutsAssumption DEF InFlight
        <5>2. SentInv(c)
          OBVIOUS
        <5> QED BY <5>1, <5>2 DEF SentInv
      <4>2. k.n = call[c].n + 1 /\ call[c].n \in Nat
        BY <3>2
      <4> QED BY <4>1, <4>2, <1>4
    <3> QED BY <3>1, <3>2
  <2>2. handled'[c] = handled[c]
    OBVIOUS
  <2>3. handled[c] + Cardinality(InFlight(c)) + 1 =< k.n + 1
    BY DEF SentInv
  <2> QED BY <2>1, <2>2, <2>3, <1>3, <1>5 DEF SentInv
<1>7. RetryInv(c)'
  BY <1>3 DEF RetryInv
<1>8. ASSUME NEW d \in Callers, d # c PROVE SentInv(d)' /\ RetryInv(d)'
  <2>1. InFlight(d)' = InFlight(d)
    BY <1>8 DEF InFlight, Sends
  <2> QED BY <1>3, <1>8, <2>1, OtherOperation
<1> QED BY <1>2, <1>6, <1>7, <1>8 DEF TransportInv

\* An operation goes to sleep or returns, with what Orbit decided of it.
LEMMA StepKeeps ==
  ASSUME TransportInv, NEW c \in Callers, NEW k \in Calls,
         call' = [call EXCEPT ![c] = k],
         UNCHANGED <<wire, reply, cancelled, closed, handled>>,
         decided' \in {decided, decided \cup {c}},
         k.pc # "idle", k.kind = call[c].kind, k.n = call[c].n,
         k.pc # "done" => /\ k.pc = "sleep" /\ k.kind = "safe" /\ k.n < LastAttempt
                          /\ k.timer < k.left /\ c \notin decided'
  PROVE  TransportInv'
<1> USE TransportFacts
<1>1. TransportTypeOK'
  BY DEF TransportTypeOK
<1>2. call'[c] = k /\ \A d \in Callers : d # c => call'[d] = call[d]
  BY DEF TransportTypeOK
<1>3. \A d \in Callers : InFlight(d)' = InFlight(d)
  BY DEF InFlight
<1>4. SentInv(c)'
  BY <1>2, <1>3 DEF SentInv
<1>5. RetryInv(c)'
  BY <1>2 DEF RetryInv
<1>6. ASSUME NEW d \in Callers, d # c PROVE SentInv(d)' /\ RetryInv(d)'
  BY <1>2, <1>3, <1>6, OtherOperation
<1> QED BY <1>1, <1>4, <1>5, <1>6 DEF TransportInv

\* The operation returns.
LEMMA FinishKeeps ==
  ASSUME TransportInv, NEW c \in Callers, NEW r \in Results, Finish(c, r),
         UNCHANGED <<wire, reply, cancelled, closed, handled>>,
         decided' \in {decided, decided \cup {c}}
  PROVE  TransportInv'
<1> DEFINE k == [call[c] EXCEPT !.pc = "done", !.result = r]
<1>1. call[c] \in Calls /\ call \in [Callers -> Calls]
  BY TransportFacts DEF TransportTypeOK
<1>2. k \in Calls /\ k.pc = "done" /\ k.kind = call[c].kind /\ k.n = call[c].n
  BY <1>1 DEF Calls
<1>3. call' = [call EXCEPT ![c] = k]
  BY <1>1 DEF Finish
<1> HIDE DEF k
<1> QED BY <1>2, <1>3, StepKeeps

\* What follows an attempt: the operation sleeps only if it may be repeated in
\* its time, and Orbit decided nothing.
LEMMA SettleKeeps ==
  ASSUME TransportInv, NEW c \in Callers, NEW class \in Classes, call[c].pc # "done", Settle(c, class),
         UNCHANGED <<wire, reply, cancelled, closed, handled>>,
         decided' \in {decided, decided \cup {c}},
         class = "transient" => decided' = decided
  PROVE  TransportInv'
<1>1. PICK delay \in Delays :
        IF Repeatable(call[c], class) /\ Fits(delay, call[c].left)
        THEN call' = [call EXCEPT ![c].pc = "sleep", ![c].timer = delay]
        ELSE Finish(c, class)
  BY DEF Settle
<1>2. CASE Repeatable(call[c], class) /\ Fits(delay, call[c].left)
  <2> DEFINE k == [call[c] EXCEPT !.pc = "sleep", !.timer = delay]
  <2>1. call[c] \in Calls /\ call \in [Callers -> Calls] /\ delay \in Nat
    BY TransportFacts, TimeoutsAssumption DEF TransportTypeOK
  <2>2. /\ k \in Calls /\ k.pc = "sleep" /\ k.kind = call[c].kind /\ k.n = call[c].n
        /\ k.timer = delay /\ k.left = call[c].left
    BY <2>1 DEF Calls
  <2>3. call' = [call EXCEPT ![c] = k]
    BY <1>1, <1>2, <2>1
  <2>4. c \notin decided'
    BY <1>2, TransportFacts DEF RetryInv, Repeatable
  <2>5. k.kind = "safe" /\ k.n < LastAttempt /\ k.timer < k.left
    BY <1>2, <2>2 DEF Repeatable, Fits
  <2> HIDE DEF k
  <2> QED BY <2>2, <2>3, <2>4, <2>5, StepKeeps
<1>3. CASE ~(Repeatable(call[c], class) /\ Fits(delay, call[c].left))
  BY <1>1, <1>3, FinishKeeps DEF Results
<1> QED BY <1>2, <1>3

\* request, post_cleanup and the retry after a sleep.
LEMMA RequestKeeps ==
  ASSUME TransportInv, NEW c \in Callers, NEW kind \in Kinds, Request(c, kind)
  PROVE  TransportInv'
<1> DEFINE k == [Idle EXCEPT !.pc = "sent", !.kind = kind, !.timer = Timeout(kind)]
<1>1. k \in Calls /\ k.pc = "sent" /\ k.n = 0
  BY TransportFacts, TimeoutsAssumption DEF Idle, Calls, Timeout, Results
<1>2. c \notin decided
  BY TransportFacts DEF Request, RetryInv
<1>3. Sends(c, k)
  BY DEF Request
<1> HIDE DEF k
<1> QED BY <1>1, <1>2, <1>3, SendKeeps DEF Request

\* The sleep ends and the next attempt begins.
LEMMA RetryKeeps ==
  ASSUME TransportInv, NEW c \in Callers, Retry(c)
  PROVE  TransportInv'
<1> DEFINE k == [call[c] EXCEPT !.pc = "sent", !.n = @ + 1, !.timer = AttemptTimeout]
<1>1. call[c].kind = "safe" /\ call[c].n < LastAttempt /\ c \notin decided
  BY TransportFacts DEF Retry, RetryInv
<1>2. k \in Calls /\ k.pc = "sent" /\ k.n = call[c].n + 1 /\ k.kind = "safe"
  <2>1. call[c] \in Calls /\ call[c].n + 1 \in 0..LastAttempt /\ AttemptTimeout \in Nat
    BY <1>1, TransportFacts, TimeoutsAssumption
  <2> QED BY <1>1, <2>1 DEF Calls
<1>3. Sends(c, k)
  BY DEF Retry
<1> HIDE DEF k
<1> QED BY <1>1, <1>2, <1>3, SendKeeps DEF Retry

\* A request that is refused before it is sent.
LEMMA RequestRefusedKeeps ==
  ASSUME TransportInv, NEW c \in Callers, RequestRefused(c)
  PROVE  TransportInv'
<1>1. PICK r \in {"cancelled", "configuration"} : Finish(c, r)
  BY DEF RequestRefused
<1> QED BY <1>1, FinishKeeps DEF RequestRefused, Results

\* Everything an operation in flight does by itself.
LEMMA StepsKeep ==
  ASSUME TransportInv, NEW c \in Callers, Steps(c)
  PROVE  TransportInv'
<1>1. CASE Answered(c)
  <2>1. PICK a \in AnswersOf(reply[c]) :
          /\ Settle(c, Class(a))
          /\ decided' = IF Decision(a) THEN decided \cup {c} ELSE decided
    BY <1>1 DEF Answered
  <2>2. Class(a) \in Classes
    BY ClassType
  <2>3. reply[c] \in Verdicts
    BY <1>1, TransportFacts DEF Answered, TransportTypeOK
  <2>4. Class(a) = "transient" => decided' = decided
    BY <2>1, <2>3, DecisionIsNoOutage
  <2>5. decided' \in {decided, decided \cup {c}}
    BY <2>1
  <2>6. call[c].pc # "done" /\ UNCHANGED <<wire, reply, cancelled, closed, handled>>
    BY <1>1 DEF Answered
  <2> QED BY <2>1, <2>2, <2>4, <2>5, <2>6, SettleKeeps
<1>2. CASE Retry(c)
  BY <1>2, RetryKeeps
<1>3. CASE Expires(c)
  <2>1. call[c].pc # "done"
    BY <1>3 DEF Expires, TimeIsOver, Busy
  <2>2. Finish(c, "transient") \/ Settle(c, "transient")
    BY <1>3 DEF Expires
  <2>3. UNCHANGED <<wire, reply, cancelled, closed, handled, decided>>
    BY <1>3 DEF Expires
  <2> QED BY <2>1, <2>2, <2>3, FinishKeeps, SettleKeeps DEF Results, Classes
<1>4. CASE Interrupted(c)
  BY <1>4, FinishKeeps DEF Interrupted, Results
<1>5. ASSUME NEW class \in Failures, AttemptFails(c, class) PROVE TransportInv'
  BY <1>5, SettleKeeps DEF AttemptFails, Failures, Classes
<1> QED BY <1>1, <1>2, <1>3, <1>4, <1>5 DEF Steps, Polled

\* A request leaves the wire, carried out at most once.
LEMMA TakenOffKeeps ==
  ASSUME TransportInv, NEW m \in wire, wire' = wire \ {m},
         reply' \in [Callers -> Verdicts \cup {"none"}],
         handled' \in {handled, [handled EXCEPT ![m[1]] = @ + 1]},
         UNCHANGED <<call, cancelled, closed, decided>>
  PROVE  TransportInv'
<1> USE TransportFacts
<1>1. m[1] \in Callers /\ m[2] \in 0..LastAttempt /\ m = <<m[1], m[2]>>
  BY DEF TransportTypeOK
<1> DEFINE c == m[1]
<1>2. TransportTypeOK'
  BY DEF TransportTypeOK
<1>3. InFlight(c)' = InFlight(c) \ {m[2]} /\ m[2] \in InFlight(c)
  BY <1>1 DEF InFlight
<1>4. Cardinality(InFlight(c))' = Cardinality(InFlight(c)) - 1
  <2>1. IsFiniteSet(InFlight(c))
    BY <1>1
  <2>2. Cardinality(InFlight(c) \ {m[2]}) = Cardinality(InFlight(c)) - 1
    <3>1. ASSUME NEW S, NEW x \in S, IsFiniteSet(S)
          PROVE  Cardinality(S \ {x}) = Cardinality(S) - 1
      BY <3>1, FS_RemoveElement
    <3> QED BY <1>3, <2>1, <3>1, Zenon
  <2> QED BY <1>3, <2>2
<1>5. handled'[c] \in Nat /\ handled'[c] =< handled[c] + 1
  BY <1>1 DEF TransportTypeOK
<1>6. SentInv(c)'
  <2>1. \A j \in InFlight(c)' : j =< call[c].n
    BY <1>1, <1>3 DEF SentInv
  <2> QED BY <1>1, <1>4, <1>5, <2>1 DEF SentInv
<1>7. RetryInv(c)'
  BY <1>1 DEF RetryInv
<1>8. ASSUME NEW d \in Callers, d # c PROVE SentInv(d)' /\ RetryInv(d)'
  <2>1. InFlight(d)' = InFlight(d)
    BY <1>1, <1>8 DEF InFlight
  <2>2. handled'[d] = handled[d]
    BY <1>8 DEF TransportTypeOK
  <2> QED BY <2>1, <2>2, OtherOperation
<1> QED BY <1>2, <1>6, <1>7, <1>8 DEF TransportInv

\* The server handles a request, or it is lost on its way.
LEMMA HandleKeeps ==
  ASSUME TransportInv, NEW m \in wire, NEW carriedOut \in BOOLEAN, NEW v \in Verdicts,
         Handle(m, carriedOut, v)
  PROVE  TransportInv'
<1>1. m[1] \in Callers
  BY TransportFacts DEF TransportTypeOK
<1>2. reply' \in [Callers -> Verdicts \cup {"none"}]
  BY <1>1, TransportFacts DEF Handle, TransportTypeOK
<1>3. handled' \in {handled, [handled EXCEPT ![m[1]] = @ + 1]}
  BY <1>1, TransportFacts DEF Handle, TransportTypeOK
<1> QED BY <1>2, <1>3, TakenOffKeeps DEF Handle

\* A request that is lost was not carried out.
LEMMA LoseKeeps ==
  ASSUME TransportInv, NEW m \in wire, Lose(m)
  PROVE  TransportInv'
<1>1. reply' \in [Callers -> Verdicts \cup {"none"}]
  BY TransportFacts DEF Lose, TransportTypeOK
<1> QED BY <1>1, TakenOffKeeps DEF Lose

\* Cancellations and close change no operation.
LEMMA StopKeeps ==
  ASSUME TransportInv, UNCHANGED <<call, wire, reply, handled, decided>>,
         cancelled' \subseteq Callers, closed' \in BOOLEAN
  PROVE  TransportInv'
<1>1. TransportTypeOK'
  BY TransportFacts DEF TransportTypeOK
<1>2. \A c \in Callers : InFlight(c)' = InFlight(c)
  BY DEF InFlight
<1>3. ASSUME NEW c \in Callers PROVE SentInv(c)' /\ RetryInv(c)'
  BY <1>2, TransportFacts, OtherOperation
<1> QED BY <1>1, <1>3 DEF TransportInv

\* Time does not pass a timer that is due, so that a sleep that fits into the
\* operation's time goes on fitting.
LEMMA TickKeeps ==
  ASSUME TransportInv, Tick
  PROVE  TransportInv'
<1> USE TransportFacts
<1>1. ASSUME NEW c \in Callers
      PROVE  /\ call'[c] \in Calls
             /\ call'[c].pc = call[c].pc /\ call'[c].kind = call[c].kind /\ call'[c].n = call[c].n
             /\ call[c].pc = "sleep" => call'[c].timer < call'[c].left
  <2>1. CASE ~Busy(c)
    BY <2>1 DEF Tick, Busy
  <2>2. CASE Busy(c)
    <3> DEFINE k == [call[c] EXCEPT !.left = IF @ > 0 THEN @ - 1 ELSE 0,
                                    !.timer = IF @ > 0 THEN @ - 1 ELSE 0]
    <3>1. call'[c] = k
      BY <2>2 DEF Tick
    <3>2. /\ call[c] \in Calls /\ call[c].left \in 0..OpTimeout /\ call[c].timer \in Nat
          /\ OpTimeout \in Nat
      OBVIOUS
    <3>3. /\ k.pc = call[c].pc /\ k.kind = call[c].kind /\ k.n = call[c].n
          /\ k.left = IF call[c].left > 0 THEN call[c].left - 1 ELSE 0
          /\ k.timer = IF call[c].timer > 0 THEN call[c].timer - 1 ELSE 0
      BY <3>2 DEF Calls
    <3>4. /\ (IF call[c].left > 0 THEN call[c].left - 1 ELSE 0) \in 0..OpTimeout
          /\ (IF call[c].timer > 0 THEN call[c].timer - 1 ELSE 0) \in Nat
      BY <3>2
    <3>5. k \in Calls
      BY <3>2, <3>4 DEF Calls
    <3>6. call[c].pc = "sleep" => call[c].timer > 0 /\ call[c].timer < call[c].left
      <4>1. ~Due(c) /\ RetryInv(c)
        BY DEF Tick
      <4> QED BY <3>2, <4>1 DEF Due, RetryInv
    <3> HIDE DEF k
    <3> QED BY <3>1, <3>2, <3>3, <3>5, <3>6
  <2> QED BY <2>1, <2>2
<1>2. DOMAIN call' = Callers /\ call' = [c \in Callers |-> call'[c]]
  BY DEF Tick
<1>3. TransportTypeOK'
  BY <1>1, <1>2 DEF TransportTypeOK, Tick
<1>4. ASSUME NEW c \in Callers PROVE SentInv(c)' /\ RetryInv(c)'
  <2>1. InFlight(c)' = InFlight(c)
    BY DEF InFlight, Tick
  <2>2. handled'[c] = handled[c] /\ decided' = decided
    BY DEF Tick
  <2>3. SentInv(c)'
    BY <1>1, <2>1, <2>2 DEF SentInv
  <2>4. RetryInv(c)'
    BY <1>1, <2>2 DEF RetryInv
  <2> QED BY <2>3, <2>4
<1> QED BY <1>3, <1>4 DEF TransportInv

\* An operation that has not begun has sent nothing.
LEMMA TransportStart == TransportInit => TransportInv
<1> SUFFICES ASSUME TransportInit PROVE TransportInv
  OBVIOUS
<1> USE TimeoutsAssumption DEF TransportInit
<1>1. Idle \in Calls
  BY DEF Idle, Calls, Kinds, Results
<1>2. TransportTypeOK
  BY <1>1 DEF TransportTypeOK
<1>3. ASSUME NEW c \in Callers PROVE SentInv(c) /\ RetryInv(c)
  <2>1. InFlight(c) = {}
    BY DEF InFlight
  <2>2. Cardinality(InFlight(c)) = 0
    BY <2>1, FS_EmptySet
  <2>3. call[c] = Idle /\ handled[c] = 0
    OBVIOUS
  <2> QED BY <2>1, <2>2, <2>3 DEF SentInv, RetryInv, Idle
<1> QED BY <1>2, <1>3 DEF TransportInv

\* Every step of the transport keeps its invariant.
LEMMA TransportStep == TransportInv /\ [Next]_transportVars => TransportInv'
<1> SUFFICES ASSUME TransportInv, [Next]_transportVars PROVE TransportInv'
  OBVIOUS
<1>1. ASSUME NEW c \in Callers, NEW k \in Kinds, Request(c, k) PROVE TransportInv'
  BY <1>1, RequestKeeps
<1>2. ASSUME NEW c \in Callers, RequestRefused(c) PROVE TransportInv'
  BY <1>2, RequestRefusedKeeps
<1>3. ASSUME NEW c \in Callers, Steps(c) PROVE TransportInv'
  BY <1>3, StepsKeep
<1>4. ASSUME NEW c \in Callers, Cancel(c) PROVE TransportInv'
  BY <1>4, StopKeeps, TransportFacts DEF Cancel, TransportTypeOK
<1>5. ASSUME NEW m \in wire, ServerAnswers(m) PROVE TransportInv'
  BY <1>5, HandleKeeps DEF ServerAnswers, Verdicts
<1>6. ASSUME NEW m \in wire, Lose(m) PROVE TransportInv'
  BY <1>6, LoseKeeps
<1>7. CASE Close
  BY <1>7, StopKeeps, TransportFacts DEF Close, TransportTypeOK
<1>8. CASE Tick
  BY <1>8, TickKeeps
<1>9. CASE UNCHANGED transportVars
  BY <1>9, StopKeeps, TransportFacts DEF transportVars, TransportTypeOK
<1> QED BY <1>1, <1>2, <1>3, <1>4, <1>5, <1>6, <1>7, <1>8, <1>9 DEF Next

\* What the invariant says of one state.
LEMMA TransportConsequences == TransportInv => TypeOK /\ SentSafely
<1> SUFFICES ASSUME TransportInv PROVE TypeOK /\ SentSafely
  OBVIOUS
<1> USE TransportFacts
<1>1. ASSUME NEW c \in Callers PROVE handled[c] =< call[c].n + 1
  <2>1. CASE call[c].pc = "idle"
    BY <2>1 DEF SentInv
  <2>2. CASE call[c].pc # "idle"
    BY <2>2 DEF SentInv
  <2> QED BY <2>1, <2>2
<1>2. TypeOK
  <2>1. \A c \in Callers : handled[c] \in 0..(LastAttempt + 1)
    BY <1>1
  <2>2. handled \in [Callers -> 0..(LastAttempt + 1)]
    BY <2>1 DEF TransportTypeOK
  <2> QED BY <2>2 DEF TypeOK, TransportTypeOK
<1>3. AtMostOnce
  BY <1>1 DEF AtMostOnce, RetryInv
<1>4. VerdictIsFinal /\ SleepEndsInTime
  BY DEF VerdictIsFinal, SleepEndsInTime, RetryInv, Busy
<1> QED BY <1>2, <1>3, <1>4 DEF SentSafely

(***************************************************************************)
(* Theorems about the transport                                            *)
(***************************************************************************)

\* What was sent, repeated and decided (request and retry, transport.rs) stays
\* consistent in every order of answers, timeouts and late requests.
THEOREM TransportInductive == Spec => []TransportInv
<1>1. TransportInit => TransportInv
  BY TransportStart
<1>2. TransportInv /\ [Next]_transportVars => TransportInv'
  BY TransportStep
<1> QED BY <1>1, <1>2, PTL DEF Spec

\* The variables of the transport have their types; the server carries an
\* operation out at most once per attempt.
THEOREM TransportTypes == Spec => []TypeOK
<1>1. TransportInv => TypeOK
  BY TransportConsequences
<1> QED BY <1>1, TransportInductive, PTL

\* What is not retry_safe is carried out at most once, an operation ends with
\* the first decision of the service, and no sleep outlasts the operation
\* (request and retry, transport.rs).
THEOREM RequestsAreSentSafely == Spec => []SentSafely
<1>1. TransportInv => SentSafely
  BY TransportConsequences
<1> QED BY <1>1, TransportInductive, PTL

\* A step of an operation that was stopped is not a new attempt.
LEMMA StoppedSendsNothing ==
  ASSUME TransportInv, [Next]_transportVars, NEW c \in Callers, Stopped(c), call[c].pc # "idle"
  PROVE  call'[c].n = call[c].n
<1>1. call \in [Callers -> Calls]
  BY TransportFacts DEF TransportTypeOK
<1>2. ASSUME NEW d \in Callers, NEW k, call' = [call EXCEPT ![d] = k], d = c => k.n = call[c].n
      PROVE  call'[c].n = call[c].n
  BY <1>1, <1>2
<1>3. ASSUME NEW d \in Callers, NEW r, Finish(d, r) PROVE call'[c].n = call[c].n
  <2>1. call[d] \in Calls
    BY <1>1
  <2>2. [call[d] EXCEPT !.pc = "done", !.result = r].n = call[d].n
    BY <2>1 DEF Calls
  <2>3. call' = [call EXCEPT ![d] = [call[d] EXCEPT !.pc = "done", !.result = r]]
    BY <1>1, <1>3 DEF Finish
  <2> QED BY <1>2, <2>2, <2>3
<1>4. ASSUME NEW d \in Callers, NEW class, Settle(d, class) PROVE call'[c].n = call[c].n
  <2>1. PICK delay \in Delays :
          \/ call' = [call EXCEPT ![d].pc = "sleep", ![d].timer = delay]
          \/ Finish(d, class)
    BY <1>4 DEF Settle
  <2>2. CASE call' = [call EXCEPT ![d].pc = "sleep", ![d].timer = delay]
    <3>1. [call[d] EXCEPT !.pc = "sleep", !.timer = delay].n = call[d].n
      BY <1>1 DEF Calls
    <3>2. call' = [call EXCEPT ![d] = [call[d] EXCEPT !.pc = "sleep", !.timer = delay]]
      BY <1>1, <2>2
    <3> QED BY <1>2, <3>1, <3>2
  <2> QED BY <1>3, <2>1, <2>2
<1>5. ASSUME NEW d \in Callers, NEW k \in Kinds, Request(d, k) PROVE call'[c].n = call[c].n
  BY <1>2, <1>5 DEF Request, Sends
<1>6. ASSUME NEW d \in Callers, RequestRefused(d) PROVE call'[c].n = call[c].n
  BY <1>3, <1>6 DEF RequestRefused
<1>7. ASSUME NEW d \in Callers, Steps(d) PROVE call'[c].n = call[c].n
  <2>1. CASE Retry(d)
    BY <1>2, <2>1 DEF Retry, Sends
  <2>2. CASE Answered(d)
    BY <1>4, <2>2 DEF Answered
  <2>3. CASE Expires(d)
    BY <1>3, <1>4, <2>3 DEF Expires
  <2>4. CASE Interrupted(d)
    BY <1>3, <2>4 DEF Interrupted
  <2>5. ASSUME NEW class \in Failures, AttemptFails(d, class) PROVE call'[c].n = call[c].n
    BY <1>4, <2>5 DEF AttemptFails
  <2> QED BY <1>7, <2>1, <2>2, <2>3, <2>4, <2>5 DEF Steps, Polled
<1>8. CASE Tick
  <2>1. call[c] \in Calls
    BY <1>1
  <2>2. [call[c] EXCEPT !.left = IF @ > 0 THEN @ - 1 ELSE 0,
                        !.timer = IF @ > 0 THEN @ - 1 ELSE 0].n = call[c].n
    BY <2>1 DEF Calls
  <2> QED BY <1>8, <2>2 DEF Tick
<1>9. ASSUME NEW m \in wire, ServerAnswers(m) \/ Lose(m) PROVE call' = call
  BY <1>9 DEF ServerAnswers, Handle, Lose
<1>10. ASSUME NEW d \in Callers, Cancel(d) PROVE call' = call
  BY <1>10 DEF Cancel
<1>11. Close \/ UNCHANGED transportVars => call' = call
  BY DEF Close, transportVars
<1> QED BY <1>5, <1>6, <1>7, <1>8, <1>9, <1>10, <1>11 DEF Next

\* After a cancellation or close nothing more is sent, not even by an operation
\* that sleeps between attempts (the select of request, transport.rs).
THEOREM StoppedCallsSendNothing == Spec => CancelStopsSending
<1>1. TransportInv /\ [Next]_transportVars =>
        [\A c \in Callers : Stopped(c) /\ call[c].pc # "idle" => call'[c].n = call[c].n]_transportVars
  BY StoppedSendsNothing
<1> QED BY <1>1, TransportInductive, PTL DEF Spec, CancelStopsSending

(***************************************************************************)
(* The inductive invariant of metering                                     *)
(***************************************************************************)

\* The operation id of a caller's job.
JobId(c) == <<task[c].op, 0>>

MeterTypeOK ==
  /\ activated \in BOOLEAN /\ revoked \in BOOLEAN /\ gen \in Nat
  /\ task \in [Callers -> [op : Ops \cup {NoOp}, gen : Nat,
                           outcome : {"none", "ok", "limit", "refused", "uncertain"}]]
  /\ ledger \in [Ids -> {"none", "counted", "limit", "denied"}]

\* The id of a job is drawn before its first attempt: no other is counted.
LedgerInv == \A i \in Ids : Counted(i) => i[2] = 0

\* The server repeats what it told a usage job.
IsDebit(c) == task[c].op \in Debits

\* What the server has answered is what its ledger says of the job as long as it
\* remembers it, unless the credential was revoked since; the result of the
\* operation comes from the last answer; an operation that was carried out is
\* in the ledger; and the answer to a first attempt leaves nothing under way.
AnswerInv(c) ==
  /\ reply[c] = "accepted" => ledger[JobId(c)] = "counted"
  /\ reply[c] = "limit" /\ IsDebit(c) => ledger[JobId(c)] = "limit"
  /\ reply[c] = "refused" /\ IsDebit(c) => revoked \/ ledger[JobId(c)] = "denied"
  /\ call[c].pc = "done" /\ call[c].result = "ok" => reply[c] \in {"accepted", "limit"}
  /\ call[c].pc = "done" /\ call[c].result = "denied" => reply[c] = "refused"
  /\ handled[c] > 0 => ledger[JobId(c)] = "counted"
  /\ reply[c] \in {"limit", "refused"} /\ call[c].n = 0 => handled[c] = 0 /\ InFlight(c) = {}

\* The outcome a caller was told agrees with the ledger where its entries are
\* final; a job that was refused without a verdict was never sent.
TaskInv(c) ==
  /\ call[c].pc = "idle" => task[c] = NoTask /\ reply[c] = "none"
  /\ call[c].pc # "idle" => task[c].op \in Ops
  /\ task[c].outcome # "none" => call[c].pc = "done"
  /\ task[c].outcome = "ok" => ledger[JobId(c)] = "counted"
  /\ task[c].outcome = "limit" /\ IsDebit(c) => ledger[JobId(c)] = "limit"
  /\ task[c].outcome = "refused" /\ IsDebit(c) =>
       revoked \/ ledger[JobId(c)] = "denied" \/ (handled[c] = 0 /\ InFlight(c) = {})
  /\ task[c].outcome \in {"limit", "refused"} /\ call[c].n = 0 => handled[c] = 0 /\ InFlight(c) = {}

MeterInv ==
  /\ TransportInv
  /\ MeterTypeOK
  /\ LedgerInv
  /\ \A c \in Callers : AnswerInv(c) /\ TaskInv(c)

(***************************************************************************)
(* Steps of metering                                                       *)
(***************************************************************************)

\* Facts every step starts from.
LEMMA MeterFacts ==
  ASSUME MeterInv
  PROVE  /\ TransportInv /\ TransportTypeOK /\ MeterTypeOK /\ LedgerInv
         /\ NoOp \notin Ops /\ 0 \in 0..LastAttempt
         /\ \A c \in Callers :
              /\ AnswerInv(c) /\ TaskInv(c) /\ handled[c] \in Nat
              /\ task[c].op \in Ops => JobId(c) \in Ids
<1>1. 0 \in 0..LastAttempt
  BY TimeoutsAssumption
<1> QED BY <1>1, TransportFacts, OpsAssumption DEF MeterInv, JobId, Ids

\* A caller whose operation a step does not touch: what the server remembers
\* stays, a revocation is not undone, and nothing more is on the wire.
LEMMA OtherJob ==
  ASSUME NEW c \in Callers, AnswerInv(c), TaskInv(c),
         call'[c].pc = call[c].pc, call'[c].result = call[c].result, call'[c].n = call[c].n,
         reply'[c] = reply[c], task'[c] = task[c],
         handled'[c] = handled[c], InFlight(c)' \subseteq InFlight(c),
         revoked => revoked',
         ledger[JobId(c)] = "counted" \/ (IsDebit(c) /\ ledger[JobId(c)] # "none")
           => ledger'[JobId(c)] = ledger[JobId(c)]
  PROVE  AnswerInv(c)' /\ TaskInv(c)'
<1>1. JobId(c)' = JobId(c) /\ (IsDebit(c)' <=> IsDebit(c))
  BY DEF JobId, IsDebit
<1>2. AnswerInv(c)'
  BY <1>1 DEF AnswerInv
<1>3. TaskInv(c)'
  BY <1>1 DEF TaskInv
<1> QED BY <1>2, <1>3

\* What a step of an operation in flight does for metering: a result comes
\* from the answer the operation has.
StepsEffect(c) ==
  /\ call[c].pc \in {"sent", "sleep"} /\ call'[c].pc # "idle"
  /\ handled' = handled
  /\ \A d \in Callers : d # c =>
       call'[d] = call[d] /\ reply'[d] = reply[d] /\ InFlight(d)' = InFlight(d)
  /\ \/ reply'[c] = "none"
     \/ reply'[c] = reply[c] /\ call'[c].n = call[c].n /\ InFlight(c)' = InFlight(c)
  /\ call'[c].pc = "done" =>
       /\ reply'[c] = reply[c]
       /\ call'[c].result = "ok" => reply[c] \in {"accepted", "limit"}
       /\ call'[c].result = "denied" => reply[c] = "refused"

\* The operation returns what its answer said.
LEMMA FinishEffect ==
  ASSUME TransportInv, NEW c \in Callers, NEW r, Finish(c, r), UNCHANGED <<wire, reply, handled>>,
         call[c].pc \in {"sent", "sleep"},
         r = "ok" => reply[c] \in {"accepted", "limit"}, r = "denied" => reply[c] = "refused"
  PROVE  StepsEffect(c)
<1>1. call \in [Callers -> Calls] /\ call[c] \in Calls
  BY TransportFacts DEF TransportTypeOK
<1>2. call' = [call EXCEPT ![c] = [call[c] EXCEPT !.pc = "done", !.result = r]]
  BY <1>1 DEF Finish
<1>3. call'[c].pc = "done" /\ call'[c].result = r /\ call'[c].n = call[c].n /\ \A d \in Callers : d # c => call'[d] = call[d]
  BY <1>1, <1>2 DEF Calls
<1>4. \A d \in Callers : InFlight(d)' = InFlight(d)
  BY DEF InFlight
<1> QED BY <1>3, <1>4 DEF StepsEffect

\* It returns, or sleeps.
LEMMA SettleEffect ==
  ASSUME TransportInv, NEW c \in Callers, NEW class, Settle(c, class), UNCHANGED <<wire, reply, handled>>,
         call[c].pc \in {"sent", "sleep"},
         class = "ok" => reply[c] \in {"accepted", "limit"}, class = "denied" => reply[c] = "refused"
  PROVE  StepsEffect(c)
<1>1. call \in [Callers -> Calls] /\ call[c] \in Calls
  BY TransportFacts DEF TransportTypeOK
<1>2. PICK delay \in Delays :
        \/ call' = [call EXCEPT ![c].pc = "sleep", ![c].timer = delay]
        \/ Finish(c, class)
  BY DEF Settle
<1>3. CASE Finish(c, class)
  BY <1>3, FinishEffect
<1>4. CASE call' = [call EXCEPT ![c].pc = "sleep", ![c].timer = delay]
  <2>1. call' = [call EXCEPT ![c] = [call[c] EXCEPT !.pc = "sleep", !.timer = delay]]
    BY <1>1, <1>4
  <2>2. call'[c].pc = "sleep" /\ call'[c].n = call[c].n /\ \A d \in Callers : d # c => call'[d] = call[d]
    BY <1>1, <2>1 DEF Calls
  <2>3. \A d \in Callers : InFlight(d)' = InFlight(d)
    BY DEF InFlight
  <2> QED BY <2>2, <2>3 DEF StepsEffect
<1> QED BY <1>2, <1>3, <1>4

\* Every step of an operation in flight has that effect.
LEMMA StepsHaveEffect ==
  ASSUME TransportInv, NEW c \in Callers, Steps(c)
  PROVE  StepsEffect(c)
<1>1. CASE Answered(c)
  <2>1. PICK a \in AnswersOf(reply[c]) : Settle(c, Class(a))
    BY <1>1 DEF Answered
  <2>2. reply[c] \in Verdicts
    BY <1>1, TransportFacts DEF Answered, TransportTypeOK
  <2>3. /\ Class(a) = "ok" => reply[c] \in {"accepted", "limit"}
        /\ Class(a) = "denied" => reply[c] = "refused"
    BY <2>2, ServiceClasses
  <2> QED BY <1>1, <2>1, <2>3, SettleEffect DEF Answered
<1>2. CASE Retry(c)
  <2>1. call \in [Callers -> Calls] /\ call[c] \in Calls /\ reply \in [Callers -> Verdicts \cup {"none"}]
    BY TransportFacts DEF TransportTypeOK
  <2>2. call' = [call EXCEPT ![c] = [call[c] EXCEPT !.pc = "sent", !.n = @ + 1, !.timer = AttemptTimeout]]
    BY <1>2 DEF Retry, Sends
  <2>3. call'[c].pc = "sent" /\ \A d \in Callers : d # c => call'[d] = call[d]
    BY <2>1, <2>2 DEF Calls
  <2>4. reply'[c] = "none" /\ \A d \in Callers : d # c => reply'[d] = reply[d]
    BY <1>2, <2>1 DEF Retry, Sends
  <2>5. PICK j : wire' = wire \cup {<<c, j>>}
    BY <1>2 DEF Retry, Sends
  <2>6. \A d \in Callers : d # c => InFlight(d)' = InFlight(d)
    BY <2>5 DEF InFlight
  <2>7. call[c].pc = "sleep" /\ handled' = handled
    BY <1>2 DEF Retry
  <2> QED BY <2>3, <2>4, <2>6, <2>7 DEF StepsEffect
<1>3. CASE Expires(c)
  <2>1. call[c].pc \in {"sent", "sleep"}
    BY <1>3 DEF Expires, TimeIsOver, Busy
  <2> QED BY <1>3, <2>1, FinishEffect, SettleEffect DEF Expires
<1>4. CASE Interrupted(c)
  BY <1>4, FinishEffect DEF Interrupted, Busy
<1>5. ASSUME NEW class \in Failures, AttemptFails(c, class) PROVE StepsEffect(c)
  BY <1>5, SettleEffect DEF AttemptFails, Failures
<1> QED BY <1>1, <1>2, <1>3, <1>4, <1>5 DEF Steps, Polled

\* Metering's own variables did not change.
LEMMA MeterTypesKept ==
  ASSUME MeterInv, UNCHANGED meterVars
  PROVE  MeterTypeOK' /\ LedgerInv'
BY DEF MeterInv, meterVars, MeterTypeOK, LedgerInv, Counted

\* An operation in flight goes on by itself.
LEMMA StepsKeepMeter ==
  ASSUME MeterInv, NEW c \in Callers, Steps(c), UNCHANGED meterVars
  PROVE  MeterInv'
<1> USE MeterFacts
<1>1. TransportInv' /\ StepsEffect(c)
  BY StepsKeep, StepsHaveEffect
<1>2. task' = task /\ ledger' = ledger /\ revoked' = revoked /\ JobId(c)' = JobId(c) /\ (IsDebit(c)' <=> IsDebit(c))
  BY DEF meterVars, JobId, IsDebit
<1>3. AnswerInv(c)'
  BY <1>1, <1>2 DEF AnswerInv, StepsEffect
<1>4. TaskInv(c)'
  BY <1>1, <1>2 DEF TaskInv, StepsEffect
<1>5. ASSUME NEW d \in Callers, d # c PROVE AnswerInv(d)' /\ TaskInv(d)'
  <2>1. /\ call'[d] = call[d] /\ reply'[d] = reply[d] /\ InFlight(d)' = InFlight(d)
        /\ handled'[d] = handled[d] /\ AnswerInv(d) /\ TaskInv(d)
    BY <1>1, <1>5 DEF StepsEffect
  <2> QED BY <1>2, <2>1, OtherJob
<1> QED BY <1>1, <1>3, <1>4, <1>5, MeterTypesKept DEF MeterInv

\* What the network, the clock and close do.
LEMMA TransportsKeepMeter ==
  ASSUME MeterInv, Transports
  PROVE  MeterInv'
<1> USE MeterFacts
<1>1. UNCHANGED meterVars
  BY DEF Transports
<1>2. task' = task /\ ledger' = ledger /\ revoked' = revoked
  BY <1>1 DEF meterVars
<1>3. ASSUME TransportInv', handled' = handled, reply' = reply, wire' \subseteq wire,
             \A c \in Callers : /\ call'[c].pc = call[c].pc /\ call'[c].result = call[c].result
                               /\ call'[c].n = call[c].n
      PROVE  MeterInv'
  <2>1. ASSUME NEW c \in Callers PROVE AnswerInv(c)' /\ TaskInv(c)'
    <3>1. InFlight(c)' \subseteq InFlight(c)
      BY <1>3 DEF InFlight
    <3>2. AnswerInv(c) /\ TaskInv(c)
      OBVIOUS
    <3> QED BY <1>2, <1>3, <3>1, <3>2, OtherJob
  <2> QED BY <1>1, <1>3, <2>1, MeterTypesKept DEF MeterInv
<1>4. ASSUME NEW c \in Callers, Steps(c) PROVE MeterInv'
  BY <1>1, <1>4, StepsKeepMeter
<1>5. ASSUME NEW m \in wire, Lose(m) PROVE MeterInv'
  BY <1>3, <1>5, LoseKeeps DEF Lose
<1>6. CASE Close
  BY <1>3, <1>6, StopKeeps DEF Close, TransportTypeOK
<1>7. CASE Tick
  <2>1. ASSUME NEW c \in Callers
        PROVE  call'[c].pc = call[c].pc /\ call'[c].result = call[c].result /\ call'[c].n = call[c].n
    <3>1. call[c] \in Calls
      BY DEF TransportTypeOK
    <3>2. CASE Busy(c)
      <4>1. call'[c] = [call[c] EXCEPT !.left = IF @ > 0 THEN @ - 1 ELSE 0,
                                       !.timer = IF @ > 0 THEN @ - 1 ELSE 0]
        BY <1>7, <3>2 DEF Tick
      <4> QED BY <3>1, <4>1 DEF Calls
    <3>3. CASE ~Busy(c)
      BY <1>7, <3>3 DEF Tick
    <3> QED BY <3>2, <3>3
  <2> QED BY <1>3, <1>7, <2>1, TickKeeps DEF Tick
<1> QED BY <1>4, <1>5, <1>6, <1>7 DEF Transports

\* A request on the wire belongs to an operation that began.
LEMMA OnTheWire ==
  ASSUME MeterInv, NEW m \in wire
  PROVE  /\ m[1] \in Callers /\ InFlight(m[1]) # {} /\ call[m[1]].pc # "idle"
         /\ task[m[1]].op \in Ops /\ JobId(m[1]) \in Ids /\ IdOf(m) = JobId(m[1])
<1> USE MeterFacts
<1>1. m[1] \in Callers /\ m[2] \in 0..LastAttempt /\ m = <<m[1], m[2]>>
  BY DEF TransportTypeOK
<1>2. InFlight(m[1]) # {}
  BY <1>1 DEF InFlight
<1>3. call[m[1]].pc # "idle"
  <2>1. /\ SentInv(m[1]) /\ handled[m[1]] \in Nat /\ IsFiniteSet(InFlight(m[1]))
        /\ Cardinality(InFlight(m[1])) \in Nat
    BY <1>1, TransportFacts
  <2>2. call[m[1]].pc = "idle" => Cardinality(InFlight(m[1])) = 0
    BY <2>1 DEF SentInv
  <2> QED BY <1>2, <2>1, <2>2, FS_EmptySet
<1>4. task[m[1]].op \in Ops
  BY <1>1, <1>3 DEF TaskInv
<1> QED BY <1>1, <1>2, <1>3, <1>4 DEF IdOf, JobId

\* The answer counts only while the operation waits for it.
LEMMA HandleEffect ==
  ASSUME MeterInv, NEW m \in wire, NEW carriedOut \in BOOLEAN, NEW v \in Verdicts,
         Handle(m, carriedOut, v)
  PROVE  /\ call' = call /\ \A d \in Callers : InFlight(d)' \subseteq InFlight(d)
         /\ \A d \in Callers : d # m[1] => reply'[d] = reply[d] /\ handled'[d] = handled[d]
         /\ reply'[m[1]] = reply[m[1]] \/ (call[m[1]].pc = "sent" /\ reply'[m[1]] = v)
         /\ ~carriedOut => handled'[m[1]] = handled[m[1]]
         /\ handled'[m[1]] \in Nat
         /\ ~carriedOut /\ call[m[1]].n = 0 => handled'[m[1]] = 0 /\ InFlight(m[1])' = {}
<1> USE MeterFacts
<1>1. m[1] \in Callers
  BY OnTheWire
<1>F. ASSUME ~carriedOut, call[m[1]].n = 0 PROVE handled'[m[1]] = 0 /\ InFlight(m[1])' = {}
  <2> DEFINE c == m[1]
  <2>1. /\ SentInv(c) /\ handled[c] \in Nat /\ IsFiniteSet(InFlight(c)) /\ Cardinality(InFlight(c)) \in Nat
        /\ InFlight(c) # {} /\ call[c].pc # "idle"
    BY <1>1, TransportFacts, OnTheWire
  <2>2. Cardinality(InFlight(c)) # 0
    BY <2>1, FS_EmptySet
  <2>3. handled[c] = 0
    BY <1>F, <2>1, <2>2 DEF SentInv
  <2>4. m[2] \in InFlight(c) /\ m = <<c, m[2]>>
    BY DEF InFlight, TransportTypeOK
  <2>5. \A k \in InFlight(c) : k = 0
    BY <1>F, <2>1, TimeoutsAssumption DEF SentInv, InFlight
  <2>6. InFlight(c)' = {}
    BY <2>4, <2>5 DEF Handle, InFlight
  <2>7. handled'[c] = handled[c]
    BY <1>F, <1>1 DEF Handle, TransportTypeOK
  <2> QED BY <2>3, <2>6, <2>7
<1>2. \A d \in Callers : InFlight(d)' \subseteq InFlight(d)
  BY DEF Handle, InFlight
<1>3. /\ \A d \in Callers : d # m[1] => reply'[d] = reply[d]
      /\ reply'[m[1]] = reply[m[1]] \/ (call[m[1]].pc = "sent" /\ reply'[m[1]] = v)
  BY <1>1 DEF Handle, TransportTypeOK
<1>4. /\ \A d \in Callers : d # m[1] => handled'[d] = handled[d]
      /\ ~carriedOut => handled'[m[1]] = handled[m[1]]
      /\ handled'[m[1]] \in Nat
  BY <1>1 DEF Handle, TransportTypeOK
<1> QED BY <1>2, <1>3, <1>4, <1>F DEF Handle

\* The server settles an operation id, or repeats what it settled.
LEMMA SettledKeepsMeter ==
  ASSUME MeterInv, NEW m \in wire, Settled(m)
  PROVE  MeterInv'
<1> USE MeterFacts
<1>1. PICK v \in Verdict(IdOf(m)) :
        /\ ~revoked
        /\ ledger' = [ledger EXCEPT ![IdOf(m)] = v]
        /\ \E a \in {VerdictOf[v], "gateway"} : Handle(m, v = "counted", a)
        /\ UNCHANGED <<activated, gen, task, revoked>>
  BY DEF Settled
<1>2. PICK a \in {VerdictOf[v], "gateway"} : Handle(m, v = "counted", a)
  BY <1>1
<1> DEFINE c == m[1]
<1>3. c \in Callers /\ task[c].op \in Ops /\ JobId(c) \in Ids /\ IdOf(m) = JobId(c)
  BY OnTheWire
<1>4. /\ v \in {"counted", "limit", "denied"}
      /\ ledger[JobId(c)] = "counted" \/ (IsDebit(c) /\ ledger[JobId(c)] # "none") => v = ledger[JobId(c)]
  BY <1>3 DEF Verdict, Remembered, Counted, JobId, IsDebit, MeterTypeOK
<1>5. /\ a \in {"accepted", "limit", "refused", "gateway"}
      /\ a = "accepted" => v = "counted"
      /\ a = "limit" => v = "limit"
      /\ a = "refused" => v = "denied"
  BY <1>2, <1>4 DEF VerdictOf
<1>6. /\ call' = call /\ \A d \in Callers : InFlight(d)' \subseteq InFlight(d)
      /\ \A d \in Callers : d # c => reply'[d] = reply[d] /\ handled'[d] = handled[d]
      /\ reply'[c] = reply[c] \/ (call[c].pc = "sent" /\ reply'[c] = a)
      /\ v # "counted" => handled'[c] = handled[c]
      /\ v # "counted" /\ call[c].n = 0 => handled'[c] = 0 /\ InFlight(c)' = {}
      /\ InFlight(c) # {}
  BY <1>2, <1>5, HandleEffect, OnTheWire DEF Verdicts
<1>7. TransportInv'
  BY <1>2, <1>5, HandleKeeps DEF Verdicts
<1>8. /\ ledger'[JobId(c)] = v
      /\ \A i \in Ids : ledger[i] = "counted" \/ (i[1] \in Debits /\ ledger[i] # "none")
                       => ledger'[i] = ledger[i]
      /\ \A i \in Ids : i # JobId(c) => ledger'[i] = ledger[i]
  <2>1. JobId(c)[1] = task[c].op
    BY DEF JobId
  <2> QED BY <1>1, <1>3, <1>4, <2>1 DEF MeterTypeOK, IsDebit
<1>9. MeterTypeOK'
  BY <1>1, <1>3, <1>4 DEF MeterTypeOK
<1>10. LedgerInv'
  <2>1. ASSUME NEW i \in Ids, Counted(i)' PROVE i[2] = 0
    <3>1. CASE i = JobId(c)
      BY <3>1 DEF JobId
    <3>2. CASE i # JobId(c)
      BY <1>8, <2>1, <3>2 DEF LedgerInv, Counted
    <3> QED BY <3>1, <3>2
  <2> QED BY <2>1 DEF LedgerInv
<1>11. task' = task /\ revoked' = revoked /\ JobId(c)' = JobId(c) /\ (IsDebit(c)' <=> IsDebit(c))
  BY <1>1 DEF JobId, IsDebit
<1>12. AnswerInv(c) /\ TaskInv(c)
  BY <1>3
<1> HIDE DEF c
<1>13. AnswerInv(c)'
  BY <1>4, <1>5, <1>6, <1>8, <1>11, <1>12 DEF AnswerInv
<1>14. TaskInv(c)'
  BY <1>1, <1>4, <1>6, <1>8, <1>11, <1>12, <1>3 DEF TaskInv
<1>15. ASSUME NEW d \in Callers, d # c PROVE AnswerInv(d)' /\ TaskInv(d)'
  <2>1. task[d].op \in Ops =>
          (ledger[JobId(d)] = "counted" \/ (IsDebit(d) /\ ledger[JobId(d)] # "none")
             => ledger'[JobId(d)] = ledger[JobId(d)])
    BY <1>8 DEF JobId, IsDebit
  <2>2. CASE call[d].pc # "idle"
    BY <1>6, <1>11, <1>15, <2>1, <2>2, OtherJob DEF TaskInv
  <2>3. CASE call[d].pc = "idle"
    <3>1. AnswerInv(d) /\ TaskInv(d) /\ task[d] = NoTask /\ reply[d] = "none" /\ handled[d] = 0
      <4>1. SentInv(d) /\ handled[d] \in Nat /\ Cardinality(InFlight(d)) \in Nat
        BY TransportFacts
      <4>2. handled[d] = 0
        BY <2>3, <4>1 DEF SentInv
      <4> QED BY <2>3, <4>2 DEF TaskInv
    <3>2. AnswerInv(d)'
      BY <1>6, <1>11, <1>15, <2>3, <3>1 DEF AnswerInv
    <3>3. TaskInv(d)'
      BY <1>6, <1>11, <1>15, <2>3, <3>1 DEF TaskInv, NoTask
    <3> QED BY <3>2, <3>3
  <2> QED BY <2>2, <2>3
<1> QED BY <1>7, <1>9, <1>10, <1>13, <1>14, <1>15 DEF MeterInv

\* A request is turned away without having been settled.
LEMMA TurnedAwayKeepsMeter ==
  ASSUME MeterInv, NEW m \in wire, TurnedAway(m)
  PROVE  MeterInv'
<1> USE MeterFacts
<1> DEFINE c == m[1]
<1>1. PICK v \in {"busy", "gateway", "refused"} : Handle(m, FALSE, v) /\ (v = "refused" => revoked)
  BY DEF TurnedAway
<1>2. UNCHANGED meterVars /\ task' = task /\ ledger' = ledger /\ revoked' = revoked
  BY DEF TurnedAway, meterVars
<1>3. c \in Callers /\ AnswerInv(c) /\ TaskInv(c) /\ call[c].pc # "idle" /\ InFlight(c) # {}
  BY OnTheWire
<1>4. /\ call' = call /\ \A d \in Callers : InFlight(d)' \subseteq InFlight(d)
      /\ \A d \in Callers : d # c => reply'[d] = reply[d] /\ handled'[d] = handled[d]
      /\ reply'[c] = reply[c] \/ (call[c].pc = "sent" /\ reply'[c] = v)
      /\ handled'[c] = handled[c]
      /\ call[c].n = 0 => handled'[c] = 0 /\ InFlight(c)' = {}
  BY <1>1, HandleEffect DEF Verdicts
<1>5. TransportInv'
  BY <1>1, HandleKeeps DEF Verdicts
<1>6. JobId(c)' = JobId(c) /\ (IsDebit(c)' <=> IsDebit(c))
  BY <1>2 DEF JobId, IsDebit
<1> HIDE DEF c
<1>7. AnswerInv(c)'
  BY <1>1, <1>2, <1>3, <1>4, <1>6 DEF AnswerInv
<1>8. TaskInv(c)'
  BY <1>2, <1>3, <1>4, <1>6 DEF TaskInv
<1>9. ASSUME NEW d \in Callers, d # c PROVE AnswerInv(d)' /\ TaskInv(d)'
  BY <1>2, <1>4, <1>9, OtherJob
<1> QED BY <1>2, <1>5, <1>7, <1>8, <1>9, MeterTypesKept DEF MeterInv

\* An operation that has not begun was not carried out and has no answer.
LEMMA IdleJob ==
  ASSUME MeterInv, NEW c \in Callers, call[c].pc = "idle"
  PROVE  handled[c] = 0 /\ InFlight(c) = {} /\ reply[c] = "none" /\ task[c] = NoTask
<1>1. SentInv(c) /\ handled[c] \in Nat /\ Cardinality(InFlight(c)) \in Nat /\ IsFiniteSet(InFlight(c))
  BY TransportFacts, MeterFacts
<1>2. handled[c] = 0 /\ Cardinality(InFlight(c)) = 0
  BY <1>1 DEF SentInv
<1>3. InFlight(c) = {}
  BY <1>1, <1>2, FS_EmptySet
<1> QED BY <1>2, <1>3, MeterFacts DEF TaskInv

\* A caller begins a job.
LEMMA MutateKeepsMeter ==
  ASSUME MeterInv, NEW c \in Callers, NEW o \in Ops, Mutate(c, o)
  PROVE  MeterInv'
<1> USE MeterFacts
<1> DEFINE k == [Idle EXCEPT !.pc = "sent", !.kind = "safe", !.timer = Timeout("safe")]
<1>1. Request(c, "safe") /\ call[c].pc = "idle"
  BY DEF Mutate, Request
<1>2. TransportInv'
  BY <1>1, RequestKeeps DEF Kinds
<1>3. handled[c] = 0 /\ InFlight(c) = {} /\ reply[c] = "none" /\ task[c] = NoTask
  BY <1>1, IdleJob
<1>4. call' = [call EXCEPT ![c] = k] /\ k.pc = "sent"
  BY <1>1 DEF Request, Sends, Idle
<1>5. /\ call'[c].pc = "sent" /\ \A d \in Callers : d # c => call'[d] = call[d]
      /\ reply'[c] = "none" /\ \A d \in Callers : d # c => reply'[d] = reply[d]
      /\ handled' = handled
  BY <1>1, <1>4 DEF Request, Sends, TransportTypeOK
<1>6. \A d \in Callers : d # c => InFlight(d)' = InFlight(d)
  BY <1>1 DEF Request, Sends, InFlight
<1>7. /\ task' = [task EXCEPT ![c] = [op |-> o, gen |-> gen, outcome |-> "none"]]
      /\ UNCHANGED <<activated, gen, ledger, revoked>>
  BY DEF Mutate
<1>8. /\ task'[c] = [op |-> o, gen |-> gen, outcome |-> "none"]
      /\ \A d \in Callers : d # c => task'[d] = task[d]
      /\ MeterTypeOK' /\ LedgerInv'
  BY <1>7 DEF MeterTypeOK, LedgerInv, Counted
<1>9. AnswerInv(c)' /\ TaskInv(c)'
  BY <1>3, <1>5, <1>8 DEF AnswerInv, TaskInv
<1>10. ASSUME NEW d \in Callers, d # c PROVE AnswerInv(d)' /\ TaskInv(d)'
  BY <1>5, <1>6, <1>7, <1>8, <1>10, OtherJob
<1> QED BY <1>2, <1>8, <1>9, <1>10 DEF MeterInv

\* A job is refused before anything is sent.
LEMMA MutateRefusedKeepsMeter ==
  ASSUME MeterInv, NEW c \in Callers, NEW o \in Ops, MutateRefused(c, o)
  PROVE  MeterInv'
<1> USE MeterFacts
<1>1. RequestRefused(c) /\ call[c].pc = "idle"
  BY DEF MutateRefused, RequestRefused
<1>2. TransportInv'
  BY <1>1, RequestRefusedKeeps
<1>3. handled[c] = 0 /\ InFlight(c) = {} /\ reply[c] = "none" /\ task[c] = NoTask
  BY <1>1, IdleJob
<1>4. PICK r \in {"cancelled", "configuration"} :
        call' = [call EXCEPT ![c] = [call[c] EXCEPT !.pc = "done", !.result = r]]
  BY <1>1 DEF RequestRefused, Finish, TransportTypeOK
<1>5. call[c] \in Calls /\ call \in [Callers -> Calls]
  BY DEF TransportTypeOK
<1>6. /\ call'[c].pc = "done" /\ call'[c].result = r
      /\ \A d \in Callers : d # c => call'[d] = call[d]
  BY <1>4, <1>5 DEF Calls
<1>7. /\ UNCHANGED <<wire, reply, handled>>
      /\ \A d \in Callers : InFlight(d)' = InFlight(d)
  BY <1>1 DEF RequestRefused, InFlight
<1>8. PICK u \in {"uncertain", "refused"} :
        task' = [task EXCEPT ![c] = [op |-> o, gen |-> gen, outcome |-> u]]
  BY DEF MutateRefused
<1>9. UNCHANGED <<activated, gen, ledger, revoked>>
  BY DEF MutateRefused
<1>10. /\ task'[c] = [op |-> o, gen |-> gen, outcome |-> u]
       /\ \A d \in Callers : d # c => task'[d] = task[d]
       /\ MeterTypeOK' /\ LedgerInv'
  BY <1>8, <1>9 DEF MeterTypeOK, LedgerInv, Counted
<1>11. AnswerInv(c)' /\ TaskInv(c)'
  BY <1>3, <1>6, <1>7, <1>10 DEF AnswerInv, TaskInv
<1>12. ASSUME NEW d \in Callers, d # c PROVE AnswerInv(d)' /\ TaskInv(d)'
  BY <1>6, <1>7, <1>9, <1>10, <1>12, OtherJob
<1> QED BY <1>2, <1>10, <1>11, <1>12 DEF MeterInv

\* The transport did not move.
LEMMA TransportKept ==
  ASSUME TransportInv, UNCHANGED transportVars
  PROVE  TransportInv' /\ \A c \in Callers : InFlight(c)' = InFlight(c)
<1>1. TransportInv'
  BY StopKeeps, TransportFacts DEF transportVars, TransportTypeOK
<1>2. \A c \in Callers : InFlight(c)' = InFlight(c)
  BY DEF transportVars, InFlight
<1> QED BY <1>1, <1>2

\* The caller is told the outcome.
LEMMA ReturnsKeepsMeter ==
  ASSUME MeterInv, NEW c \in Callers, Returns(c)
  PROVE  MeterInv'
<1> USE MeterFacts
<1>1. UNCHANGED transportVars /\ UNCHANGED <<activated, gen, ledger, revoked>>
  BY DEF Returns
<1>2. TransportInv' /\ \A d \in Callers : InFlight(d)' = InFlight(d)
  BY <1>1, TransportKept
<1>3. PICK u \in {"ok", "limit", "refused", "uncertain"} :
        /\ task' = [task EXCEPT ![c].outcome = u]
        /\ u = "refused" => CertainFailure(c)
        /\ u \in {"ok", "limit"} => call[c].result = "ok" /\ u = Reads(c)
  BY DEF Returns, Reads
<1>4. call[c].pc = "done" /\ AnswerInv(c) /\ TaskInv(c)
  BY DEF Returns
<1>5. /\ task'[c].outcome = u /\ task'[c].op = task[c].op
      /\ \A d \in Callers : d # c => task'[d] = task[d]
      /\ MeterTypeOK' /\ LedgerInv'
  BY <1>1, <1>3 DEF MeterTypeOK, LedgerInv, Counted
<1>6. JobId(c)' = JobId(c) /\ (IsDebit(c)' <=> IsDebit(c))
  BY <1>5 DEF JobId, IsDebit
<1>7. /\ u = "ok" => reply[c] = "accepted"
      /\ u = "limit" => reply[c] = "limit"
      /\ u = "refused" => reply[c] = "refused"
  BY <1>3, <1>4 DEF AnswerInv, Reads, CertainFailure
<1>8. AnswerInv(c)'
  BY <1>1, <1>2, <1>4, <1>6 DEF AnswerInv, transportVars
<1>9. TaskInv(c)'
  BY <1>1, <1>2, <1>4, <1>5, <1>6, <1>7 DEF AnswerInv, TaskInv, transportVars
<1>10. ASSUME NEW d \in Callers, d # c PROVE AnswerInv(d)' /\ TaskInv(d)'
  BY <1>1, <1>2, <1>5, <1>10, OtherJob DEF transportVars
<1> QED BY <1>2, <1>5, <1>8, <1>9, <1>10 DEF MeterInv

\* A revocation, and a logout or another activation under way.
LEMMA MovesKeepMeter ==
  ASSUME MeterInv, UNCHANGED <<transportVars, task, ledger>>,
         revoked' \in BOOLEAN, revoked => revoked', activated' \in BOOLEAN, gen' \in Nat
  PROVE  MeterInv'
<1> USE MeterFacts
<1>1. TransportInv' /\ \A d \in Callers : InFlight(d)' = InFlight(d)
  BY TransportKept
<1>2. MeterTypeOK' /\ LedgerInv'
  BY DEF MeterTypeOK, LedgerInv, Counted
<1>3. ASSUME NEW d \in Callers PROVE AnswerInv(d)' /\ TaskInv(d)'
  BY <1>1, OtherJob DEF transportVars
<1> QED BY <1>1, <1>2, <1>3 DEF MeterInv

\* Nothing was asked for yet.
LEMMA MeterStart == Init => MeterInv
<1> SUFFICES ASSUME Init PROVE MeterInv
  OBVIOUS
<1>1. TransportInv
  BY TransportStart DEF Init
<1>2. MeterTypeOK /\ LedgerInv
  BY DEF Init, MeterTypeOK, LedgerInv, Counted, NoTask
<1>3. ASSUME NEW c \in Callers PROVE AnswerInv(c) /\ TaskInv(c)
  BY DEF Init, TransportInit, AnswerInv, TaskInv, NoTask, Idle
<1> QED BY <1>1, <1>2, <1>3 DEF MeterInv

\* Every step of metering keeps its invariant.
LEMMA MeterStep == MeterInv /\ [MeterNext]_allVars => MeterInv'
<1> SUFFICES ASSUME MeterInv, [MeterNext]_allVars PROVE MeterInv'
  OBVIOUS
<1>1. CASE Transports
  BY <1>1, TransportsKeepMeter
<1>2. ASSUME NEW c \in Callers, NEW o \in Ops, Take(c, o) \/ Release(c, o) PROVE MeterInv'
  BY <1>2, MutateKeepsMeter DEF Take, Release
<1>3. ASSUME NEW c \in Callers, NEW o \in Ops, MutateRefused(c, o) PROVE MeterInv'
  BY <1>3, MutateRefusedKeepsMeter
<1>4. ASSUME NEW c \in Callers, Returns(c) PROVE MeterInv'
  BY <1>4, ReturnsKeepsMeter
<1>5. ASSUME NEW m \in wire, Settled(m) PROVE MeterInv'
  BY <1>5, SettledKeepsMeter
<1>6. ASSUME NEW m \in wire, TurnedAway(m) PROVE MeterInv'
  BY <1>6, TurnedAwayKeepsMeter
<1>7. CASE Revoke
  BY <1>7, MovesKeepMeter, MeterFacts DEF Revoke, MeterTypeOK
<1>8. CASE Moves
  <2>1. gen' \in Nat /\ activated' \in BOOLEAN /\ revoked' \in BOOLEAN /\ revoked' = revoked
    <3>1. gen \in Nat /\ activated \in BOOLEAN /\ revoked \in BOOLEAN
      BY MeterFacts DEF MeterTypeOK
    <3>2. gen' = gen + 1 /\ activated' = FALSE /\ revoked' = revoked
      BY <1>8 DEF Moves
    <3>3. gen' \in Nat
      BY <3>1, <3>2, SMT
    <3>4. activated' \in BOOLEAN /\ revoked' \in BOOLEAN
      BY <3>1, <3>2, Zenon
    <3> QED BY <3>2, <3>3, <3>4, Zenon
  <2>2. UNCHANGED <<transportVars, task, ledger>>
    BY <1>8 DEF Moves
  <2> QED BY <2>1, <2>2, MovesKeepMeter
<1>9. CASE UNCHANGED allVars
  BY <1>9, MovesKeepMeter, MeterFacts DEF allVars, meterVars, MeterTypeOK
<1> QED BY <1>1, <1>2, <1>3, <1>4, <1>5, <1>6, <1>7, <1>8, <1>9 DEF MeterNext

(***************************************************************************)
(* Theorems about metering                                                 *)
(***************************************************************************)

\* What callers were told, what the server's ledger says and what is under way
\* agree, however requests, answers, revocations and logouts interleave.
THEOREM MeterInductive == MeterSpec => []MeterInv
<1>1. Init => MeterInv
  BY MeterStart
<1>2. MeterInv /\ [MeterNext]_allVars => MeterInv'
  BY MeterStep
<1> QED BY <1>1, <1>2, PTL DEF MeterSpec

\* A job is charged once however often its request was sent (operation_id,
\* limits.rs): all attempts and repetitions carry one id.
THEOREM JobsAreCountedOnce == MeterSpec => []JobCountedOnce
<1>1. MeterInv => JobCountedOnce
  <2> SUFFICES ASSUME MeterInv, NEW o \in Ops
               PROVE  Cardinality({i \in Ids : i[1] = o /\ Counted(i)}) =< 1
    BY DEF JobCountedOnce
  <2> DEFINE S == {i \in Ids : i[1] = o /\ Counted(i)}
  <2>1. S \in SUBSET {<<o, 0>>}
    BY DEF MeterInv, LedgerInv, Ids
  <2>2. IsFiniteSet({<<o, 0>>}) /\ Cardinality({<<o, 0>>}) = 1
    BY FS_Singleton
  <2>3. Cardinality(S) =< Cardinality({<<o, 0>>})
    BY <2>1, <2>2, FS_Subset
  <2> QED BY <2>2, <2>3
<1> QED BY <1>1, MeterInductive, PTL

\* What a caller is told of its job (mutate and failure, limits.rs) is true:
\* counted; not charged by this call, if the first attempt was answered or the
\* server remembers the denial; and never charged, for usage denied for its
\* capacity.
THEOREM OutcomesAreTrue == MeterSpec => []OutcomeIsTrue
<1>1. MeterInv => OutcomeIsTrue
  <2> SUFFICES ASSUME MeterInv PROVE OutcomeIsTrue
    OBVIOUS
  <2> USE MeterFacts
  <2>1. ASSUME NEW c \in Callers, task[c].outcome # "none" PROVE task[c].op \in Ops /\ JobId(c) \in Ids
    BY <2>1 DEF TaskInv
  <2>2. OkMeansCounted
    BY <2>1 DEF OkMeansCounted, TaskInv, Settles, Counted, JobId
  <2>3. CertainMeansNotCounted
    <3> SUFFICES ASSUME NEW c \in Callers, task[c].outcome \in {"refused", "limit"},
                        call[c].n = 0 \/ (task[c].op \in Debits /\ ~revoked)
                 PROVE  handled[c] = 0
      BY DEF CertainMeansNotCounted
    <3>1. AnswerInv(c) /\ TaskInv(c) /\ handled[c] \in Nat
      OBVIOUS
    <3> QED BY <3>1 DEF TaskInv, AnswerInv, IsDebit
  <2>4. LimitMeansNeverCounted
    <3>1. ASSUME NEW c \in Callers, task[c].outcome = "limit", task[c].op \in Debits, NEW i \in Ids, i[1] = task[c].op, Counted(i)
          PROVE  FALSE
      <4>1. i = JobId(c)
        BY <3>1 DEF LedgerInv, JobId, Ids
      <4> QED BY <3>1, <4>1 DEF TaskInv, Counted, IsDebit
    <3> QED BY <3>1 DEF LimitMeansNeverCounted, Settles
  <2> QED BY <2>2, <2>3, <2>4 DEF OutcomeIsTrue
<1> QED BY <1>1, MeterInductive, PTL
=============================================================================
