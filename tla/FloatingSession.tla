--------------------------- MODULE FloatingSession ---------------------------
(***************************************************************************)
(* Floating seats (sdk/rust/src/access.rs): start_session, end_session,    *)
(* renew_session, maintain_session, and what activate, refresh, logout and *)
(* close do to a session.                                                  *)
(*                                                                         *)
(* The application's tasks and the worker share the State of one client.   *)
(* Every section under the state lock is a step; between two sections of   *)
(* one call every other task may run, whether or not the call suspends     *)
(* there.  A request that was sent may reach the service at any later      *)
(* time, also after the caller gave up, and its answer may be lost.        *)
(*                                                                         *)
(* A session id, random in the code, is a number.  The record is assumed   *)
(* to commit (module AccessClient has its failures), so sync_storage only  *)
(* fails once the client is closed.  Offline files are outside.            *)
(***************************************************************************)
EXTENDS Integers

CONSTANTS Tasks,        \* tasks of the application
          Worker,       \* the task that open spawns
          NoThread,     \* nobody holds the serial lock
          MaxSessions,  \* bound: session ids drawn in a behaviour
          MaxSequence,  \* bound: sequence numbers of a session
          Closes        \* bound: whether the client is closed in a behaviour

ASSUME TasksAssumption == Worker \notin Tasks /\ NoThread \notin Tasks \cup {Worker}
ASSUME BoundsAssumption == MaxSessions \in Nat /\ MaxSequence \in Nat \ {0} /\ Closes \in BOOLEAN

Threads == Tasks \cup {Worker}
None == 0
Ids == 1..MaxSessions
Stages == {"fresh", "due", "over"}
NoSession == [id |-> None, seq |-> 0, pending |-> 0, stage |-> "over"]

VARIABLES
  st,       \* the session fields of State, and the record's pending activation
  life,     \* open, closing (the closed flag is set), closed
  serial,   \* holder of the serial lock
  current,  \* the calls whose generation is still State.generation
  call,     \* what each task is doing
  drawn,    \* how many session ids were drawn
  sent,     \* requests that were sent and may yet arrive
  seat,     \* the service: what it knows of each session id
  fence,    \* history: ids drawn before the last end, logout or replacement
  dropped,  \* history: ids given up without an end request, as the code intends
  resolved  \* history: ids being started when resolve_pending_activation moved the generation

server == <<sent, seat>>
history == <<fence, dropped, resolved>>
vars == <<st, life, serial, current, call, drawn, server, history>>

Sessions == [id : Ids, seq : 1..MaxSequence, pending : {0} \cup 2..MaxSequence, stage : Stages]
States == [cred : BOOLEAN, activating : BOOLEAN, policy : {"unknown", "ordinary", "floating"},
           disabled : BOOLEAN, session : Sessions \cup {NoSession},
           pend : Ids \cup {None}, retry : BOOLEAN]
Messages == [op : {"start", "end"}, id : Ids, seq : {1}]
            \cup [op : {"renew"}, id : Ids, seq : 2..MaxSequence]

\* "ended" is a denial that says the id is over, "unverified" an ordinary
\* reply whose keys could not be fetched, "invalid" any other error.
Replies == {"ok", "floating", "ordinary", "transient", "unverified", "denied", "ended",
            "expired", "discard", "invalid"}
Calls == [pc : {"idle", "enter", "gen", "wait", "sent", "got", "check", "cleanup", "end"},
          kind : {"none", "start", "renew", "activate", "refresh"},
          explicit : BOOLEAN, then : {"return", "start", "end"},
          id : Ids \cup {None}, seq : 0..MaxSequence, reply : Replies \cup {"none"},
          stage : Stages]
Idle == [pc |-> "idle", kind |-> "none", explicit |-> FALSE, then |-> "return",
         id |-> None, seq |-> 0, reply |-> "none", stage |-> "over"]

TypeOK ==
  /\ st \in States
  /\ life \in {"open", "closing", "closed"}
  /\ serial \in Threads \cup {NoThread}
  /\ current \subseteq Threads
  /\ call \in [Threads -> Calls]
  /\ drawn \in 0..MaxSessions
  /\ sent \subseteq Messages
  /\ seat \in [Ids -> [state : {"none", "held", "over"}, seq : 0..MaxSequence]]
  /\ fence \in 0..MaxSessions
  /\ dropped \subseteq Ids
  /\ resolved \subseteq Ids

\* A client that has just been opened, with or without a saved credential.
Init ==
  /\ st \in [cred : BOOLEAN, activating : BOOLEAN, policy : {"unknown"}, disabled : {FALSE},
             session : {NoSession}, pend : {None}, retry : {FALSE}]
  /\ life = "open"
  /\ serial = NoThread
  /\ current = {}
  /\ call = [t \in Threads |-> Idle]
  /\ drawn = 0
  /\ sent = {}
  /\ seat = [i \in Ids |-> [state |-> "none", seq |-> 0]]
  /\ fence = 0
  /\ dropped = {}
  /\ resolved = {}

-----------------------------------------------------------------------------
(* Helpers *)

Set(t, c) == call' = [call EXCEPT ![t] = c]
Goto(t, pc) == Set(t, [call[t] EXCEPT !.pc = pc])
Freed(t) == IF serial = t THEN NoThread ELSE serial

\* What the client knows it may hold: the session, or the pending id.
Tracked(s) == {s.session.id, s.pend} \ {None}
\* Mutant: a start whose outcome is not known is not released.
HeldSession(s) == {s.session.id} \ {None}

\* The id that end_session and close release.
Held(s) == IF s.session # NoSession THEN {s.session.id} ELSE {s.pend} \ {None}
Start(i) == [op |-> "start", id |-> i, seq |-> 1]
End(i) == [op |-> "end", id |-> i, seq |-> 1]
Ends(S) == {End(i) : i \in S}

\* Requests that can still change the service, which is seats: the others are
\* forgotten, whether they arrive or not.
Over == [state |-> "over", seq |-> 0]
Pending(M, seats) ==
  {m \in M : seats[m.id] # Over /\ CASE m.op = "start" -> seats[m.id].state = "none"
                                     [] m.op = "renew" -> seats[m.id].seq < m.seq
                                     [] m.op = "end" -> TRUE}
Send(M) == sent' = Pending(sent \cup M, seat)

\* A start of i is in flight or being cleaned up: it answers for the seat.
Attempted(i) ==
  \E t \in Threads : call[t].id = i /\ (call[t].pc = "cleanup" \/ call[t].kind = "start")

\* The ids of S are given up without a request.
Drops(S) == dropped' = dropped \cup {i \in S : seat[i] # Over /\ End(i) \notin sent /\ ~Attempted(i)}

\* The fields that clear_access, activate_as and a definite error reset alike.
Reset(s) == [s EXCEPT !.policy = "unknown", !.disabled = FALSE, !.session = NoSession,
                      !.pend = None, !.retry = FALSE]

\* session_snapshot is Online; clockOk is the verdict of the anchor.
Online(s, clockOk) == s.session # NoSession /\ s.session.stage # "over" /\ clockOk

\* Mutants: one of the two conditions is forgotten.
StaleWhenClosed(t) == life # "open"
StaleGeneration(t) == t \notin current

\* sync_storage fails once the client is closed; else the generation is compared.
Stale(t) == life # "open" \/ t \notin current

\* The call returns and gives the serial lock back.
Leave(t) == Set(t, Idle) /\ serial' = Freed(t)
Fail(t) == Leave(t) /\ current' = current \ {t}

\* A request succeeded: the call returns, or goes on with what it is for.
Finish(t) ==
  /\ serial' = Freed(t)
  /\ current' = current \ {t}
  /\ Set(t, CASE call[t].then = "return" -> Idle
              [] call[t].then = "start" ->
                   [Idle EXCEPT !.pc = "gen", !.kind = "start", !.explicit = TRUE]
              [] call[t].then = "end" -> [Idle EXCEPT !.pc = "end"])

-----------------------------------------------------------------------------
(* Calls begin *)

\* start_session
StartSession(t) ==
  /\ t \in Tasks
  /\ call[t].pc = "idle"
  /\ life = "open"
  /\ Set(t, [Idle EXCEPT !.pc = "enter"])
  /\ UNCHANGED <<st, life, serial, current, drawn, server, history>>

\* require_access without a live session, for a floating licence.
RequireAccess(t) ==
  /\ t \in Tasks
  /\ call[t].pc = "idle"
  /\ life = "open"
  /\ st.policy = "floating"
  /\ ~st.disabled
  /\ \E clockOk \in BOOLEAN : ~Online(st, clockOk)
  /\ Set(t, [Idle EXCEPT !.pc = "enter"])
  /\ UNCHANGED <<st, life, serial, current, drawn, server, history>>

\* activate, refresh, and the worker's refresh_if_needed, which begin with Gen;
\* the worker looks at the session fields before.
Request(t, kind) ==
  /\ call[t].pc = "idle"
  /\ life = "open"
  /\ t = Worker => kind = "refresh" /\ st.policy # "floating" /\ ~st.disabled
  /\ Set(t, [Idle EXCEPT !.pc = "gen", !.kind = kind])
  /\ UNCHANGED <<st, life, serial, current, drawn, server, history>>

\* end_session, first section: an unknown policy is asked for first.
EndSession(t) ==
  /\ t \in Tasks
  /\ call[t].pc = "idle"
  /\ life = "open"
  /\ IF st.policy = "unknown"
     THEN /\ st' = [st EXCEPT !.disabled = TRUE]
          /\ IF st.cred THEN Set(t, [Idle EXCEPT !.pc = "gen", !.kind = "refresh", !.then = "end"])
             ELSE UNCHANGED call
     ELSE Set(t, [Idle EXCEPT !.pc = "end"]) /\ UNCHANGED st
  /\ UNCHANGED <<life, serial, current, drawn, server, history>>

\* end_session, second section: local authority goes, then the request.
EndNow(t) ==
  /\ call[t].pc = "end"
  /\ Leave(t)
  /\ IF life = "open" /\ st.policy # "ordinary" /\ st.cred
     THEN /\ st' = [st EXCEPT !.session = NoSession, !.pend = None, !.disabled = TRUE, !.retry = FALSE]
          /\ current' = {}
          /\ Send(Ends(Held(st)))
          /\ fence' = drawn
     ELSE current' = current \ {t} /\ UNCHANGED <<st, sent, fence>>
  /\ UNCHANGED <<life, drawn, seat, dropped, resolved>>

\* Mutant: generation() without the early return.
GenWaits(t) ==
  /\ call[t].pc = "gen"
  /\ life = "open"
  /\ Goto(t, "wait")
  /\ current' = current \cup {t}
  /\ UNCHANGED <<st, life, serial, drawn, server, history>>

\* generation(), before the serial lock (or under it, for an automatic start).
Gen(t) ==
  /\ call[t].pc = "gen"
  /\ IF life = "open" THEN Goto(t, "wait") /\ current' = current \cup {t} /\ UNCHANGED serial
     ELSE Fail(t)
  /\ UNCHANGED <<st, life, drawn, server, history>>

Runs(t) == call[t].pc = "wait" /\ serial \in {NoThread, t}

\* The generation moved, or the client was closed, before the lock was taken.
RunStale(t) ==
  /\ Runs(t)
  /\ Stale(t)
  /\ Fail(t)
  /\ UNCHANGED <<st, life, drawn, server, history>>

-----------------------------------------------------------------------------
(* start_session *)

\* start_session_with_cancel, first section.
Enter(t) ==
  /\ call[t].pc = "enter"
  /\ \/ /\ life # "open" \/ (st.policy = "floating" /\ Online(st, TRUE)) \/ (st.policy = "unknown" /\ ~st.cred)
        /\ Set(t, Idle)
     \/ /\ life = "open" /\ st.policy = "unknown" /\ st.cred
        /\ Set(t, [Idle EXCEPT !.pc = "gen", !.kind = "refresh", !.then = "start"])
     \/ /\ life = "open" /\ st.policy # "unknown"
        /\ \E clockOk \in BOOLEAN : ~(st.policy = "floating" /\ Online(st, clockOk))
        /\ Set(t, [Idle EXCEPT !.pc = "gen", !.kind = "start", !.explicit = TRUE])
  /\ UNCHANGED <<st, life, serial, current, drawn, server, history>>

\* What start_session_serialized has made of the state when it asks for an id.
Asked(t) ==
  LET s == IF call[t].explicit THEN [st EXCEPT !.disabled = FALSE, !.retry = FALSE] ELSE st
  IN  IF s.session = NoSession THEN s ELSE [s EXCEPT !.session = NoSession, !.pend = None]

Starting(t) == Runs(t) /\ ~Stale(t) /\ call[t].kind = "start"

\* start_session_serialized has nothing to do: an ordinary licence, or a live
\* session.
StartNotNeeded(t) ==
  /\ Starting(t)
  /\ \/ st.policy = "ordinary" /\ UNCHANGED st
     \/ /\ st.policy # "ordinary" /\ Online(st, TRUE)
        /\ st' = IF call[t].explicit THEN [st EXCEPT !.disabled = FALSE, !.retry = FALSE] ELSE st
  /\ Finish(t)
  /\ UNCHANGED <<life, drawn, server, history>>

\* It may not start one (ended, no credential), or no id can be drawn.
StartRefused(t) ==
  /\ Starting(t)
  /\ st.policy # "ordinary"
  /\ \E clockOk \in BOOLEAN : ~Online(st, clockOk)
  /\ LET s == Asked(t) IN
       /\ s.disabled \/ ~s.cred \/ s.pend = None
       /\ st' = s
       /\ Drops(Tracked(st) \ Tracked(s))
  /\ Fail(t)
  /\ UNCHANGED <<life, drawn, server, fence, resolved>>

\* The request goes out with the pending id, or with a new one when there is
\* none or it is two minutes old.
StartSends(t) ==
  /\ Starting(t)
  /\ st.policy # "ordinary"
  /\ \E clockOk \in BOOLEAN : ~Online(st, clockOk)
  /\ LET s == Asked(t) IN
       /\ ~s.disabled
       /\ s.cred
       /\ \E i \in Ids :
            /\ i = s.pend \/ i = drawn + 1
            /\ drawn' = IF i = s.pend THEN drawn ELSE i
            /\ st' = [s EXCEPT !.pend = i]
            /\ Drops(Tracked(st) \ {i})
            /\ Send({Start(i)})
            /\ Set(t, [call[t] EXCEPT !.pc = "sent", !.id = i, !.seq = 1])
  /\ serial' = t
  /\ UNCHANGED <<life, current, seat, fence, resolved>>

\* The start failed: what is left of the call is its cleanup.
Release(t) == Set(t, [Idle EXCEPT !.pc = "cleanup", !.id = call[t].id])

StartAnswered(t) == call[t].pc = "got" /\ call[t].kind = "start"

\* Mutant: the late answer is ignored.
StartStaleForgets(t) ==
  /\ StartAnswered(t)
  /\ Stale(t)
  /\ Fail(t)
  /\ UNCHANGED <<st, life, drawn, server, history>>

\* The answer comes too late: its seat is released.
StartStale(t) ==
  /\ StartAnswered(t)
  /\ Stale(t)
  /\ Release(t)
  /\ UNCHANGED <<st, life, serial, current, drawn, server, history>>

StartOk(t) ==
  /\ StartAnswered(t)
  /\ ~Stale(t)
  /\ call[t].reply = "ok"
  /\ LET s == [st EXCEPT !.pend = None, !.retry = FALSE,
                         !.session = [id |-> call[t].id, seq |-> 1, pending |-> 0, stage |-> call[t].stage]]
     IN \E clockOk \in BOOLEAN :
          IF Online(s, clockOk) THEN st' = s /\ Finish(t)
          ELSE /\ st' = [s EXCEPT !.session = NoSession]
               /\ Release(t)
               /\ UNCHANGED <<serial, current>>
  /\ UNCHANGED <<life, drawn, server, history>>

\* An outage keeps the id for the retry; so does a denial that does not say
\* that the id is over.
StartFails(t) ==
  /\ StartAnswered(t)
  /\ ~Stale(t)
  /\ call[t].reply \in {"transient", "denied", "ended", "expired"}
  /\ st' = [st EXCEPT !.retry = call[t].reply = "transient",
                      !.pend = IF call[t].reply \in {"ended", "expired"} THEN None ELSE @]
  /\ Fail(t)
  /\ UNCHANGED <<life, drawn, server, history>>

\* Mutant: the id that is being released stays the pending one.
StartInvalidKeeps(t) ==
  /\ StartAnswered(t)
  /\ ~Stale(t)
  /\ call[t].reply = "invalid"
  /\ Release(t)
  /\ UNCHANGED <<st, life, serial, current, drawn, server, history>>

\* Any other error, and a cancelled request: the id is given up and released.
StartInvalid(t) ==
  /\ StartAnswered(t)
  /\ ~Stale(t)
  /\ call[t].reply = "invalid"
  /\ st' = [st EXCEPT !.pend = None]
  /\ Release(t)
  /\ UNCHANGED <<life, serial, current, drawn, server, history>>

\* Mutant: the lock stays taken when the cleanup is over.
CleanupLocked(t) ==
  /\ call[t].pc = "cleanup"
  /\ Send({End(call[t].id)})
  /\ Set(t, Idle)
  /\ current' = current \ {t}
  /\ UNCHANGED <<st, life, serial, drawn, seat, history>>

\* send_session_end_cleanup, still under the serial lock.
Cleanup(t) ==
  /\ call[t].pc = "cleanup"
  /\ Send({End(call[t].id)})
  /\ Fail(t)
  /\ UNCHANGED <<st, life, drawn, seat, history>>

-----------------------------------------------------------------------------
(* activate and refresh *)

ActivateSends(t) ==
  /\ Runs(t)
  /\ ~Stale(t)
  /\ call[t].kind = "activate"
  /\ st' = [Reset(st) EXCEPT !.activating = TRUE]
  /\ Drops(Tracked(st))
  /\ fence' = drawn
  /\ current' = {t}
  /\ serial' = t
  /\ Goto(t, "sent")
  /\ UNCHANGED <<life, drawn, server, resolved>>

RefreshSends(t) ==
  /\ Runs(t)
  /\ ~Stale(t)
  /\ call[t].kind = "refresh"
  /\ ~st.activating
  /\ st.cred
  /\ serial' = t
  /\ Goto(t, "sent")
  /\ UNCHANGED <<st, life, current, drawn, server, history>>

\* An activation is pending, there is no credential, or nothing is due.
RequestSkipped(t) ==
  /\ Runs(t)
  /\ ~Stale(t)
  /\ \/ call[t].kind = "activate" /\ st.activating
     \/ call[t].kind = "refresh" /\ (st.activating \/ ~st.cred \/ call[t].then = "return")
  /\ Fail(t)
  /\ UNCHANGED <<st, life, drawn, server, history>>

Answered(t) == call[t].pc = "got" /\ call[t].kind \in {"activate", "refresh"}
Activating(t) == st.activating /\ call[t].kind # "activate"

AcceptStale(t) ==
  /\ Answered(t)
  /\ Stale(t)
  /\ Fail(t)
  /\ UNCHANGED <<st, life, drawn, server, history>>

\* A floating licence: the session fields stay, and disabled stays.
AcceptFloating(t) ==
  /\ Answered(t)
  /\ ~Stale(t)
  /\ call[t].reply = "floating"
  /\ st' = [st EXCEPT !.cred = TRUE, !.policy = "floating", !.activating = Activating(t)]
  /\ IF call[t].then = "end" THEN Finish(t)
     ELSE Set(t, [Idle EXCEPT !.pc = "check", !.then = call[t].then]) /\ UNCHANGED <<serial, current>>
  /\ UNCHANGED <<life, drawn, server, history>>

AcceptOrdinary(t) ==
  /\ Answered(t)
  /\ ~Stale(t)
  /\ call[t].reply = "ordinary"
  /\ st' = [Reset(st) EXCEPT !.cred = TRUE, !.policy = "ordinary", !.activating = Activating(t)]
  /\ Drops(Tracked(st))
  /\ Finish(t)
  /\ UNCHANGED <<life, drawn, server, fence, resolved>>

\* The service could not be reached, or its keys; with offline access left the
\* refresh still succeeds.
AcceptTransient(t) ==
  /\ Answered(t)
  /\ ~Stale(t)
  /\ \/ call[t].reply = "transient" /\ (Fail(t) \/ Finish(t))
     \/ call[t].reply = "unverified" /\ Leave(t) /\ current' = {}
  /\ UNCHANGED <<st, life, drawn, server, history>>

AcceptError(t) ==
  /\ Answered(t)
  /\ ~Stale(t)
  /\ call[t].reply \in {"denied", "discard", "invalid"}
  /\ st' = [Reset(st) EXCEPT !.cred = st.cred /\ call[t].reply # "discard",
                             !.activating = st.activating /\ call[t].reply = "invalid"]
  /\ Drops(Tracked(st))
  /\ Leave(t)
  /\ current' = {}
  /\ UNCHANGED <<life, drawn, server, fence, resolved>>

\* accept_with_licence: a floating licence gets its seat at once, under the
\* same serial lock.
Check(t) ==
  /\ call[t].pc = "check"
  /\ IF st.policy = "floating" /\ ~st.disabled /\ st.session = NoSession
     THEN /\ Set(t, [call[t] EXCEPT !.pc = "gen", !.kind = "start", !.explicit = FALSE])
          /\ UNCHANGED <<serial, current>>
     ELSE Finish(t)
  /\ UNCHANGED <<st, life, drawn, server, history>>

-----------------------------------------------------------------------------
(* The worker: maintain_session and renew_session *)

Maintain ==
  /\ life = "open"
  /\ call[Worker].pc = "idle"
  /\ st.policy = "floating"
  /\ ~st.disabled
  /\ \/ /\ st.session.stage = "due"
        /\ Set(Worker, [Idle EXCEPT !.pc = "wait", !.kind = "renew"])
        /\ current' = current \cup {Worker}
        /\ UNCHANGED <<st, dropped>>
     \/ /\ st.session # NoSession /\ st.session.stage = "over"
        /\ st' = [st EXCEPT !.session = NoSession, !.pend = None, !.retry = TRUE]
        /\ Drops(Tracked(st))
        /\ Set(Worker, [Idle EXCEPT !.pc = "enter"])
        /\ UNCHANGED current
     \/ /\ st.session = NoSession /\ st.retry
        /\ Set(Worker, [Idle EXCEPT !.pc = "enter"])
        /\ UNCHANGED <<st, current, dropped>>
  /\ UNCHANGED <<life, serial, drawn, server, fence, resolved>>

\* The anchor of the session cannot be trusted any more.
MaintainUncertain ==
  /\ life = "open"
  /\ call[Worker].pc = "idle"
  /\ st.policy = "floating"
  /\ ~st.disabled
  /\ st.session # NoSession
  /\ st' = [st EXCEPT !.session = NoSession, !.pend = None, !.retry = TRUE]
  /\ Drops(Tracked(st))
  /\ UNCHANGED <<life, serial, current, call, drawn, server, fence, resolved>>

Renewing(t) == Runs(t) /\ ~Stale(t) /\ call[t].kind = "renew"

\* Mutant: the first attempt repeats the number of the session.
RenewalRepeats(s) == IF s.pending # 0 THEN s.pending ELSE s.seq

\* Mutant: every attempt takes the next sequence number.
RenewalOfAttempt(s) == s.seq + 1 + s.pending

\* The sequence number of a renewal: the one that is pending, or the next.
Renewal(s) == IF s.pending # 0 THEN s.pending ELSE s.seq + 1

RenewSends(t) ==
  /\ Renewing(t)
  /\ st.cred
  /\ st.session # NoSession
  /\ LET n == Renewal(st.session) IN
       /\ n <= MaxSequence
       /\ st' = [st EXCEPT !.session.pending = n]
       /\ Send({[op |-> "renew", id |-> st.session.id, seq |-> n]})
       /\ Set(t, [call[t] EXCEPT !.pc = "sent", !.id = st.session.id, !.seq = n])
  /\ serial' = t
  /\ UNCHANGED <<life, current, drawn, seat, history>>

RenewNothing(t) ==
  /\ Renewing(t)
  /\ ~st.cred \/ st.session = NoSession \/ Renewal(st.session) > MaxSequence
  /\ Fail(t)
  /\ UNCHANGED <<st, life, drawn, server, history>>

\* The answer of a renewal.  An outage keeps the session until it expires; a
\* definite error ends it, and only session_expired lets the worker start again.
Renewed(t) ==
  /\ call[t].pc = "got"
  /\ call[t].kind = "renew"
  /\ Fail(t)
  /\ IF Stale(t) THEN UNCHANGED <<st, dropped>>
     ELSE CASE call[t].reply = "transient" ->
                 st' = [st EXCEPT !.retry = TRUE] /\ UNCHANGED dropped
            [] call[t].reply = "ok" ->
                 /\ IF st.session.id = call[t].id /\ st.session.pending = call[t].seq
                    THEN st' = [st EXCEPT !.retry = FALSE,
                                          !.session = [id |-> call[t].id, seq |-> call[t].seq,
                                                       pending |-> 0, stage |-> call[t].stage]]
                    ELSE UNCHANGED st
                 /\ UNCHANGED dropped
            [] OTHER ->
                 /\ st' = [st EXCEPT !.session = NoSession, !.disabled = call[t].reply # "expired",
                                     !.retry = call[t].reply = "expired",
                                     !.pend = IF call[t].reply = "expired" THEN None ELSE @]
                 /\ Drops({call[t].id})
  /\ UNCHANGED <<life, drawn, server, fence, resolved>>

-----------------------------------------------------------------------------
(* Calls that do not take the serial lock, and the end of the client *)

Logout ==
  /\ life # "closed"
  /\ st' = [Reset(st) EXCEPT !.cred = FALSE]
  /\ Drops(Tracked(st))
  /\ fence' = drawn
  /\ current' = {}
  /\ UNCHANGED <<life, serial, call, drawn, server, resolved>>

\* It moves the generation and leaves the session fields alone.
ResolvePendingActivation ==
  /\ life # "closed"
  /\ st.activating
  /\ st' = [st EXCEPT !.activating = FALSE]
  /\ resolved' = resolved \cup {i \in Ids : \E t \in current : call[t].kind = "start" /\ call[t].id = i}
  /\ current' = {}
  /\ UNCHANGED <<life, serial, call, drawn, server, fence, dropped>>

\* SessionAttemptGuard: the future of a start is dropped while its request is
\* in flight.  Elsewhere a dropped call leaves nothing behind but the lock.
Drop(t) ==
  /\ t \in Tasks
  /\ call[t].pc # "idle"
  /\ Leave(t)
  /\ IF call[t].kind = "start" /\ call[t].pc \in {"sent", "got"}
     THEN /\ Send({End(call[t].id)})
          /\ IF t \in current
             THEN /\ st' = [st EXCEPT !.session = NoSession, !.pend = None, !.disabled = TRUE, !.retry = FALSE]
                  /\ current' = {}
             ELSE current' = current \ {t} /\ UNCHANGED st
          /\ UNCHANGED dropped
     ELSE /\ dropped' = dropped \cup {i \in Ids : call[t].pc = "cleanup" /\ call[t].id = i}
          /\ current' = current \ {t}
          /\ UNCHANGED <<st, sent>>
  /\ UNCHANGED <<life, drawn, seat, fence, resolved>>

BeginClose ==
  /\ Closes
  /\ life = "open"
  /\ life' = "closing"
  /\ UNCHANGED <<st, serial, current, call, drawn, server, history>>

\* close: the worker has ended and the serial lock is free; the seat is released.
FinishClose ==
  /\ life = "closing"
  /\ serial = NoThread
  /\ call[Worker].pc = "idle"
  /\ life' = "closed"
  /\ Send(IF st.cred THEN Ends(Held(st)) ELSE {})
  /\ st' = [st EXCEPT !.session = NoSession, !.pend = None, !.policy = IF @ = "unknown" THEN @ ELSE "ordinary"]
  /\ current' = {}
  /\ UNCHANGED <<serial, call, drawn, seat, history>>

-----------------------------------------------------------------------------
(* The service and time *)

\* The service handles m.  A start is handled once per id; a renewal must be
\* the next one; the end of an id it does not know is ignored.
Serve(m) ==
  LET s == seat[m.id] IN
  CASE m.op = "start" /\ s.state = "none" -> [seat EXCEPT ![m.id] = [state |-> "held", seq |-> 1]]
    [] m.op = "renew" /\ s.state = "held" /\ s.seq + 1 = m.seq -> [seat EXCEPT ![m.id].seq = m.seq]
    [] m.op = "end" /\ s.state = "held" -> [seat EXCEPT ![m.id] = Over]
    [] OTHER -> seat

\* The service changes; what no longer matters of a seat that is over goes.
Becomes(seats) ==
  /\ seat' = seats
  /\ sent' = Pending(sent, seats)
  /\ dropped' = {i \in dropped : seats[i] # Over}

\* A request arrives of which nobody hears again.
Arrive ==
  /\ \E m \in sent : Becomes(Serve(m))
  /\ UNCHANGED <<st, life, serial, current, call, drawn, fence, resolved>>

\* The answers to a start or a renewal, after the service dealt with it.
SeatReplies(kind, s, n) ==
  IF s.state = "held" /\ s.seq = n THEN {"ok", "invalid"}
  ELSE IF s.state = "none" THEN {"denied", "invalid"}
  ELSE IF kind = "start" THEN {"ended", "invalid"}
  ELSE {"ended", "expired", "invalid"}

\* A call takes its answer; one that comes too late will not be looked at.
Take(t, r) ==
  Set(t, [call[t] EXCEPT !.pc = "got", !.reply = IF Stale(t) THEN "invalid" ELSE r,
                         !.stage = IF r = "ok" /\ ~Stale(t) THEN "fresh" ELSE "over"])

Reply(t) ==
  /\ call[t].pc = "sent"
  /\ \/ /\ Take(t, "transient")
        /\ UNCHANGED <<server, dropped>>
     \/ /\ call[t].kind \in {"activate", "refresh"}
        /\ \E r \in {"floating", "ordinary", "unverified", "denied", "discard", "invalid"} : Take(t, r)
        /\ UNCHANGED <<server, dropped>>
     \/ /\ call[t].kind \in {"start", "renew"}
        /\ \E seats \in {seat, Serve([op |-> call[t].kind, id |-> call[t].id, seq |-> call[t].seq])} :
             /\ Becomes(seats)
             /\ \E r \in SeatReplies(call[t].kind, seats[call[t].id], call[t].seq) : Take(t, r)
  /\ UNCHANGED <<st, life, serial, current, drawn, fence, resolved>>

Older(stage) == IF stage = "fresh" THEN "due" ELSE "over"
Age ==
  /\ st' = IF st.session = NoSession THEN st
            ELSE [st EXCEPT !.session.stage = Older(@)]
  /\ call' = [t \in Threads |-> [call[t] EXCEPT !.stage = Older(@)]]
  /\ UNCHANGED <<life, serial, current, drawn, server, history>>

\* A seat ends by itself, not before the client's view of it: an anchor counts
\* from the moment the request was made.
SeatExpires ==
  /\ \E i \in Ids :
       /\ seat[i].state = "held"
       /\ st.session.id = i => st.session.stage = "over"
       /\ \A t \in Threads : call[t].id = i => call[t].stage = "over"
       /\ Becomes([seat EXCEPT ![i] = Over])
  /\ UNCHANGED <<st, life, serial, current, call, drawn, fence, resolved>>

-----------------------------------------------------------------------------

Running(t) ==
  \/ Enter(t) \/ Gen(t) \/ RunStale(t) \/ EndNow(t)
  \/ StartNotNeeded(t) \/ StartRefused(t) \/ StartSends(t)
  \/ StartStale(t) \/ StartOk(t) \/ StartFails(t) \/ StartInvalid(t) \/ Cleanup(t)
  \/ ActivateSends(t) \/ RefreshSends(t) \/ RequestSkipped(t)
  \/ AcceptStale(t) \/ AcceptFloating(t) \/ AcceptOrdinary(t) \/ AcceptTransient(t)
  \/ AcceptError(t) \/ Check(t)
  \/ RenewSends(t) \/ RenewNothing(t) \/ Renewed(t) \/ Reply(t)

Beginning(t) ==
  \/ StartSession(t) \/ RequireAccess(t) \/ EndSession(t)
  \/ Request(t, "activate") \/ Request(t, "refresh")

Next ==
  \/ \E t \in Threads : Beginning(t) \/ Running(t) \/ Drop(t)
  \/ Maintain \/ MaintainUncertain
  \/ Logout \/ ResolvePendingActivation \/ BeginClose \/ FinishClose
  \/ Arrive \/ SeatExpires \/ Age

Spec == Init /\ [][Next]_vars

\* A call that was begun goes on: every request has a timeout, and the serial
\* lock, a tokio mutex, serves its waiters in order (hence SF).  Nobody has to
\* begin a call, close the client, or wait for the service.
LiveSpec ==
  /\ Spec
  /\ \A t \in Threads : SF_vars(Running(t))
  /\ WF_vars(FinishClose)

-----------------------------------------------------------------------------
(* Properties *)

\* A session that the client works with was started after the last end_session,
\* logout or activation: no answer to an older request brings one back.
EndIsFinal == st.session # NoSession => st.session.id > fence

\* While the client shows Online, the service holds the seat: no cleanup of an
\* earlier attempt releases it behind the client's back.  (Not claimed once
\* resolve_pending_activation has moved the generation.)
SeatBehindAccess ==
  life = "open" /\ Online(st, TRUE) /\ st.session.id \notin resolved => seat[st.session.id].state = "held"

\* Whatever answers were lost, the next renewal carries a sequence number that
\* the service accepts.
RenewalsInStep ==
  st.session # NoSession /\ seat[st.session.id].state = "held" =>
    Renewal(st.session) \in {seat[st.session.id].seq, seat[st.session.id].seq + 1}

\* Every seat the service holds is one the client knows of, one that a running
\* call will account for, or one whose end was requested.
SeatsAccounted ==
  \A i \in Ids : seat[i].state = "held" =>
    \/ i \in Tracked(st) \cup dropped
    \/ End(i) \in sent
    \/ Attempted(i)

\* A start that takes the lock after close began sends nothing, so that close
\* releases the last seat there will be, and loses track of none (close in
\* installed.rs, start_session_serialized).
NoStartAfterClose ==
  /\ [][life # "open" => \A i \in Ids : Start(i) \in sent' => Start(i) \in sent]_vars
  /\ []SeatsAccounted

\* close ends although it waits for the worker, for the serial lock and for
\* whoever holds it, none of which waits for close.
CloseCompletes == life = "closing" ~> life = "closed"

\* Every call returns, also one that was overtaken by end_session, logout or
\* close while it waited for the lock or for an answer.
CallsReturn == \A t \in Threads : call[t].pc # "idle" ~> call[t].pc = "idle"

\* "Ending [...] disables automatic reacquisition" (README.md:160-161): the
\* worker never asks for a seat once end_session has disabled it.
EndedStaysEnded ==
  [][call[Worker].pc = "wait" /\ call'[Worker].pc = "sent" /\ call[Worker].kind = "start"
       => ~st.disabled]_vars
=============================================================================
