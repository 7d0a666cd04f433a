------------------------- MODULE FloatingSessionProofs -------------------------
(***************************************************************************)
(* TLAPS proofs about floating sessions (module FloatingSession), for      *)
(* every set of tasks, any number of session ids and any sequence numbers, *)
(* with and without a close.                                               *)
(***************************************************************************)
EXTENDS FloatingSession, TLAPS

(***************************************************************************)
(* The inductive invariant                                                 *)
(***************************************************************************)

\* Calls whose request is with the service or was just answered.
Asking(t, kind) == call[t].kind = kind /\ call[t].pc \in {"sent", "got"}

\* A call that waits for an answer or cleans up holds the serial lock, and
\* only such a call has an id.
ShapeInv(t) ==
  /\ call[t].pc \in {"sent", "got", "check", "cleanup"} => serial = t
  /\ call[t].pc \notin {"sent", "got", "cleanup"} => call[t].id = None
  /\ call[t].pc = "cleanup" => call[t].id \in Ids /\ call[t].kind = "none"
  /\ Asking(t, "start") => call[t].id \in Ids /\ call[t].seq = 1
  /\ Asking(t, "renew") => call[t].id \in Ids /\ call[t].seq >= 2
  /\ call[t].kind = "renew" => t = Worker
  /\ call[t].id =< drawn

\* As long as its generation is current, a start answers for the pending id
\* and a renewal for the session.
OwnInv(t) ==
  t \in current =>
    /\ Asking(t, "start") => st.session = NoSession /\ st.pend = call[t].id
    /\ Asking(t, "renew") => st.session # NoSession /\ st.session.id = call[t].id

\* What an answer says of the seat is still so when the client looks at it.
ReplyInv(t) ==
  call[t].pc = "got" =>
    /\ Asking(t, "start") /\ call[t].reply = "ok" => seat[call[t].id].state # "none"
    /\ Asking(t, "start") /\ call[t].reply \in {"ended", "expired"} => seat[call[t].id].state = "over"
    /\ t \in current /\ Asking(t, "renew") /\ call[t].reply = "ok" =>
         seat[call[t].id].state = "over" \/ seat[call[t].id].seq = call[t].seq

\* The session fields: an id is pending or a session is held, of a credential;
\* either was drawn after the last end, logout or activation.
StateInv ==
  /\ fence =< drawn
  /\ st.session # NoSession => st.pend = None /\ fence < st.session.id /\ st.session.id =< drawn
  /\ st.pend # None => fence < st.pend /\ st.pend =< drawn
  /\ Tracked(st) # {} => st.cred

\* The service knows only ids that were drawn, has granted the session's, and
\* what is under way to it can still matter.
ServerInv ==
  /\ \A i \in Ids : /\ drawn < i => seat[i].state = "none"
                    /\ seat[i].state = "over" => seat[i] = Over
  /\ \A m \in sent : /\ m.id =< drawn
                     /\ seat[m.id].state # "over"
                     /\ m.op = "start" => seat[m.id].state = "none"
                     /\ m.op = "renew" => seat[m.id].seq < m.seq
  /\ st.session # NoSession => seat[st.session.id].state # "none"

\* The sequence numbers: the service has the session's or the pending one, a
\* renewal under way carries the pending one, and a pending id has none.
SequenceInv ==
  /\ st.session # NoSession =>
       /\ st.session.pending # 0 => st.session.pending = st.session.seq + 1
       /\ seat[st.session.id].state = "held" =>
            \/ seat[st.session.id].seq = st.session.seq
            \/ st.session.pending # 0 /\ seat[st.session.id].seq = st.session.pending
       /\ \A m \in sent : m.op = "renew" /\ m.id = st.session.id => m.seq = st.session.pending
       /\ \A t \in Threads : Asking(t, "renew") /\ call[t].id = st.session.id =>
                               call[t].seq = st.session.pending
  /\ st.pend # None =>
       /\ seat[st.pend].state = "held" => seat[st.pend].seq = 1
       /\ \A m \in sent : m.op = "renew" => m.id # st.pend
       /\ \A t \in Threads : Asking(t, "renew") => call[t].id # st.pend

\* Nobody has released, or is about to release, an id the client works with.
Unreleased(i) ==
  /\ End(i) \notin sent
  /\ \A t \in Threads : call[t].id = i =>
       call[t].pc # "cleanup" /\ (Asking(t, "start") => t \in current)

ReleaseInv == life = "open" => \A i \in Tracked(st) \ resolved : Unreleased(i)

\* The service holds the seat of a session that is not over for the client,
\* and of an answer that is about to make one.
HeldInv ==
  life = "open" =>
    /\ Online(st, TRUE) /\ st.session.id \notin resolved => seat[st.session.id].state = "held"
    /\ \A t \in Threads :
         call[t].pc = "got" /\ call[t].reply = "ok" /\ call[t].stage # "over"
           /\ call[t].id \in Tracked(st) \ resolved => seat[call[t].id].state = "held"

\* A seat that is held, or that a request under way may still take, is
\* accounted for.
Accounted(i) == i \in Tracked(st) \cup dropped \/ End(i) \in sent \/ Attempted(i)
SeatInv == \A i \in Ids : seat[i].state = "held" \/ Start(i) \in sent => Accounted(i)

CallInv(t) == ShapeInv(t) /\ OwnInv(t) /\ ReplyInv(t)

FloatInv ==
  /\ TypeOK
  /\ \A t \in Threads : CallInv(t)
  /\ StateInv /\ ServerInv /\ SequenceInv /\ ReleaseInv /\ HeldInv /\ SeatInv

(***************************************************************************)
(* Steps that leave the seats alone                                        *)
(***************************************************************************)

\* A call that has nothing to do with a seat.
Plain(u) ==
  /\ call[u].id = None
  /\ call[u].pc # "cleanup" /\ ~Asking(u, "start") /\ ~Asking(u, "renew")
  /\ call[u].pc \in {"sent", "got", "check"} => serial = u
  /\ call[u].kind = "renew" => u = Worker

SameIds == st'.session = st.session /\ st'.pend = st.pend
Cleared == st'.session = NoSession /\ st'.pend = None

\* A call that goes on as it was.
Stays(u) ==
  /\ call'[u] = call[u]
  /\ serial = u => serial' = u
  /\ u \in current' => u \in current
  /\ u \in current' /\ (Asking(u, "start") \/ Asking(u, "renew")) => SameIds
  /\ Asking(u, "start") /\ u \in current \ current' => Cleared \/ call[u].id \in resolved'

\* A start that goes over to its cleanup.
Releases(u) ==
  /\ Asking(u, "start")
  /\ call'[u].pc = "cleanup" /\ call'[u].kind = "none" /\ call'[u].id = call[u].id
  /\ serial' = u
  /\ life' = "open" /\ call[u].id \in Tracked(st') => call[u].id \in resolved'

\* The client tracks what it tracked, or less.
Fewer ==
  /\ st'.session \in {st.session, NoSession}
  /\ st'.pend \in {st.pend, None}
  /\ Tracked(st') # {} => st'.cred
  /\ fence' = fence \/ (fence' = drawn /\ Cleared)

\* The end of each id of S is requested, if it matters.
Adds(S) ==
  /\ sent \subseteq sent' /\ sent' \subseteq sent \cup Ends(S)
  /\ \A i \in S : i \in Ids /\ i =< drawn /\ (End(i) \in sent' \/ seat[i].state = "over")
  /\ \A i \in S : End(i) \in sent' => seat[i].state # "over"
  /\ life' = "open" => S \cap Tracked(st') \subseteq resolved'

LEMMA TypeFacts ==
  ASSUME TypeOK
  PROVE  /\ st.session \in Sessions \cup {NoSession} /\ st.pend \in Ids \cup {None}
         /\ st.session # NoSession => st.session \in Sessions /\ st.session.id \in Ids /\ st.session.id # None
         /\ st.session = NoSession => st.session.id = None
         /\ None \notin Ids /\ Ids \subseteq Nat
         /\ drawn \in Nat /\ fence \in Nat
         /\ \A t \in Threads : call[t] \in Calls /\ call[t].id \in Nat
         /\ \A m \in sent : m \in Messages /\ m.id \in Ids
         /\ Tracked(st) \subseteq Ids
         /\ Worker \in Threads /\ NoThread \notin Threads
BY BoundsAssumption, TasksAssumption
   DEF TypeOK, States, Sessions, NoSession, Ids, None, Calls, Messages, Tracked, Threads

\* A step that takes no seat and tracks no new id keeps the invariant, if it
\* accounts for what it forgets.
LEMMA Calm ==
  ASSUME FloatInv, TypeOK', Fewer, NEW S, Adds(S),
         seat' = seat, drawn' = drawn, resolved \subseteq resolved', life' = "open" => life = "open",
         \A u \in Threads : Plain(u)' \/ Stays(u) \/ Releases(u),
         \A i \in Ids : seat[i].state # "over" /\ Accounted(i) => Accounted(i)'
  PROVE  FloatInv'
<1> USE TypeFacts DEF FloatInv
<1>T. TypeOK /\ \A u \in Threads : CallInv(u)
  OBVIOUS
<1>F. /\ None \notin Ids /\ None \notin Tracked(st) /\ None \notin Tracked(st')
      /\ Tracked(st') \subseteq Tracked(st)
      /\ st'.session # NoSession => st'.session = st.session
      /\ st'.pend # None => st'.pend = st.pend
      /\ NoSession.id = None
  BY DEF Fewer, Tracked, NoSession
<1>1. ASSUME NEW u \in Threads PROVE CallInv(u)'
  <2>0. call'[u] \in Calls /\ call'[u].id \in Nat
    <3>1. call' \in [Threads -> Calls]
      BY DEF TypeOK
    <3>2. \A c \in Calls : c.id \in Nat
      BY BoundsAssumption DEF Calls, Ids, None
    <3> QED BY ONLY <1>1, <3>1, <3>2
  <2>1. CASE Plain(u)'
    <3>1. ~Asking(u, "start")' /\ ~Asking(u, "renew")'
      BY <2>1 DEF Plain
    <3>2. OwnInv(u)' /\ ReplyInv(u)'
      BY <3>1 DEF OwnInv, ReplyInv
    <3>3. ShapeInv(u)'
      BY <1>T, <2>1, <3>1 DEF Plain, ShapeInv, None
    <3> QED BY <3>2, <3>3 DEF CallInv
  <2>2. CASE Stays(u)
    <3>1. call'[u] = call[u] /\ (Asking(u, "start")' <=> Asking(u, "start"))
            /\ (Asking(u, "renew")' <=> Asking(u, "renew"))
      BY <2>2 DEF Stays, Asking
    <3>2. ShapeInv(u)'
      BY <1>1, <1>T, <2>2, <3>1 DEF CallInv, ShapeInv, Stays
    <3>3. OwnInv(u)'
      BY <1>1, <1>T, <2>2, <3>1 DEF CallInv, OwnInv, Stays, SameIds
    <3>4. ReplyInv(u)'
      BY <1>1, <1>T, <2>2, <3>1 DEF CallInv, ReplyInv, Stays
    <3> QED BY <3>2, <3>3, <3>4 DEF CallInv
  <2>3. CASE Releases(u)
    BY <1>1, <1>T, <2>3, <2>0 DEF CallInv, Releases, ShapeInv, OwnInv, ReplyInv, Asking
  <2> QED BY <1>1, <2>1, <2>2, <2>3
<1>2. StateInv'
  BY <1>F, <1>T DEF StateInv, Fewer, Cleared
<1>M. \A m \in sent' : m \in sent \/ (m.op = "end" /\ m.id \in S /\ m = End(m.id))
  BY DEF Adds, Ends, End
<1>3. ServerInv'
  <2>1. ASSUME NEW m \in sent'
        PROVE  /\ m.id =< drawn /\ seat[m.id].state # "over"
               /\ m.op = "start" => seat[m.id].state = "none"
               /\ m.op = "renew" => seat[m.id].seq < m.seq
    <3>1. CASE m \in sent
      BY <3>1 DEF ServerInv
    <3>2. CASE m \notin sent
      BY <1>M, <2>1, <3>2 DEF Adds
    <3> QED BY <3>1, <3>2
  <2> QED BY <2>1, <1>F DEF ServerInv
<1>R. \A u \in Threads : Asking(u, "renew")' => Asking(u, "renew") /\ call'[u] = call[u]
  BY DEF Plain, Stays, Releases, Asking
<1>4. SequenceInv'
  BY <1>F, <1>M, <1>R DEF SequenceInv
<1>5. ReleaseInv'
  <2> SUFFICES ASSUME life' = "open", NEW i \in Tracked(st'), i \notin resolved' PROVE Unreleased(i)'
    BY DEF ReleaseInv
  <2>1. life = "open" /\ i \in Tracked(st) \ resolved /\ i \in Ids
    BY <1>F, <1>T
  <2>2. Unreleased(i)
    BY <2>1 DEF ReleaseInv
  <2>3. i \notin S
    BY DEF Adds
  <2>4. End(i) \notin sent'
    BY <2>2, <2>3, <1>M DEF Unreleased, End
  <2>5. ASSUME NEW u \in Threads, call'[u].id = i
        PROVE  call'[u].pc # "cleanup" /\ (Asking(u, "start")' => u \in current')
    <3>1. CASE Plain(u)'
      BY <2>1, <2>5, <3>1, <1>F DEF Plain
    <3>2. CASE Stays(u)
      <4>1. call'[u] = call[u] /\ (Asking(u, "start")' <=> Asking(u, "start"))
        BY <3>2 DEF Stays, Asking
      <4>2. call[u].id = i /\ call[u].pc # "cleanup" /\ (Asking(u, "start") => u \in current)
        BY <2>2, <2>5, <4>1 DEF Unreleased
      <4>3. ~Cleared
        BY <1>F DEF Cleared, Tracked
      <4> QED BY <3>2, <4>1, <4>2, <4>3 DEF Stays
    <3>3. CASE Releases(u)
      BY <2>5, <3>3 DEF Releases
    <3> QED BY <2>5, <3>1, <3>2, <3>3
  <2> QED BY <2>4, <2>5 DEF Unreleased
<1>6. HeldInv'
  <2> SUFFICES ASSUME life' = "open"
               PROVE  /\ (Online(st, TRUE) /\ st.session.id \notin resolved => seat[st.session.id].state = "held")'
                      /\ \A u \in Threads :
                           call'[u].pc = "got" /\ call'[u].reply = "ok" /\ call'[u].stage # "over"
                             /\ call'[u].id \in Tracked(st') \ resolved' => seat[call'[u].id].state = "held"
    BY DEF HeldInv
  <2>1. HeldInv /\ life = "open"
    OBVIOUS
  <2>2. \A u \in Threads : call'[u].pc = "got" /\ call'[u].id # None => call'[u] = call[u]
    BY DEF Plain, Stays, Releases
  <2>3. \A u \in Threads : call'[u].id \in Tracked(st') => call'[u].id # None
    BY <1>F
  <2>4. \A u \in Threads :
          call'[u].pc = "got" /\ call'[u].reply = "ok" /\ call'[u].stage # "over"
            /\ call'[u].id \in Tracked(st') \ resolved' => seat[call'[u].id].state = "held"
    BY <1>F, <2>1, <2>2, <2>3 DEF HeldInv
  <2>5. (Online(st, TRUE) /\ st.session.id \notin resolved => seat[st.session.id].state = "held")'
    BY <1>F, <2>1 DEF HeldInv, Online
  <2> QED BY <2>4, <2>5
<1>7. SeatInv'
  <2> SUFFICES ASSUME NEW i \in Ids, seat'[i].state = "held" \/ Start(i) \in sent' PROVE Accounted(i)'
    BY DEF SeatInv
  <2>1. Start(i) \in sent' => Start(i) \in sent
    BY <1>M DEF Start
  <2>2. Start(i) \in sent => seat[i].state = "none"
    BY DEF ServerInv, Start
  <2>3. Accounted(i)
    BY <2>1 DEF SeatInv
  <2> QED BY <2>1, <2>2, <2>3
<1> QED BY <1>1, <1>2, <1>3, <1>4, <1>5, <1>6, <1>7

\* The calls after a step of t, which is free of any seat after it.  Other
\* calls keep their generation and the ids, or lose the generation with them,
\* or are not asking because t has the lock.
Moves(t, c) ==
  /\ c \in Calls
  /\ c.id = None /\ c.pc # "cleanup"
  /\ c.kind \in {"start", "renew"} => c.pc \notin {"sent", "got"}
  /\ c.pc \in {"sent", "got", "check"} => serial' = t
  /\ c.kind = "renew" => t = Worker
  /\ Set(t, c)
  /\ serial' = serial \/ (serial \in {NoThread, t} /\ serial' \in Threads \cup {NoThread})
  /\ current' \subseteq current \cup {t}
  /\ \/ SameIds /\ current \subseteq current' \cup {t}
     \/ Cleared /\ current' \subseteq {t}
     \/ serial \in {NoThread, t}

LEMMA OthersStay ==
  ASSUME FloatInv, NEW t \in Threads, NEW c, Moves(t, c)
  PROVE  /\ \A u \in Threads : Plain(u)' \/ Stays(u) \/ Releases(u)
         /\ call' \in [Threads -> Calls] /\ serial' \in Threads \cup {NoThread} /\ current' \subseteq Threads
<1> USE DEF FloatInv
<1>0. TypeOK /\ NoThread \notin Threads
  BY TypeFacts
<1>1. call' \in [Threads -> Calls] /\ call'[t] = c /\ \A u \in Threads : u # t => call'[u] = call[u]
  BY <1>0 DEF Moves, Set, TypeOK
<1>2. Plain(t)'
  BY <1>1 DEF Moves, Plain, Asking
<1>3. ASSUME NEW u \in Threads, u # t PROVE Stays(u)
  <2>1. CallInv(u) /\ call'[u] = call[u]
    BY <1>1, <1>3
  <2>2. serial = u => serial' = u
    BY <1>0, <1>3 DEF Moves
  <2>3. Asking(u, "start") \/ Asking(u, "renew") => serial \notin {NoThread, t}
    BY <1>0, <1>3, <2>1 DEF Asking, CallInv, ShapeInv
  <2> QED BY <1>3, <2>1, <2>2, <2>3 DEF Stays, Moves
<1> QED BY <1>0, <1>1, <1>2, <1>3 DEF Moves, TypeOK

\* Ids are given up as Drops says, and nothing else is lost track of.
LEMMA Dropping ==
  ASSUME FloatInv, NEW S \in SUBSET Ids, Drops(S), sent \subseteq sent',
         Tracked(st) \subseteq S \cup Tracked(st'),
         \A u \in Threads : call'[u] = call[u] \/ call[u].id = None
                              \/ (call[u].pc # "cleanup" /\ call[u].kind # "start")
  PROVE  /\ \A i \in Ids : seat[i].state # "over" /\ Accounted(i) => Accounted(i)'
         /\ dropped' \subseteq Ids
<1> USE DEF FloatInv
<1>1. dropped \subseteq dropped' /\ dropped' \subseteq Ids
  BY DEF Drops, TypeOK
<1>2. ASSUME NEW i \in Ids, Attempted(i) PROVE Attempted(i)'
  BY <1>2, TypeFacts DEF Attempted
<1>3. ASSUME NEW i \in Ids, seat[i].state # "over", Accounted(i) PROVE Accounted(i)'
  <2>1. CASE i \in Tracked(st)
    <3>1. i \in S => i \in dropped' \/ End(i) \in sent \/ Attempted(i)
      BY <1>3 DEF Drops, Over
    <3> QED BY <1>1, <1>2, <2>1, <3>1 DEF Accounted
  <2>2. CASE i \notin Tracked(st)
    BY <1>1, <1>2, <1>3, <2>2 DEF Accounted
  <2> QED BY <2>1, <2>2
<1> QED BY <1>1, <1>3

\* The same, if nothing is given up.
LEMMA Keeping ==
  ASSUME FloatInv, dropped' = dropped, sent \subseteq sent', Tracked(st) \subseteq Tracked(st'),
         \A u \in Threads : call'[u] = call[u] \/ call[u].id = None
                              \/ (call[u].pc # "cleanup" /\ call[u].kind # "start")
  PROVE  \A i \in Ids : seat[i].state # "over" /\ Accounted(i) => Accounted(i)'
<1>1. Drops({})
  BY DEF Drops
<1> QED BY <1>1, Dropping

LEMMA FewerTypes ==
  ASSUME FloatInv, Fewer, st' \in States, life' \in {"open", "closing", "closed"},
         serial' \in Threads \cup {NoThread}, current' \subseteq Threads, call' \in [Threads -> Calls],
         drawn' = drawn, seat' = seat, sent' \subseteq Messages, dropped' \subseteq Ids, resolved' \subseteq Ids
  PROVE  TypeOK'
BY DEF FloatInv, TypeOK, Fewer

\* A step of t that sends nothing of seats and gives up the ids of S.
LEMMA Ordinary ==
  ASSUME FloatInv, NEW t \in Threads, NEW c, Moves(t, c), Fewer, st' \in States,
         NEW S \in SUBSET Ids, Drops(S), Tracked(st) \subseteq S \cup Tracked(st'),
         call[t].id = None \/ (call[t].pc # "cleanup" /\ call[t].kind # "start"),
         UNCHANGED <<life, drawn, sent, seat, resolved>>
  PROVE  FloatInv'
<1>1. /\ \A u \in Threads : Plain(u)' \/ Stays(u) \/ Releases(u)
      /\ call' \in [Threads -> Calls] /\ serial' \in Threads \cup {NoThread} /\ current' \subseteq Threads
  BY OthersStay
<1>2. \A u \in Threads : u # t => call'[u] = call[u]
  BY DEF Moves, Set, FloatInv, TypeOK
<1>3. \A u \in Threads : call'[u] = call[u] \/ call[u].id = None
                           \/ (call[u].pc # "cleanup" /\ call[u].kind # "start")
  BY <1>2
<1>4. /\ \A i \in Ids : seat[i].state # "over" /\ Accounted(i) => Accounted(i)'
      /\ dropped' \subseteq Ids
  BY <1>3, Dropping
<1>5. TypeOK'
  BY <1>1, <1>4, FewerTypes DEF FloatInv, TypeOK
<1>6. Adds({})
  BY DEF Adds
<1> QED BY <1>1, <1>4, <1>5, <1>6, Calm

\* A step of t that leaves the session fields alone.
LEMMA Simple ==
  ASSUME FloatInv, NEW t \in Threads, NEW c, Moves(t, c), st' \in States, SameIds, st.cred => st'.cred,
         call[t].id = None \/ (call[t].pc # "cleanup" /\ call[t].kind # "start"),
         UNCHANGED <<life, drawn, server, history>>
  PROVE  FloatInv'
<1>1. Drops({}) /\ Tracked(st) \subseteq {} \cup Tracked(st')
  BY DEF Drops, history, SameIds, Tracked
<1>2. Fewer
  BY DEF Fewer, SameIds, history, FloatInv, StateInv, Tracked
<1>3. UNCHANGED <<life, drawn, sent, seat, resolved>>
  BY DEF server, history
<1> QED BY <1>1, <1>2, <1>3, Ordinary

LEMMA IdleTypes ==
  /\ Idle \in Calls
  /\ \A p \in {"enter", "end"} : [Idle EXCEPT !.pc = p] \in Calls
  /\ \A k \in {"start", "activate", "refresh"} : [Idle EXCEPT !.pc = "gen", !.kind = k] \in Calls
  /\ [Idle EXCEPT !.pc = "gen", !.kind = "start", !.explicit = TRUE] \in Calls
  /\ \A w \in {"start", "end"} : [Idle EXCEPT !.pc = "gen", !.kind = "refresh", !.then = w] \in Calls
  /\ [Idle EXCEPT !.pc = "wait", !.kind = "renew"] \in Calls
  /\ \A w \in {"return", "start", "end"} : [Idle EXCEPT !.pc = "check", !.then = w] \in Calls
  /\ \A i \in Ids : [Idle EXCEPT !.pc = "cleanup", !.id = i] \in Calls
<1>1. Idle \in Calls
  BY BoundsAssumption DEF Idle, Calls, Replies, Stages, None, Ids
<1>2. ASSUME NEW p \in {"enter", "end"} PROVE [Idle EXCEPT !.pc = p] \in Calls
  BY <1>1 DEF Calls
<1>3. ASSUME NEW k \in {"start", "activate", "refresh"} PROVE [Idle EXCEPT !.pc = "gen", !.kind = k] \in Calls
  BY <1>1 DEF Calls
<1>4. [Idle EXCEPT !.pc = "gen", !.kind = "start", !.explicit = TRUE] \in Calls
  BY <1>1 DEF Calls
<1>5. ASSUME NEW w \in {"start", "end"}
      PROVE  [Idle EXCEPT !.pc = "gen", !.kind = "refresh", !.then = w] \in Calls
  BY <1>1 DEF Calls
<1>6. [Idle EXCEPT !.pc = "wait", !.kind = "renew"] \in Calls
  BY <1>1 DEF Calls
<1>7. ASSUME NEW w \in {"return", "start", "end"} PROVE [Idle EXCEPT !.pc = "check", !.then = w] \in Calls
  BY <1>1 DEF Calls
<1>8. ASSUME NEW i \in Ids PROVE [Idle EXCEPT !.pc = "cleanup", !.id = i] \in Calls
  BY <1>1 DEF Calls
<1> QED BY <1>1, <1>2, <1>3, <1>4, <1>5, <1>6, <1>7, <1>8

\* What happens to the ids and the generations of others.
Fair(t) ==
  /\ current' \subseteq current \cup {t}
  /\ \/ SameIds /\ current \subseteq current' \cup {t}
     \/ Cleared /\ current' \subseteq {t}
     \/ serial \in {NoThread, t}

LEMMA LeaveMoves ==
  ASSUME FloatInv, NEW t \in Threads, Leave(t), Fair(t)
  PROVE  Moves(t, Idle)
<1>1. serial' = serial \/ (serial \in {NoThread, t} /\ serial' \in Threads \cup {NoThread})
  BY DEF Leave, Freed
<1> QED BY <1>1, IdleTypes DEF Moves, Leave, Fair, Idle

LEMMA FinishMoves ==
  ASSUME FloatInv, NEW t \in Threads, Finish(t), Fair(t)
  PROVE  \E c : Moves(t, c)
<1>1. serial' = serial \/ (serial \in {NoThread, t} /\ serial' \in Threads \cup {NoThread})
  BY DEF Finish, Freed
<1>2. call[t].then \in {"return", "start", "end"}
  BY DEF FloatInv, TypeOK, Calls
<1>3. CASE call[t].then = "return"
  <2>1. Set(t, Idle)
    BY <1>3 DEF Finish
  <2>2. Moves(t, Idle)
    BY <1>1, <2>1, IdleTypes DEF Moves, Fair, Idle
  <2> QED BY <2>2
<1>4. CASE call[t].then = "start"
  <2> DEFINE c == [Idle EXCEPT !.pc = "gen", !.kind = "start", !.explicit = TRUE]
  <2>1. Set(t, c)
    BY <1>4 DEF Finish
  <2>2. Moves(t, c)
    BY <1>1, <2>1, IdleTypes DEF Moves, Fair, Idle
  <2> QED BY <2>2
<1>5. CASE call[t].then = "end"
  <2> DEFINE c == [Idle EXCEPT !.pc = "end"]
  <2>1. Set(t, c)
    BY <1>5 DEF Finish
  <2>2. Moves(t, c)
    BY <1>1, <2>1, IdleTypes DEF Moves, Fair, Idle
  <2> QED BY <2>2
<1> QED BY <1>2, <1>3, <1>4, <1>5

\* Facts every step starts from.
LEMMA Facts ==
  ASSUME FloatInv
  PROVE  /\ TypeOK /\ st \in States /\ current \subseteq Threads
         /\ \A t \in Threads : /\ CallInv(t) /\ ShapeInv(t) /\ call[t] \in Calls
                               /\ call[t].pc \notin {"sent", "got", "cleanup"} => call[t].id = None
                               /\ call[t].kind \in {"activate", "refresh"} => call[t].kind # "start"
         /\ dropped' = dropped => Drops({})
BY DEF FloatInv, TypeOK, CallInv, ShapeInv, Drops

(***************************************************************************)
(* Calls begin                                                             *)
(***************************************************************************)

LEMMA BeginningStep ==
  ASSUME FloatInv, NEW t \in Threads, Beginning(t)
  PROVE  FloatInv'
<1> USE Facts
<1>0. call[t].pc = "idle" /\ call[t].id = None
  BY DEF Beginning, StartSession, RequireAccess, EndSession, Request
<1>1. CASE StartSession(t) \/ RequireAccess(t)
  <2>1. Moves(t, [Idle EXCEPT !.pc = "enter"])
    BY <1>1, IdleTypes DEF StartSession, RequireAccess, Moves, SameIds, Idle
  <2>2. SameIds /\ UNCHANGED <<st, life, drawn, server, history>>
    BY <1>1 DEF StartSession, RequireAccess, SameIds
  <2> QED BY <1>0, <2>1, <2>2, Simple
<1>2. ASSUME NEW k \in {"activate", "refresh"}, Request(t, k) PROVE FloatInv'
  <2>1. Moves(t, [Idle EXCEPT !.pc = "gen", !.kind = k])
    BY <1>2, IdleTypes DEF Request, Moves, SameIds, Idle
  <2>2. SameIds /\ UNCHANGED <<st, life, drawn, server, history>>
    BY <1>2 DEF Request, SameIds
  <2> QED BY <1>0, <2>1, <2>2, Simple
<1>3. CASE EndSession(t)
  <2>1. /\ st' \in {st, [st EXCEPT !.disabled = TRUE]}
        /\ UNCHANGED <<life, serial, current, drawn, server, history>>
    BY <1>3 DEF EndSession
  <2>2. SameIds /\ st' \in States /\ st'.cred = st.cred
    BY <2>1 DEF SameIds, States
  <2>3. Fair(t)
    BY <2>1, <2>2 DEF Fair
  <2>4. \E c : Moves(t, c)
    <3>1. CASE call' = call
      <4>1. Set(t, call[t]) /\ call[t] \in Calls
        BY <3>1 DEF Set, TypeOK
      <4>2. call[t].kind = "renew" => t = Worker
        BY DEF ShapeInv
      <4>3. Moves(t, call[t])
        BY <1>0, <2>1, <2>3, <4>1, <4>2 DEF Moves, Fair
      <4> QED BY <4>3
    <3>2. CASE Set(t, [Idle EXCEPT !.pc = "gen", !.kind = "refresh", !.then = "end"])
      <4>1. Moves(t, [Idle EXCEPT !.pc = "gen", !.kind = "refresh", !.then = "end"])
        BY <2>1, <2>3, <3>2, IdleTypes DEF Moves, Fair, Idle
      <4> QED BY <4>1
    <3>3. CASE Set(t, [Idle EXCEPT !.pc = "end"])
      <4>1. Moves(t, [Idle EXCEPT !.pc = "end"])
        BY <2>1, <2>3, <3>3, IdleTypes DEF Moves, Fair, Idle
      <4> QED BY <4>1
    <3> QED BY <1>3, <3>1, <3>2, <3>3 DEF EndSession
  <2> QED BY <1>0, <2>1, <2>2, <2>4, Simple
<1> QED BY <1>1, <1>2, <1>3 DEF Beginning

\* generation(), the lock, and calls that end without an effect.
LEMMA WaitStep ==
  ASSUME FloatInv, NEW t \in Threads,
         Gen(t) \/ RunStale(t) \/ Enter(t) \/ RefreshSends(t) \/ RequestSkipped(t) \/ RenewNothing(t)
  PROVE  FloatInv'
<1> USE Facts
<1>0. /\ call[t].pc \in {"gen", "wait", "enter"} /\ call[t].id = None
      /\ SameIds /\ UNCHANGED <<st, life, drawn, server, history>>
  BY DEF Gen, RunStale, Enter, RefreshSends, RequestSkipped, RenewNothing, Runs, Renewing, SameIds
<1>1. ASSUME Fail(t) PROVE \E c : Moves(t, c)
  <2>1. Fair(t) /\ Leave(t)
    BY <1>0, <1>1 DEF Fail, Fair
  <2> QED BY <2>1, LeaveMoves
<1>2. ASSUME Goto(t, "wait"), current' = current \cup {t}, UNCHANGED serial PROVE \E c : Moves(t, c)
  <2> DEFINE c == [call[t] EXCEPT !.pc = "wait"]
  <2>1. c \in Calls /\ c.pc = "wait" /\ c.id = None /\ c.kind = call[t].kind
    BY <1>0 DEF Calls
  <2>2. call[t].kind = "renew" => t = Worker
    BY DEF ShapeInv
  <2>3. Moves(t, c)
    BY <1>0, <1>2, <2>1, <2>2 DEF Moves, Goto, SameIds
  <2> QED BY <2>3
<1>3. ASSUME Enter(t) PROVE \E c : Moves(t, c)
  <2> USE <1>0, <1>3, IdleTypes DEF Enter, Moves, Idle
  <2>1. CASE Set(t, Idle)
    <3>1. Moves(t, Idle)
      BY <2>1
    <3> QED BY <3>1
  <2>2. CASE Set(t, [Idle EXCEPT !.pc = "gen", !.kind = "refresh", !.then = "start"])
    <3>1. Moves(t, [Idle EXCEPT !.pc = "gen", !.kind = "refresh", !.then = "start"])
      BY <2>2
    <3> QED BY <3>1
  <2>3. CASE Set(t, [Idle EXCEPT !.pc = "gen", !.kind = "start", !.explicit = TRUE])
    <3>1. Moves(t, [Idle EXCEPT !.pc = "gen", !.kind = "start", !.explicit = TRUE])
      BY <2>3
    <3> QED BY <3>1
  <2> QED BY <2>1, <2>2, <2>3
<1>4. ASSUME RefreshSends(t) PROVE \E c : Moves(t, c)
  <2> DEFINE c == [call[t] EXCEPT !.pc = "sent"]
  <2>1. c \in Calls /\ c.pc = "sent" /\ c.id = None /\ c.kind = "refresh"
    BY <1>0, <1>4 DEF Calls, RefreshSends
  <2>2. Moves(t, c)
    BY <1>0, <1>4, <2>1 DEF Moves, Goto, RefreshSends, Runs, SameIds
  <2> QED BY <2>2
<1>5. \E c : Moves(t, c)
  BY <1>1, <1>2, <1>3, <1>4 DEF Gen, RunStale, RequestSkipped, RenewNothing
<1> QED BY <1>0, <1>5, Simple

\* end_session, second section.
LEMMA SendEnds ==
  ASSUME FloatInv, NEW S \in SUBSET Ids, \A i \in S : i =< drawn, Send(Ends(S)),
         life' = "open" => S \cap Tracked(st') \subseteq resolved'
  PROVE  Adds(S) /\ sent' \subseteq Messages
<1>1. ASSUME NEW i \in Ids
      PROVE /\ End(i).id = i /\ End(i).op = "end" /\ End(i) \in Messages
            /\ seat[i] # Over <=> seat[i].state # "over"
  BY DEF FloatInv, ServerInv, End, Over, Messages
<1>2. \A m \in sent : m \in Messages /\ m.id \in Ids /\ m \in Pending(sent \cup Ends(S), seat)
  <2> SUFFICES ASSUME NEW m \in sent
               PROVE  m \in Messages /\ m.id \in Ids /\ m \in Pending(sent \cup Ends(S), seat)
    OBVIOUS
  <2>1. m \in Messages /\ m.id \in Ids /\ m.op \in {"start", "end", "renew"}
    BY DEF FloatInv, TypeOK, Messages
  <2>2. /\ seat[m.id].state # "over"
        /\ m.op = "start" => seat[m.id].state = "none"
        /\ m.op = "renew" => seat[m.id].seq < m.seq
    BY DEF FloatInv, ServerInv
  <2> QED BY <2>1, <2>2, <1>1 DEF Pending
<1>3. \A i \in S : End(i) \in sent' <=> seat[i].state # "over"
  BY <1>1 DEF Send, Ends, Pending
<1>4. sent' \subseteq sent \cup Ends(S) /\ sent \subseteq sent'
  BY <1>2 DEF Send, Pending
<1> QED BY <1>1, <1>2, <1>3, <1>4 DEF Adds, Ends

\* What is held is released, and is all that is tracked.
LEMMA HeldIds ==
  ASSUME FloatInv
  PROVE  Held(st) = Tracked(st) /\ \A i \in Tracked(st) : i =< drawn
BY TypeFacts DEF FloatInv, Held, Tracked, StateInv

LEMMA EndNowStep ==
  ASSUME FloatInv, NEW t \in Threads, EndNow(t)
  PROVE  FloatInv'
<1> USE Facts
<1>0. call[t].pc = "end" /\ call[t].id = None /\ Leave(t)
  BY DEF EndNow
<1>1. CASE ~(life = "open" /\ st.policy # "ordinary" /\ st.cred)
  <2>1. SameIds /\ UNCHANGED <<st, life, drawn, server, history>> /\ current' = current \ {t}
    BY <1>1 DEF EndNow, SameIds, server, history
  <2>2. Moves(t, Idle)
    BY <1>0, <2>1, LeaveMoves DEF Fair
  <2> QED BY <1>0, <2>1, <2>2, Simple
<1>2. CASE life = "open" /\ st.policy # "ordinary" /\ st.cred
  <2>1. /\ st' = [st EXCEPT !.session = NoSession, !.pend = None, !.disabled = TRUE, !.retry = FALSE]
        /\ current' = {} /\ Send(Ends(Held(st))) /\ fence' = drawn
        /\ UNCHANGED <<life, drawn, seat, dropped, resolved>>
    BY <1>2 DEF EndNow
  <2>2. Cleared /\ st' \in States /\ Tracked(st') = {}
    BY <2>1 DEF Cleared, States, Tracked, NoSession
  <2>3. Fewer
    BY <2>1, <2>2 DEF Fewer, Cleared
  <2>4. Moves(t, Idle)
    BY <1>0, <2>1, <2>2, LeaveMoves DEF Fair
  <2>5. Adds(Tracked(st)) /\ sent' \subseteq Messages
    BY <2>1, <2>2, SendEnds, HeldIds, TypeFacts
  <2>6. /\ \A u \in Threads : Plain(u)' \/ Stays(u) \/ Releases(u)
        /\ call' \in [Threads -> Calls] /\ serial' \in Threads \cup {NoThread} /\ current' \subseteq Threads
    BY <2>4, OthersStay
  <2>7. TypeOK'
    BY <2>1, <2>2, <2>3, <2>5, <2>6, FewerTypes DEF TypeOK
  <2>8. ASSUME NEW i \in Ids, seat[i].state # "over", Accounted(i) PROVE Accounted(i)'
    <3>1. CASE i \in Tracked(st)
      BY <2>5, <2>8, <3>1 DEF Adds, Accounted
    <3>2. Attempted(i) => Attempted(i)'
      BY <1>0, TypeFacts DEF Attempted, Leave, Set, TypeOK
    <3>3. CASE i \notin Tracked(st)
      BY <2>1, <2>5, <2>8, <3>2, <3>3 DEF Adds, Accounted
    <3> QED BY <3>1, <3>3
  <2> QED BY <2>1, <2>3, <2>5, <2>6, <2>7, <2>8, Calm
<1> QED BY <1>1, <1>2

(***************************************************************************)
(* start_session                                                           *)
(***************************************************************************)

\* While one call may take the lock, or has it, no other waits for an answer.
LEMMA Alone ==
  ASSUME FloatInv, NEW t \in Threads, serial \in {NoThread, t}
  PROVE  \A u \in Threads : u # t =>
           /\ call[u].pc \notin {"sent", "got", "check", "cleanup"} /\ call[u].id = None
           /\ ~Asking(u, "start") /\ ~Asking(u, "renew")
BY Facts, TypeFacts DEF ShapeInv, Asking

LEMMA SendKeeps ==
  ASSUME FloatInv, NEW M \in SUBSET Messages, Send(M)
  PROVE  /\ sent \subseteq sent' /\ sent' \subseteq sent \cup M /\ sent' \subseteq Messages
         /\ \A m \in sent' : /\ seat[m.id].state # "over"
                             /\ m.op = "start" => seat[m.id].state = "none"
                             /\ m.op = "renew" => seat[m.id].seq < m.seq
<1>1. ASSUME NEW m \in sent \cup M
      PROVE  /\ m \in Messages /\ m.id \in Ids /\ m.op \in {"start", "end", "renew"}
             /\ seat[m.id] # Over <=> seat[m.id].state # "over"
  BY DEF FloatInv, TypeOK, Messages, ServerInv, Over
<1>2. ASSUME NEW m \in sent PROVE m \in sent'
  <2>1. /\ seat[m.id].state # "over"
        /\ m.op = "start" => seat[m.id].state = "none"
        /\ m.op = "renew" => seat[m.id].seq < m.seq
    BY DEF FloatInv, ServerInv
  <2> QED BY <1>1, <2>1 DEF Send, Pending
<1>3. ASSUME NEW m \in sent'
      PROVE  /\ m \in sent \cup M /\ m \in Messages
             /\ seat[m.id].state # "over"
             /\ m.op = "start" => seat[m.id].state = "none"
             /\ m.op = "renew" => seat[m.id].seq < m.seq
  <2>1. m \in sent \cup M
    BY DEF Send, Pending
  <2>2. m \in Pending(sent \cup M, seat)
    BY DEF Send
  <2> QED BY <2>1, <2>2, <1>1 DEF Pending
<1> QED BY <1>2, <1>3

LEMMA AskedIs ==
  ASSUME FloatInv, NEW t \in Threads
  PROVE  /\ Asked(t) \in States /\ Asked(t).session = NoSession /\ Asked(t).cred = st.cred
         /\ IF st.session = NoSession THEN Asked(t).pend = st.pend ELSE Asked(t).pend = None
         /\ Tracked(Asked(t)) \subseteq Tracked(st)
<1>1. st \in States
  BY Facts
<1> QED BY <1>1 DEF Asked, States, Tracked, NoSession

LEMMA StartNotNeededStep ==
  ASSUME FloatInv, NEW t \in Threads, StartNotNeeded(t)
  PROVE  FloatInv'
<1> USE Facts
<1>0. call[t].pc = "wait" /\ call[t].id = None /\ serial \in {NoThread, t} /\ Finish(t)
  BY DEF StartNotNeeded, Starting, Runs
<1>1. st' \in {st, [st EXCEPT !.disabled = FALSE, !.retry = FALSE]}
  BY DEF StartNotNeeded
<1>2. SameIds /\ st' \in States /\ st'.cred = st.cred
  BY <1>1 DEF SameIds, States
<1>3. Fair(t)
  BY <1>0 DEF Fair, Finish
<1>4. PICK c : Moves(t, c)
  BY <1>0, <1>3, FinishMoves
<1> QED BY <1>0, <1>2, <1>4, Simple DEF StartNotNeeded

LEMMA StartRefusedStep ==
  ASSUME FloatInv, NEW t \in Threads, StartRefused(t)
  PROVE  FloatInv'
<1> USE Facts
<1>0. /\ call[t].pc = "wait" /\ call[t].id = None /\ serial \in {NoThread, t} /\ Fail(t)
      /\ st' = Asked(t) /\ Drops(Tracked(st) \ Tracked(st'))
      /\ UNCHANGED <<life, drawn, sent, seat, fence, resolved>>
  BY DEF StartRefused, Starting, Runs, server
<1>1. Fair(t) /\ Leave(t)
  BY <1>0 DEF Fair, Fail
<1>2. Moves(t, Idle)
  BY <1>1, LeaveMoves
<1>3. Fewer /\ st' \in States
  BY <1>0, AskedIs DEF Fewer, FloatInv, StateInv
<1>4. Tracked(st) \ Tracked(st') \in SUBSET Ids
  BY TypeFacts
<1>5. Tracked(st) \subseteq (Tracked(st) \ Tracked(st')) \cup Tracked(st')
  OBVIOUS
<1> QED BY <1>0, <1>2, <1>3, <1>4, <1>5, Ordinary

LEMMA StartSendsStep ==
  ASSUME FloatInv, NEW t \in Threads, StartSends(t)
  PROVE  FloatInv'
<1> USE Facts
<1>0. /\ call[t].pc = "wait" /\ call[t].id = None /\ serial \in {NoThread, t}
      /\ call[t].kind = "start" /\ life = "open" /\ t \in current /\ serial' = t
      /\ UNCHANGED <<life, current, seat, fence, resolved>>
  BY DEF StartSends, Starting, Runs, Stale
<1>1. PICK i \in Ids :
        /\ Asked(t).cred
        /\ i = Asked(t).pend \/ i = drawn + 1
        /\ drawn' = IF i = Asked(t).pend THEN drawn ELSE i
        /\ st' = [Asked(t) EXCEPT !.pend = i]
        /\ Drops(Tracked(st) \ {i})
        /\ Send({Start(i)})
        /\ Set(t, [call[t] EXCEPT !.pc = "sent", !.id = i, !.seq = 1])
  BY DEF StartSends
<1>2. /\ st' \in States /\ st'.session = NoSession /\ st'.pend = i /\ st'.cred /\ Tracked(st') = {i}
      /\ i \in Nat /\ i # None /\ drawn \in Nat
      /\ i = st.pend \/ (i = drawn + 1 /\ drawn' = i)
  <2>1. i \in Nat /\ i # None /\ drawn \in Nat
    BY TypeFacts
  <2>2. /\ st' \in States /\ st'.session = NoSession /\ st'.pend = i /\ st'.cred
    BY <1>1, AskedIs DEF States
  <2>3. i = st.pend \/ (i = drawn + 1 /\ drawn' = i)
    BY <1>1, <2>1, AskedIs
  <2> QED BY <2>1, <2>2, <2>3 DEF Tracked, NoSession
<1>3. /\ drawn =< drawn' /\ drawn' \in 0..MaxSessions /\ fence < i /\ i =< drawn'
      /\ fence \in Nat /\ fence =< drawn'
  <2>1. CASE i = st.pend
    <3>1. fence < i /\ i =< drawn
      BY <1>2, <2>1 DEF FloatInv, StateInv
    <3>2. drawn' \in {drawn, i} /\ (drawn' = i => i = Asked(t).pend \/ i = drawn + 1)
      BY <1>1
    <3>3. drawn' = drawn
      BY <1>1, <3>1, <3>2, <1>2
    <3> QED BY <3>1, <3>3 DEF FloatInv, TypeOK, StateInv
  <2>2. CASE i = drawn + 1 /\ drawn' = i
    BY <1>2, <2>2, BoundsAssumption DEF FloatInv, TypeOK, StateInv, Ids
  <2> QED BY <1>2, <2>1, <2>2
<1>4. /\ call' \in [Threads -> Calls]
      /\ call'[t].pc = "sent" /\ call'[t].id = i /\ call'[t].seq = 1 /\ call'[t].kind = "start"
      /\ \A u \in Threads : u # t => call'[u] = call[u]
  <2>0. 1 \in 0..MaxSequence
    BY BoundsAssumption
  <2>1. [call[t] EXCEPT !.pc = "sent", !.id = i, !.seq = 1] \in Calls
    BY <2>0 DEF Calls
  <2> QED BY <1>0, <1>1, <2>1 DEF Set, TypeOK, Calls
<1>5. Start(i) \in Messages /\ Start(i).id = i /\ Start(i).op = "start"
  BY DEF Start, Messages
<1>6. /\ sent \subseteq sent' /\ sent' \subseteq sent \cup {Start(i)} /\ sent' \subseteq Messages
      /\ \A m \in sent' : /\ seat[m.id].state # "over"
                          /\ m.op = "start" => seat[m.id].state = "none"
                          /\ m.op = "renew" => seat[m.id].seq < m.seq
  BY <1>1, <1>5, SendKeeps
<1>7. /\ \A j \in Ids : seat[j].state # "over" /\ Accounted(j) => Accounted(j)'
      /\ dropped' \subseteq Ids
  <2>1. Tracked(st) \ {i} \in SUBSET Ids /\ Tracked(st) \subseteq (Tracked(st) \ {i}) \cup Tracked(st')
    BY <1>2, TypeFacts
  <2>2. \A u \in Threads : call'[u] = call[u] \/ call[u].id = None
    BY <1>0, <1>4
  <2> QED BY <1>1, <1>6, <2>1, <2>2, Dropping
<1>8. TypeOK'
  BY <1>0, <1>2, <1>3, <1>4, <1>6, <1>7 DEF TypeOK
<1>9. \A u \in Threads : u # t =>
        /\ call[u].pc \notin {"sent", "got", "check", "cleanup"} /\ call[u].id = None
        /\ ~Asking(u, "start") /\ ~Asking(u, "renew")
  BY <1>0, Alone
<1>10. ASSUME NEW u \in Threads PROVE CallInv(u)'
  <2>1. CASE u = t
    BY <1>0, <1>2, <1>3, <1>4, <2>1 DEF CallInv, ShapeInv, OwnInv, ReplyInv, Asking
  <2>2. CASE u # t
    <3>1. call'[u] = call[u] /\ ShapeInv(u) /\ None =< drawn'
      BY <1>2, <1>3, <1>4, <2>2 DEF None
    <3> QED BY <1>9, <2>2, <3>1 DEF CallInv, ShapeInv, OwnInv, ReplyInv, Asking
  <2> QED BY <2>1, <2>2
<1>11. StateInv'
  BY <1>0, <1>2, <1>3 DEF StateInv
<1>12. ServerInv'
  <2>1. ASSUME NEW m \in sent' PROVE m.id =< drawn'
    <3>1. CASE m \in sent
      <4>1. m.id =< drawn /\ m.id \in Nat
        BY <3>1, TypeFacts DEF FloatInv, ServerInv
      <4> QED BY <1>2, <1>3, <4>1
    <3>2. CASE m \notin sent
      BY <1>3, <1>5, <1>6, <2>1, <3>2
    <3> QED BY <3>1, <3>2
  <2>2. \A j \in Ids : drawn' < j => drawn < j
    BY <1>2, <1>3, TypeFacts
  <2>3. \A j \in Ids : (drawn < j => seat[j].state = "none") /\ (seat[j].state = "over" => seat[j] = Over)
    BY DEF FloatInv, ServerInv
  <2> QED BY <1>0, <1>2, <1>6, <2>1, <2>2, <2>3 DEF ServerInv
<1>13. SequenceInv'
  <2>1. seat[i].state = "held" => seat[i].seq = 1
    BY <1>2 DEF FloatInv, SequenceInv, ServerInv
  <2>2. ASSUME NEW m \in sent', m.op = "renew" PROVE m.id # i
    <3>1. m \in sent
      BY <1>5, <1>6, <2>2
    <3>2. m.id =< drawn /\ m.id \in Nat
      BY <3>1, TypeFacts DEF FloatInv, ServerInv
    <3> QED BY <1>2, <2>2, <3>1, <3>2 DEF FloatInv, SequenceInv
  <2>3. \A u \in Threads : ~Asking(u, "renew")'
    BY <1>4, <1>9 DEF Asking
  <2> QED BY <1>0, <1>2, <2>1, <2>2, <2>3 DEF SequenceInv
<1>14. ReleaseInv'
  <2> SUFFICES ASSUME i \notin resolved PROVE Unreleased(i)'
    BY <1>0, <1>2 DEF ReleaseInv
  <2>1. End(i) \notin sent
    <3>1. CASE i = st.pend
      <4>1. i \in Tracked(st)
        BY <1>2, <3>1 DEF Tracked
      <4> QED BY <1>0, <4>1 DEF FloatInv, ReleaseInv, Unreleased
    <3>2. CASE i = drawn + 1
      <4>1. End(i).id = i
        BY DEF End
      <4> QED BY <1>2, <3>2, <4>1 DEF FloatInv, ServerInv
    <3> QED BY <1>2, <3>1, <3>2
  <2>2. End(i) \notin sent'
    BY <1>6, <2>1 DEF End, Start
  <2>3. \A u \in Threads : call'[u].id = i => u = t
    BY <1>2, <1>4, <1>9
  <2> QED BY <1>0, <1>4, <2>2, <2>3 DEF Unreleased
<1>15. HeldInv'
  <2>1. \A u \in Threads : call'[u].pc # "got"
    BY <1>4, <1>9
  <2> QED BY <1>2, <2>1 DEF HeldInv, Online
<1>16. SeatInv'
  <2> SUFFICES ASSUME NEW j \in Ids, seat'[j].state = "held" \/ Start(j) \in sent' PROVE Accounted(j)'
    BY DEF SeatInv
  <2>1. CASE j = i
    BY <1>2, <2>1 DEF Accounted
  <2>2. CASE j # i
    <3>1. Start(j) \in sent' => Start(j) \in sent
      BY <1>6, <2>2 DEF Start
    <3>2. Start(j).id = j
      BY DEF Start
    <3>3. seat[j].state # "over"
      BY <1>0, <1>6, <3>2
    <3>4. Accounted(j)
      BY <1>0, <3>1 DEF FloatInv, SeatInv
    <3> QED BY <1>7, <3>3, <3>4
  <2> QED BY <2>1, <2>2
<1> QED BY <1>8, <1>10, <1>11, <1>12, <1>13, <1>14, <1>15, <1>16 DEF FloatInv

\* An answer of a start.
LEMMA AnsweredIs ==
  ASSUME FloatInv, NEW t \in Threads, StartAnswered(t)
  PROVE  /\ call[t].pc = "got" /\ Asking(t, "start") /\ serial = t
         /\ call[t].id \in Ids /\ call[t].id # None
         /\ t \in current => st.session = NoSession /\ st.pend = call[t].id /\ Tracked(st) = {call[t].id}
         /\ \A u \in Threads : u # t =>
              /\ call[u].pc \notin {"sent", "got", "check", "cleanup"} /\ call[u].id = None
              /\ ~Asking(u, "start") /\ ~Asking(u, "renew")
<1>1. call[t].pc = "got" /\ Asking(t, "start") /\ serial = t /\ call[t].id \in Ids
  BY Facts DEF StartAnswered, Asking, ShapeInv
<1>2. t \in current => st.session = NoSession /\ st.pend = call[t].id
  BY <1>1, Facts DEF CallInv, OwnInv
<1> QED BY <1>1, <1>2, Alone, TypeFacts, Facts DEF Tracked

\* A start goes over to its cleanup: nobody works with its id any more.
LEMMA ReleaseStep ==
  ASSUME FloatInv, NEW t \in Threads, StartAnswered(t), Release(t), st' \in States,
         SameIds \/ (t \in current /\ Cleared),
         life = "open" /\ t \in current => Cleared,
         st'.cred = st.cred,
         UNCHANGED <<life, serial, current, drawn, server, history>>
  PROVE  FloatInv'
<1> USE AnsweredIs
<1>1. [Idle EXCEPT !.pc = "cleanup", !.id = call[t].id] \in Calls
  BY IdleTypes
<1>2. /\ call' \in [Threads -> Calls] /\ \A u \in Threads : u # t => call'[u] = call[u]
      /\ call'[t].pc = "cleanup" /\ call'[t].id = call[t].id /\ call'[t].kind = "none"
  BY <1>1, Facts DEF Release, Set, TypeOK, Idle
<1>3. Releases(t)
  <2>1. ASSUME life' = "open", call[t].id \in Tracked(st') PROVE call[t].id \in resolved'
    <3>1. ~Cleared /\ life = "open"
      BY <2>1 DEF Cleared, Tracked, NoSession
    <3>2. t \notin current /\ Tracked(st') = Tracked(st)
      BY <3>1 DEF SameIds, Tracked
    <3>3. ~Unreleased(call[t].id)
      BY <3>2 DEF Unreleased
    <3>4. call[t].id \in resolved
      BY <2>1, <3>1, <3>2, <3>3 DEF FloatInv, ReleaseInv
    <3> QED BY <3>4 DEF history
  <2> QED BY <1>2, <2>1 DEF Releases
<1>4. \A u \in Threads : u # t => Stays(u)
  BY <1>2 DEF Stays
<1>5. Fewer
  BY DEF Fewer, SameIds, Cleared, history, FloatInv, StateInv, Tracked, NoSession
<1>6. TypeOK'
  BY <1>2, <1>5, FewerTypes, Facts DEF server, history, TypeOK
<1>7. Adds({})
  BY DEF Adds, server
<1>8. ASSUME NEW i \in Ids, Accounted(i) PROVE Accounted(i)'
  <2>1. call[t].id = i => Attempted(i)'
    BY <1>2 DEF Attempted
  <2>2. call[t].id # i => (Attempted(i) => Attempted(i)')
    BY <1>2 DEF Attempted
  <2>3. call[t].id # i => (i \in Tracked(st) => i \in Tracked(st'))
    BY DEF SameIds, Tracked
  <2> QED BY <1>8, <2>1, <2>2, <2>3 DEF Accounted, history, server
<1> QED BY <1>3, <1>4, <1>5, <1>6, <1>7, <1>8, Calm DEF server, history

LEMMA StartReleasedStep ==
  ASSUME FloatInv, NEW t \in Threads, StartStale(t) \/ StartInvalid(t)
  PROVE  FloatInv'
<1> USE Facts
<1>1. CASE StartStale(t)
  BY <1>1, ReleaseStep DEF StartStale, SameIds, Stale
<1>2. CASE StartInvalid(t)
  <2>1. StartAnswered(t) /\ t \in current /\ st' = [st EXCEPT !.pend = None]
    BY <1>2 DEF StartInvalid, Stale
  <2>2. Cleared /\ st' \in States /\ st'.cred = st.cred
    BY <2>1, AnsweredIs DEF Cleared, States
  <2> QED BY <1>2, <2>1, <2>2, ReleaseStep DEF StartInvalid
<1> QED BY <1>1, <1>2

LEMMA StartFailsStep ==
  ASSUME FloatInv, NEW t \in Threads, StartFails(t)
  PROVE  FloatInv'
<1> USE Facts, AnsweredIs
<1>1. /\ StartAnswered(t) /\ t \in current /\ Fail(t)
      /\ call[t].reply \in {"transient", "denied", "ended", "expired"}
      /\ st' = [st EXCEPT !.retry = call[t].reply = "transient",
                          !.pend = IF call[t].reply \in {"ended", "expired"} THEN None ELSE @]
      /\ UNCHANGED <<life, drawn, sent, seat, fence, dropped, resolved>>
  BY DEF StartFails, Stale, server, history
<1>2. /\ st' \in States /\ st'.session = NoSession /\ st'.cred = st.cred
      /\ st'.pend = IF call[t].reply \in {"ended", "expired"} THEN None ELSE st.pend
  BY <1>1 DEF States
<1>3. Fewer
  BY <1>1, <1>2 DEF Fewer, FloatInv, StateInv, Tracked, NoSession
<1>4. Fair(t) /\ Leave(t)
  BY <1>1 DEF Fair, Fail
<1>5. Moves(t, Idle)
  BY <1>4, LeaveMoves
<1>6. /\ \A u \in Threads : Plain(u)' \/ Stays(u) \/ Releases(u)
      /\ call' \in [Threads -> Calls] /\ serial' \in Threads \cup {NoThread} /\ current' \subseteq Threads
  BY <1>5, OthersStay
<1>7. TypeOK' /\ Adds({})
  BY <1>1, <1>2, <1>3, <1>6, FewerTypes DEF TypeOK, Adds
<1>8. ASSUME NEW i \in Ids, seat[i].state # "over", Accounted(i) PROVE Accounted(i)'
  <2>1. CASE i = call[t].id
    <3>1. call[t].reply \notin {"ended", "expired"}
      BY <1>1, <1>8, <2>1 DEF CallInv, ReplyInv
    <3>2. i \in Tracked(st')
      BY <1>1, <1>2, <2>1, <3>1 DEF Tracked
    <3> QED BY <3>2 DEF Accounted
  <2>2. CASE i # call[t].id
    <3>1. Attempted(i) => Attempted(i)'
      BY <1>4, <2>2 DEF Attempted, Leave, Set, TypeOK
    <3>2. i \notin Tracked(st)
      BY <1>1, <2>2
    <3> QED BY <1>1, <1>8, <3>1, <3>2 DEF Accounted
  <2> QED BY <2>1, <2>2
<1> QED BY <1>1, <1>3, <1>6, <1>7, <1>8, Calm

LEMMA CleanupStep ==
  ASSUME FloatInv, NEW t \in Threads, Cleanup(t)
  PROVE  FloatInv'
<1> USE Facts
<1>1. /\ call[t].pc = "cleanup" /\ call[t].id \in Ids /\ call[t].id =< drawn /\ serial = t
      /\ Send({End(call[t].id)}) /\ Fail(t) /\ UNCHANGED <<st, life, drawn, seat, fence, dropped, resolved>>
  BY DEF Cleanup, ShapeInv, history
<1>2. Moves(t, Idle) /\ Leave(t)
  BY <1>1, LeaveMoves DEF Fair, Fail
<1>3. /\ \A u \in Threads : Plain(u)' \/ Stays(u) \/ Releases(u)
      /\ call' \in [Threads -> Calls] /\ serial' \in Threads \cup {NoThread} /\ current' \subseteq Threads
  BY <1>2, OthersStay
<1>4. life = "open" /\ call[t].id \in Tracked(st) => call[t].id \in resolved
  BY <1>1 DEF FloatInv, ReleaseInv, Unreleased
<1>5. Adds({call[t].id}) /\ sent' \subseteq Messages
  <2>1. Ends({call[t].id}) = {End(call[t].id)}
    BY DEF Ends
  <2>2. Send(Ends({call[t].id}))
    BY <1>1, <2>1
  <2> QED BY <1>1, <1>4, <2>2, SendEnds
<1>6. Fewer
  BY <1>1 DEF Fewer, FloatInv, StateInv
<1>7. TypeOK'
  BY <1>1, <1>3, <1>5, <1>6, FewerTypes DEF TypeOK
<1>8. ASSUME NEW i \in Ids, seat[i].state # "over", Accounted(i) PROVE Accounted(i)'
  <2>1. CASE i = call[t].id
    BY <1>5, <1>8, <2>1 DEF Adds, Accounted
  <2>2. CASE i # call[t].id
    <3>1. Attempted(i) => Attempted(i)'
      BY <1>2, <2>2 DEF Attempted, Leave, Set, TypeOK
    <3> QED BY <1>1, <1>5, <1>8, <3>1 DEF Accounted, Adds
  <2> QED BY <2>1, <2>2
<1> QED BY <1>1, <1>3, <1>5, <1>6, <1>7, <1>8, Calm

\* The session that a start brings.
LEMMA SessionStarts ==
  ASSUME FloatInv, NEW t \in Threads, StartAnswered(t), t \in current, life = "open",
         call[t].reply = "ok", call[t].stage # "over",
         st' = [st EXCEPT !.pend = None, !.retry = FALSE,
                          !.session = [id |-> call[t].id, seq |-> 1, pending |-> 0, stage |-> call[t].stage]],
         Finish(t), UNCHANGED <<life, drawn, server, history>>
  PROVE  FloatInv'
<1> USE Facts, AnsweredIs
<1>0. PICK i \in Ids : i = call[t].id
  OBVIOUS
<1> USE <1>0
<1> DEFINE new == [id |-> i, seq |-> 1, pending |-> 0, stage |-> call[t].stage]
<1>1. /\ new \in Sessions /\ new # NoSession /\ new.id = i /\ new.seq = 1 /\ new.pending = 0
      /\ new.stage = call[t].stage
  <2>1. 1 \in 1..MaxSequence /\ call[t].stage \in Stages
    BY BoundsAssumption DEF Calls
  <2> QED BY <2>1 DEF Sessions, NoSession
<1>2. /\ st' \in States /\ st'.session = new /\ st'.pend = None /\ st'.cred = st.cred /\ Tracked(st') = {i}
  BY <1>1 DEF States, Tracked
<1>3. UNCHANGED <<life, drawn, sent, seat, fence, dropped, resolved>>
  BY DEF server, history
<1>4. PICK c : Moves(t, c)
  BY FinishMoves DEF Fair, Finish
<1>5. /\ \A u \in Threads : Plain(u)' \/ Stays(u) \/ Releases(u)
      /\ call' \in [Threads -> Calls] /\ serial' \in Threads \cup {NoThread} /\ current' \subseteq Threads
  BY <1>4, OthersStay
<1>6. /\ \A u \in Threads : u # t => call'[u] = call[u]
      /\ call'[t] = c /\ c.id = None /\ c.pc # "cleanup"
      /\ c.kind \in {"start", "renew"} => c.pc \notin {"sent", "got"}
      /\ c.pc \in {"sent", "got", "check"} => serial' = t
      /\ c.kind = "renew" => t = Worker
  BY <1>4 DEF Moves, Set, TypeOK
<1>7. \A u \in Threads : /\ call'[u].id = None /\ call'[u].pc # "cleanup"
                         /\ ~Asking(u, "start")' /\ ~Asking(u, "renew")'
  <2> SUFFICES ASSUME NEW u \in Threads
               PROVE  /\ call'[u].id = None /\ call'[u].pc # "cleanup"
                      /\ ~Asking(u, "start")' /\ ~Asking(u, "renew")'
    OBVIOUS
  <2>1. CASE u = t
    BY <1>6, <2>1 DEF Asking
  <2>2. CASE u # t
    BY <1>6, <2>2 DEF Asking
  <2> QED BY <2>1, <2>2
<1>8. TypeOK'
  BY <1>2, <1>3, <1>5 DEF TypeOK
<1>9. ASSUME NEW u \in Threads PROVE CallInv(u)'
  <2>1. CASE u = t
    <3>1. None =< drawn'
      BY <1>3, TypeFacts DEF None
    <3> QED BY <1>6, <1>7, <2>1, <3>1 DEF CallInv, ShapeInv, OwnInv, ReplyInv
  <2>2. CASE u # t
    BY <1>3, <1>6, <1>7, <2>2 DEF CallInv, ShapeInv, OwnInv, ReplyInv
  <2> QED BY <2>1, <2>2
<1>10. StateInv'
  BY <1>1, <1>2, <1>3 DEF FloatInv, StateInv, Tracked
<1>11. ServerInv'
  <2>1. seat[i].state # "none"
    BY DEF CallInv, ReplyInv
  <2> QED BY <1>1, <1>2, <1>3, <2>1 DEF FloatInv, ServerInv
<1>12. SequenceInv'
  <2>1. /\ seat[i].state = "held" => seat[i].seq = 1
        /\ \A m \in sent : m.op = "renew" => m.id # i
    BY DEF FloatInv, SequenceInv
  <2> QED BY <1>1, <1>2, <1>3, <1>7, <2>1 DEF SequenceInv
<1>13. ReleaseInv'
  <2> SUFFICES ASSUME i \notin resolved PROVE Unreleased(i)'
    BY <1>2, <1>3 DEF ReleaseInv
  <2>1. End(i) \notin sent
    BY <1>0 DEF FloatInv, ReleaseInv, Unreleased
  <2> QED BY <1>3, <1>7, <2>1 DEF Unreleased
<1>14. HeldInv'
  <2>1. i \notin resolved => seat[i].state = "held"
    BY DEF FloatInv, HeldInv
  <2>2. \A u \in Threads : call'[u].id \notin Tracked(st')
    BY <1>2, <1>7
  <2> QED BY <1>1, <1>2, <1>3, <2>1, <2>2 DEF HeldInv, Online
<1>15. SeatInv'
  <2> SUFFICES ASSUME NEW j \in Ids, seat'[j].state = "held" \/ Start(j) \in sent' PROVE Accounted(j)'
    BY DEF SeatInv
  <2>1. CASE j = i
    BY <1>2, <2>1 DEF Accounted
  <2>2. CASE j # i
    <3>1. Accounted(j) /\ j \notin Tracked(st)
      BY <1>3, <2>2 DEF FloatInv, SeatInv
    <3>2. Attempted(j) => Attempted(j)'
      BY <1>6, <2>2 DEF Attempted
    <3> QED BY <1>3, <3>1, <3>2 DEF Accounted
  <2> QED BY <2>1, <2>2
<1> QED BY <1>8, <1>9, <1>10, <1>11, <1>12, <1>13, <1>14, <1>15 DEF FloatInv

LEMMA StartOkStep ==
  ASSUME FloatInv, NEW t \in Threads, StartOk(t)
  PROVE  FloatInv'
<1> USE Facts, AnsweredIs
<1> DEFINE new == [id |-> call[t].id, seq |-> 1, pending |-> 0, stage |-> call[t].stage]
           s == [st EXCEPT !.pend = None, !.retry = FALSE, !.session = new]
<1>1. /\ StartAnswered(t) /\ t \in current /\ life = "open" /\ call[t].reply = "ok"
      /\ UNCHANGED <<life, drawn, server, history>>
  BY DEF StartOk, Stale
<1>2. PICK clockOk \in BOOLEAN :
        IF Online(s, clockOk) THEN st' = s /\ Finish(t)
        ELSE st' = [s EXCEPT !.session = NoSession] /\ Release(t) /\ UNCHANGED <<serial, current>>
  BY DEF StartOk
<1>3. CASE Online(s, clockOk)
  <2>1. s.session = new
    BY DEF States
  <2>2. call[t].stage # "over"
    BY <1>3, <2>1 DEF Online
  <2> QED BY <1>1, <1>2, <1>3, <2>2, SessionStarts
<1>4. CASE ~Online(s, clockOk)
  <2>1. st' = [s EXCEPT !.session = NoSession] /\ Release(t) /\ UNCHANGED <<serial, current>>
    BY <1>2, <1>4
  <2>2. st' \in States /\ Cleared /\ st'.cred = st.cred
    BY <2>1 DEF States, Cleared
  <2> QED BY <1>1, <2>1, <2>2, ReleaseStep
<1> QED BY <1>3, <1>4

(***************************************************************************)
(* activate and refresh                                                    *)
(***************************************************************************)

LEMMA ResetClears ==
  ASSUME FloatInv, NEW b \in BOOLEAN, NEW a \in BOOLEAN, NEW p \in {"unknown", "ordinary"},
         \/ st' = [Reset(st) EXCEPT !.cred = b, !.policy = p, !.activating = a]
         \/ st' = [Reset(st) EXCEPT !.cred = b, !.activating = a]
         \/ st' = [Reset(st) EXCEPT !.cred = b]
         \/ st' = [Reset(st) EXCEPT !.activating = a]
  PROVE  st' \in States /\ Cleared
<1>1. st \in States
  BY Facts
<1>2. Reset(st) \in States /\ Reset(st).session = NoSession /\ Reset(st).pend = None
  BY <1>1 DEF States, Reset
<1> QED BY <1>2 DEF States, Cleared

\* A step of t that gives up all ids.
LEMMA GivingUp ==
  ASSUME FloatInv, NEW t \in Threads, NEW c, Moves(t, c), st' \in States, Cleared, Drops(Tracked(st)),
         call[t].id = None \/ (call[t].pc # "cleanup" /\ call[t].kind # "start"),
         fence' \in {fence, drawn}, UNCHANGED <<life, drawn, sent, seat, resolved>>
  PROVE  FloatInv'
<1>1. Fewer
  BY DEF Fewer, Cleared, Tracked, NoSession
<1>2. Tracked(st) \in SUBSET Ids /\ Tracked(st) \subseteq Tracked(st) \cup Tracked(st')
  BY Facts, TypeFacts
<1> QED BY <1>1, <1>2, Ordinary

LEMMA ActivateSendsStep ==
  ASSUME FloatInv, NEW t \in Threads, ActivateSends(t)
  PROVE  FloatInv'
<1> USE Facts
<1>1. /\ call[t].pc = "wait" /\ call[t].id = None /\ serial \in {NoThread, t} /\ call[t].kind = "activate"
      /\ Set(t, [call[t] EXCEPT !.pc = "sent"]) /\ serial' = t /\ current' = {t} /\ t \in current
      /\ Drops(Tracked(st)) /\ fence' = drawn /\ UNCHANGED <<life, drawn, sent, seat, resolved>>
  BY DEF ActivateSends, Runs, Stale, Goto, server
<1>2. st' \in States /\ Cleared
  <2>1. st' = [Reset(st) EXCEPT !.activating = TRUE]
    BY DEF ActivateSends
  <2> QED BY <2>1, ResetClears
<1>3. [call[t] EXCEPT !.pc = "sent"] \in Calls
  BY DEF Calls
<1>4. Moves(t, [call[t] EXCEPT !.pc = "sent"])
  BY <1>1, <1>3 DEF Moves, Calls
<1> QED BY <1>1, <1>2, <1>4, GivingUp

LEMMA AcceptStep ==
  ASSUME FloatInv, NEW t \in Threads,
         AcceptStale(t) \/ AcceptFloating(t) \/ AcceptOrdinary(t) \/ AcceptTransient(t) \/ AcceptError(t)
  PROVE  FloatInv'
<1> USE Facts
<1>0. call[t].pc = "got" /\ call[t].kind \in {"activate", "refresh"} /\ serial = t
  BY DEF AcceptStale, AcceptFloating, AcceptOrdinary, AcceptTransient, AcceptError, Answered, ShapeInv
<1>A. st.activating \in BOOLEAN /\ st.cred \in BOOLEAN /\ Activating(t) \in BOOLEAN
  BY DEF States, Activating
<1>1. CASE AcceptStale(t) \/ AcceptTransient(t)
  <2>1. UNCHANGED <<st, life, drawn, server, history>> /\ SameIds
    BY <1>1 DEF AcceptStale, AcceptTransient, SameIds
  <2>2. CASE Fail(t) \/ (Leave(t) /\ current' = {})
    <3>1. Leave(t) /\ Fair(t)
      BY <1>0, <2>2 DEF Fail, Fair
    <3>2. Moves(t, Idle)
      BY <3>1, LeaveMoves
    <3> QED BY <1>0, <2>1, <3>2, Simple
  <2>3. CASE Finish(t)
    <3>1. Fair(t)
      BY <1>0, <2>3 DEF Finish, Fair
    <3>2. PICK c : Moves(t, c)
      BY <2>3, <3>1, FinishMoves
    <3> QED BY <1>0, <2>1, <3>2, Simple
  <2> QED BY <1>1, <2>2, <2>3 DEF AcceptStale, AcceptTransient
<1>2. CASE AcceptFloating(t)
  <2>1. /\ st' = [st EXCEPT !.cred = TRUE, !.policy = "floating", !.activating = Activating(t)]
        /\ UNCHANGED <<life, drawn, server, history>>
    BY <1>2 DEF AcceptFloating
  <2>2. st' \in States /\ SameIds /\ st'.cred
    BY <1>A, <2>1 DEF States, SameIds
  <2>3. CASE Finish(t)
    <3>1. Fair(t)
      BY <1>0, <2>3 DEF Finish, Fair
    <3>2. PICK c : Moves(t, c)
      BY <2>3, <3>1, FinishMoves
    <3> QED BY <1>0, <2>1, <2>2, <3>2, Simple
  <2>4. CASE Set(t, [Idle EXCEPT !.pc = "check", !.then = call[t].then]) /\ UNCHANGED <<serial, current>>
    <3>1. call[t].then \in {"return", "start", "end"}
      BY DEF Calls
    <3>2. [Idle EXCEPT !.pc = "check", !.then = call[t].then] \in Calls
      BY <3>1, IdleTypes
    <3>3. Moves(t, [Idle EXCEPT !.pc = "check", !.then = call[t].then])
      BY <1>0, <2>2, <2>4, <3>2 DEF Moves, Idle
    <3> QED BY <1>0, <2>1, <2>2, <3>3, Simple
  <2> QED BY <1>2, <2>3, <2>4 DEF AcceptFloating
<1>3. CASE AcceptOrdinary(t)
  <2>1. /\ st' = [Reset(st) EXCEPT !.cred = TRUE, !.policy = "ordinary", !.activating = Activating(t)]
        /\ Drops(Tracked(st)) /\ Finish(t) /\ UNCHANGED <<life, drawn, sent, seat, fence, resolved>>
    BY <1>3 DEF AcceptOrdinary, server
  <2>2. st' \in States /\ Cleared
    BY <1>A, <2>1, ResetClears
  <2>3. Fair(t)
    BY <1>0, <2>1 DEF Finish, Fair
  <2>4. PICK c : Moves(t, c)
    BY <2>1, <2>3, FinishMoves
  <2> QED BY <1>0, <2>1, <2>2, <2>4, GivingUp
<1>4. CASE AcceptError(t)
  <2>1. /\ st' = [Reset(st) EXCEPT !.cred = st.cred /\ call[t].reply # "discard",
                                   !.activating = st.activating /\ call[t].reply = "invalid"]
        /\ Drops(Tracked(st)) /\ Leave(t) /\ current' = {} /\ UNCHANGED <<life, drawn, sent, seat, fence, resolved>>
    BY <1>4 DEF AcceptError, server
  <2>2. st' \in States /\ Cleared
    BY <1>A, <2>1, ResetClears
  <2>3. Fair(t)
    BY <1>0, <2>1 DEF Fair
  <2>4. Moves(t, Idle)
    BY <2>1, <2>3, LeaveMoves
  <2> QED BY <1>0, <2>1, <2>2, <2>4, GivingUp
<1> QED BY <1>1, <1>2, <1>3, <1>4

LEMMA CheckStep ==
  ASSUME FloatInv, NEW t \in Threads, Check(t)
  PROVE  FloatInv'
<1> USE Facts
<1>1. /\ call[t].pc = "check" /\ call[t].id = None /\ serial = t
      /\ UNCHANGED <<st, life, drawn, server, history>> /\ SameIds
  BY DEF Check, ShapeInv, SameIds
<1>2. CASE Finish(t)
  <2>1. Fair(t)
    BY <1>1, <1>2 DEF Finish, Fair
  <2>2. PICK c : Moves(t, c)
    BY <1>2, <2>1, FinishMoves
  <2> QED BY <1>1, <2>2, Simple
<1>3. CASE Set(t, [call[t] EXCEPT !.pc = "gen", !.kind = "start", !.explicit = FALSE]) /\ UNCHANGED <<serial, current>>
  <2> DEFINE c == [call[t] EXCEPT !.pc = "gen", !.kind = "start", !.explicit = FALSE]
  <2>1. c \in Calls /\ c.pc = "gen" /\ c.kind = "start" /\ c.id = None
    BY <1>1 DEF Calls
  <2>2. Moves(t, c)
    BY <1>1, <1>3, <2>1 DEF Moves
  <2> QED BY <1>1, <2>2, Simple
<1> QED BY <1>2, <1>3 DEF Check

(***************************************************************************)
(* The worker                                                              *)
(***************************************************************************)

\* maintain_session gives a session up that has run out or cannot be trusted:
\* nobody else works with it.
LEMMA SessionGivenUp ==
  ASSUME FloatInv, call[Worker].pc = "idle", st.session # NoSession, Drops(Tracked(st)),
         st' = [st EXCEPT !.session = NoSession, !.pend = None, !.retry = TRUE],
         call' = call \/ Set(Worker, [Idle EXCEPT !.pc = "enter"]),
         UNCHANGED <<life, serial, current, drawn, server, fence, resolved>>
  PROVE  FloatInv'
<1> USE Facts
<1>W. Worker \in Threads
  BY TypeFacts
<1>1. st' \in States /\ Cleared
  BY DEF States, Cleared
<1>2. Fewer
  BY <1>1 DEF Fewer, Cleared, Tracked, NoSession
<1>3. /\ call' \in [Threads -> Calls] /\ \A u \in Threads : u # Worker => call'[u] = call[u]
      /\ call'[Worker] = call[Worker] \/ call'[Worker] = [Idle EXCEPT !.pc = "enter"]
  BY <1>W, IdleTypes DEF Set, TypeOK
<1>4. call[Worker].id = None
  BY <1>W
<1>5. Plain(Worker)'
  BY <1>W, <1>3, <1>4 DEF Plain, Asking, Idle, ShapeInv
<1>6. ASSUME NEW u \in Threads, u # Worker PROVE Stays(u)
  <2>1. u \in current => ~Asking(u, "start")
    BY DEF CallInv, OwnInv
  <2>2. ~Asking(u, "renew")
    BY <1>6 DEF Asking, ShapeInv
  <2> QED BY <1>1, <1>3, <1>6, <2>1, <2>2 DEF Stays
<1>7. /\ \A i \in Ids : seat[i].state # "over" /\ Accounted(i) => Accounted(i)'
      /\ dropped' \subseteq Ids
  <2>1. Tracked(st) \in SUBSET Ids
    BY TypeFacts
  <2>2. \A u \in Threads : call'[u] = call[u] \/ call[u].id = None
    BY <1>3, <1>4
  <2> QED BY <2>1, <2>2, Dropping DEF server
<1>8. TypeOK'
  BY <1>1, <1>2, <1>3, <1>7, FewerTypes DEF TypeOK, server
<1>9. Adds({})
  BY DEF Adds, server
<1> QED BY <1>2, <1>5, <1>6, <1>7, <1>8, <1>9, Calm DEF server

LEMMA MaintainStep ==
  ASSUME FloatInv, Maintain \/ MaintainUncertain
  PROVE  FloatInv'
<1> USE Facts
<1>W. Worker \in Threads
  BY TypeFacts
<1>1. CASE MaintainUncertain
  BY <1>1, SessionGivenUp DEF MaintainUncertain
<1>2. CASE Maintain
  <2>0. /\ call[Worker].pc = "idle" /\ call[Worker].id = None
        /\ UNCHANGED <<life, serial, drawn, server, fence, resolved>>
    BY <1>2, <1>W DEF Maintain
  <2>1. CASE Set(Worker, [Idle EXCEPT !.pc = "wait", !.kind = "renew"])
               /\ current' = current \cup {Worker} /\ UNCHANGED <<st, dropped>>
    <3>1. Moves(Worker, [Idle EXCEPT !.pc = "wait", !.kind = "renew"])
      BY <2>0, <2>1, IdleTypes DEF Moves, Idle, SameIds
    <3>2. SameIds /\ UNCHANGED <<life, drawn, server, history>>
      BY <2>0, <2>1 DEF SameIds, history
    <3> QED BY <1>W, <2>0, <2>1, <3>1, <3>2, Simple
  <2>2. CASE /\ st.session # NoSession
             /\ st' = [st EXCEPT !.session = NoSession, !.pend = None, !.retry = TRUE]
             /\ Drops(Tracked(st))
             /\ Set(Worker, [Idle EXCEPT !.pc = "enter"])
             /\ UNCHANGED current
    BY <2>0, <2>2, SessionGivenUp
  <2>3. CASE Set(Worker, [Idle EXCEPT !.pc = "enter"]) /\ UNCHANGED <<st, current, dropped>>
    <3>1. Moves(Worker, [Idle EXCEPT !.pc = "enter"])
      BY <2>0, <2>3, IdleTypes DEF Moves, Idle, SameIds
    <3>2. SameIds /\ UNCHANGED <<life, drawn, server, history>>
      BY <2>0, <2>3 DEF SameIds, history
    <3> QED BY <1>W, <2>0, <2>3, <3>1, <3>2, Simple
  <2> QED BY <1>2, <2>1, <2>2, <2>3 DEF Maintain
<1> QED BY <1>1, <1>2

LEMMA RenewSendsStep ==
  ASSUME FloatInv, NEW t \in Threads, RenewSends(t)
  PROVE  FloatInv'
<1> USE Facts
<1>0. /\ call[t].pc = "wait" /\ call[t].id = None /\ serial \in {NoThread, t}
      /\ call[t].kind = "renew" /\ life = "open" /\ t \in current /\ serial' = t
      /\ st.session # NoSession /\ st.cred /\ t = Worker
      /\ UNCHANGED <<life, current, drawn, seat, fence, dropped, resolved>>
  BY DEF RenewSends, Renewing, Runs, Stale, ShapeInv, history
<1>1. PICK n : /\ n = Renewal(st.session) /\ n =< MaxSequence
               /\ st' = [st EXCEPT !.session.pending = n]
               /\ Send({[op |-> "renew", id |-> st.session.id, seq |-> n]})
               /\ Set(t, [call[t] EXCEPT !.pc = "sent", !.id = st.session.id, !.seq = n])
  BY DEF RenewSends
<1>2. PICK i \in Ids : i = st.session.id
  BY <1>0, TypeFacts
<1>S. st.session \in Sessions /\ i # None
  BY <1>0, TypeFacts
<1>3. n \in 2..MaxSequence /\ n = st.session.seq + 1
  <2>1. st.session.seq \in 1..MaxSequence /\ st.session.pending \in {0} \cup 2..MaxSequence
    BY <1>S DEF Sessions
  <2>2. st.session.pending # 0 => st.session.pending = st.session.seq + 1
    BY <1>0 DEF FloatInv, SequenceInv
  <2> QED BY <1>1, <2>1, <2>2, BoundsAssumption DEF Renewal
<1>4. /\ st' \in States /\ st'.session # NoSession /\ st'.session.id = i /\ st'.session.seq = st.session.seq
      /\ st'.session.pending = n /\ st'.session.stage = st.session.stage /\ st'.pend = st.pend
      /\ st'.cred = st.cred /\ Tracked(st') = Tracked(st)
  <2>1. [st.session EXCEPT !.pending = n] \in Sessions
    BY <1>S, <1>3 DEF Sessions
  <2>2. st' = [st EXCEPT !.session = [st.session EXCEPT !.pending = n]]
    BY <1>1
  <2>3. st' \in States /\ st'.session = [st.session EXCEPT !.pending = n] /\ st'.pend = st.pend /\ st'.cred = st.cred
    BY <2>1, <2>2 DEF States
  <2>4. /\ st'.session.id = i /\ st'.session.seq = st.session.seq /\ st'.session.pending = n
        /\ st'.session.stage = st.session.stage
    BY <1>2, <1>S, <2>3 DEF Sessions
  <2> QED BY <1>2, <1>S, <2>3, <2>4 DEF Tracked, NoSession
<1>5. /\ call' \in [Threads -> Calls]
      /\ call'[t].pc = "sent" /\ call'[t].id = i /\ call'[t].seq = n /\ call'[t].kind = "renew"
      /\ \A u \in Threads : u # t => call'[u] = call[u]
  <2>0. n \in 0..MaxSequence
    BY <1>3
  <2>1. [call[t] EXCEPT !.pc = "sent", !.id = i, !.seq = n] \in Calls
    BY <2>0 DEF Calls
  <2> QED BY <1>0, <1>1, <1>2, <2>1 DEF Set, TypeOK, Calls
<1>6. /\ sent \subseteq sent' /\ sent' \subseteq sent \cup {[op |-> "renew", id |-> i, seq |-> n]} /\ sent' \subseteq Messages
      /\ \A m \in sent' : /\ seat[m.id].state # "over"
                          /\ m.op = "start" => seat[m.id].state = "none"
                          /\ m.op = "renew" => seat[m.id].seq < m.seq
  <2>1. [op |-> "renew", id |-> i, seq |-> n] \in Messages
    BY <1>3 DEF Messages
  <2> QED BY <1>1, <1>2, <2>1, SendKeeps
<1>7. \A u \in Threads : u # t =>
        /\ call[u].pc \notin {"sent", "got", "check", "cleanup"} /\ call[u].id = None
        /\ ~Asking(u, "start") /\ ~Asking(u, "renew")
  BY <1>0, Alone
<1>8. TypeOK'
  BY <1>0, <1>4, <1>5, <1>6 DEF TypeOK
<1>9. i =< drawn /\ fence < i /\ st.pend = None
  BY <1>0, <1>2 DEF FloatInv, StateInv
<1>10. ASSUME NEW u \in Threads PROVE CallInv(u)'
  <2>1. CASE u = t
    BY <1>0, <1>3, <1>4, <1>5, <1>9, <2>1 DEF CallInv, ShapeInv, OwnInv, ReplyInv, Asking
  <2>2. CASE u # t
    <3>1. call'[u] = call[u] /\ ShapeInv(u)
      BY <1>5, <2>2
    <3> QED BY <1>0, <1>7, <2>2, <3>1 DEF CallInv, ShapeInv, OwnInv, ReplyInv, Asking
  <2> QED BY <2>1, <2>2
<1>11. StateInv'
  BY <1>0, <1>2, <1>4 DEF FloatInv, StateInv
<1>12. ServerInv'
  <2>1. \A m \in sent' : m.id =< drawn
    BY <1>6, <1>9 DEF FloatInv, ServerInv
  <2> QED BY <1>0, <1>2, <1>4, <1>6, <2>1 DEF FloatInv, ServerInv
<1>13. SequenceInv'
  <2>1. seat[i].state = "held" => seat[i].seq = st.session.seq \/ seat[i].seq = n
    BY <1>0, <1>1, <1>2 DEF FloatInv, SequenceInv, Renewal
  <2>2. \A m \in sent : m.op = "renew" /\ m.id = i => m.seq = n
    <3> SUFFICES ASSUME NEW m \in sent, m.op = "renew", m.id = i PROVE m.seq = n
      OBVIOUS
    <3>1. m.seq = st.session.pending
      BY <1>0, <1>2 DEF FloatInv, SequenceInv
    <3>2. m.seq # 0
      BY DEF TypeOK, Messages
    <3> QED BY <1>1, <3>1, <3>2 DEF Renewal
  <2>3. \A m \in sent' : m.op = "renew" /\ m.id = i => m.seq = n
    BY <1>6, <2>2
  <2>4. \A u \in Threads : Asking(u, "renew")' => call'[u].seq = n
    BY <1>5, <1>7 DEF Asking
  <2>5. n # 0
    BY <1>3
  <2> QED BY <1>0, <1>3, <1>4, <1>9, <2>1, <2>3, <2>4, <2>5 DEF SequenceInv
<1>14. ReleaseInv'
  <2> SUFFICES ASSUME NEW j \in Tracked(st), j \notin resolved PROVE Unreleased(j)'
    BY <1>0, <1>4 DEF ReleaseInv
  <2>1. Unreleased(j)
    BY <1>0 DEF FloatInv, ReleaseInv
  <2>2. End(j) \notin sent'
    BY <1>6, <2>1 DEF Unreleased, End
  <2>3. ASSUME NEW u \in Threads PROVE call'[u].pc # "cleanup" /\ ~Asking(u, "start")'
    BY <1>5, <1>7 DEF Asking
  <2> QED BY <2>2, <2>3 DEF Unreleased
<1>15. HeldInv'
  <2>1. \A u \in Threads : call'[u].pc # "got"
    BY <1>5, <1>7
  <2>2. Online(st, TRUE)' => Online(st, TRUE)
    BY <1>0, <1>4 DEF Online
  <2> QED BY <1>0, <1>2, <1>4, <2>1, <2>2 DEF FloatInv, HeldInv
<1>16. SeatInv'
  <2> SUFFICES ASSUME NEW j \in Ids, seat'[j].state = "held" \/ Start(j) \in sent' PROVE Accounted(j)'
    BY DEF SeatInv
  <2>1. Start(j) \in sent' => Start(j) \in sent
    BY <1>6 DEF Start
  <2>2. Accounted(j)
    BY <1>0, <2>1 DEF FloatInv, SeatInv
  <2>3. Attempted(j) => Attempted(j)'
    BY <1>0, <1>5, TypeFacts DEF Attempted
  <2> QED BY <1>0, <1>4, <1>6, <2>2, <2>3 DEF Accounted
<1> QED BY <1>8, <1>10, <1>11, <1>12, <1>13, <1>14, <1>15, <1>16 DEF FloatInv

\* The session goes on with the answer's sequence number.
LEMMA SessionRenewed ==
  ASSUME FloatInv, NEW t \in Threads, call[t].pc = "got", call[t].kind = "renew", Fail(t),
         t \in current, life = "open", call[t].reply = "ok", st.session.pending = call[t].seq,
         st' = [st EXCEPT !.retry = FALSE,
                          !.session = [id |-> call[t].id, seq |-> call[t].seq,
                                       pending |-> 0, stage |-> call[t].stage]],
         UNCHANGED <<life, drawn, server, history>>
  PROVE  FloatInv'
<1> USE Facts
<1>0. PICK i \in Ids : i = call[t].id
  BY DEF ShapeInv, Asking
<1>1. /\ serial = t /\ Asking(t, "renew") /\ call[t].seq \in 1..MaxSequence /\ call[t].seq # 0
      /\ st.session # NoSession /\ st.session.id = i /\ i # None
  <2>1. serial = t /\ Asking(t, "renew") /\ call[t].seq >= 2 /\ call[t].seq \in 0..MaxSequence
    BY DEF ShapeInv, Asking, Calls
  <2>2. st.session # NoSession /\ st.session.id = i
    BY <1>0, <2>1 DEF CallInv, OwnInv
  <2> QED BY <2>1, <2>2, BoundsAssumption, TypeFacts
<1> DEFINE new == [id |-> i, seq |-> call[t].seq, pending |-> 0, stage |-> call[t].stage]
<1>2. /\ new \in Sessions /\ new # NoSession /\ new.id = i /\ new.seq = call[t].seq /\ new.pending = 0
      /\ new.stage = call[t].stage
  <2>1. call[t].stage \in Stages
    BY DEF Calls
  <2> QED BY <1>1, <2>1 DEF Sessions, NoSession
<1>3. /\ st' \in States /\ st'.session = new /\ st'.pend = st.pend /\ st'.cred = st.cred
      /\ Tracked(st') = Tracked(st)
  BY <1>0, <1>1, <1>2 DEF States, Tracked
<1>4. UNCHANGED <<life, drawn, sent, seat, fence, dropped, resolved>>
  BY DEF server, history
<1>5. Moves(t, Idle)
  BY <1>1, LeaveMoves DEF Fair, Fail
<1>6. /\ call' \in [Threads -> Calls] /\ serial' \in Threads \cup {NoThread} /\ current' \subseteq Threads
  BY <1>5, OthersStay
<1>7. call'[t] = Idle /\ \A u \in Threads : u # t => call'[u] = call[u]
  BY DEF Fail, Leave, Set, TypeOK
<1>8. \A u \in Threads : /\ call'[u].id = None /\ call'[u].pc \notin {"sent", "got", "check", "cleanup"}
                         /\ ~Asking(u, "start")' /\ ~Asking(u, "renew")'
  BY <1>1, <1>7, Alone DEF Asking, Idle
<1>9. TypeOK'
  BY <1>3, <1>4, <1>6 DEF TypeOK
<1>10. ASSUME NEW u \in Threads PROVE CallInv(u)'
  <2>1. None =< drawn'
    BY <1>4, TypeFacts DEF None
  <2>2. call'[u].kind = "renew" => u = Worker
    BY <1>7, <1>10 DEF Idle, ShapeInv
  <2> QED BY <1>8, <2>1, <2>2 DEF CallInv, ShapeInv, OwnInv, ReplyInv
<1>11. StateInv'
  BY <1>1, <1>2, <1>3, <1>4 DEF FloatInv, StateInv
<1>12. ServerInv'
  BY <1>1, <1>2, <1>3, <1>4 DEF FloatInv, ServerInv
<1>13. SequenceInv'
  <2>1. seat[i].state = "over" \/ seat[i].seq = call[t].seq
    BY <1>0, <1>1 DEF CallInv, ReplyInv
  <2>2. ASSUME NEW m \in sent, m.op = "renew", m.id = i PROVE FALSE
    <3>1. m.seq = call[t].seq
      BY <1>1, <2>2 DEF FloatInv, SequenceInv
    <3>2. seat[i].state # "over" /\ seat[i].seq < m.seq
      BY <2>2 DEF FloatInv, ServerInv
    <3> QED BY <1>1, <2>1, <3>1, <3>2
  <2>3. st.pend = None
    BY <1>1 DEF FloatInv, StateInv
  <2> QED BY <1>2, <1>3, <1>4, <1>8, <2>1, <2>2, <2>3 DEF SequenceInv
<1>14. ReleaseInv'
  BY <1>3, <1>4, <1>8 DEF FloatInv, ReleaseInv, Unreleased
<1>15. HeldInv'
  <2>1. i \notin resolved /\ call[t].stage # "over" => seat[i].state = "held"
    BY <1>0, <1>1 DEF FloatInv, HeldInv, Tracked
  <2> QED BY <1>2, <1>3, <1>4, <1>8, <2>1 DEF HeldInv, Online
<1>16. SeatInv'
  <2> SUFFICES ASSUME NEW j \in Ids, Accounted(j) PROVE Accounted(j)'
    BY <1>4 DEF FloatInv, SeatInv
  <2>1. Attempted(j) => Attempted(j)'
    BY <1>7 DEF Attempted
  <2> QED BY <1>3, <1>4, <2>1 DEF Accounted
<1> QED BY <1>9, <1>10, <1>11, <1>12, <1>13, <1>14, <1>15, <1>16 DEF FloatInv

LEMMA RenewedStep ==
  ASSUME FloatInv, NEW t \in Threads, Renewed(t)
  PROVE  FloatInv'
<1> USE Facts
<1>0. /\ call[t].pc = "got" /\ call[t].kind = "renew" /\ Asking(t, "renew") /\ Fail(t) /\ Leave(t) /\ serial = t
      /\ UNCHANGED <<life, drawn, sent, seat, fence, resolved>>
  BY DEF Renewed, Fail, ShapeInv, server, Asking
<1>1. Moves(t, Idle)
  BY <1>0, LeaveMoves DEF Fair, Fail
<1>2. ASSUME st' \in {st, [st EXCEPT !.retry = TRUE]}, dropped' = dropped PROVE FloatInv'
  <2>1. st' \in States /\ SameIds /\ st'.cred = st.cred
    BY <1>2 DEF States, SameIds
  <2> QED BY <1>0, <1>1, <1>2, <2>1, Simple DEF server, history
<1>3. CASE Stale(t) \/ call[t].reply = "transient"
  BY <1>2, <1>3 DEF Renewed
<1>4. CASE ~Stale(t) /\ call[t].reply = "ok"
  <2>1. CASE st.session.id = call[t].id /\ st.session.pending = call[t].seq
    <3>1. st' = [st EXCEPT !.retry = FALSE,
                           !.session = [id |-> call[t].id, seq |-> call[t].seq,
                                        pending |-> 0, stage |-> call[t].stage]] /\ dropped' = dropped
      BY <1>4, <2>1 DEF Renewed
    <3> QED BY <1>0, <1>4, <2>1, <3>1, SessionRenewed DEF Stale, server, history
  <2>2. CASE ~(st.session.id = call[t].id /\ st.session.pending = call[t].seq)
    BY <1>2, <1>4, <2>2 DEF Renewed
  <2> QED BY <2>1, <2>2
<1>5. CASE ~Stale(t) /\ call[t].reply \notin {"ok", "transient"}
  <2>1. /\ st' = [st EXCEPT !.session = NoSession, !.disabled = call[t].reply # "expired",
                            !.retry = call[t].reply = "expired",
                            !.pend = IF call[t].reply = "expired" THEN None ELSE @]
        /\ Drops({call[t].id})
    BY <1>5 DEF Renewed
  <2>2. st.session # NoSession /\ st.session.id = call[t].id /\ st.pend = None /\ call[t].id # None
    BY <1>0, <1>5, TypeFacts DEF CallInv, OwnInv, Stale, FloatInv, StateInv
  <2>3. st' \in States /\ Cleared
    BY <2>1, <2>2 DEF States, Cleared
  <2>4. Tracked(st) = {call[t].id}
    BY <2>2 DEF Tracked
  <2>5. Drops(Tracked(st))
    BY <2>1, <2>4
  <2> QED BY <1>0, <1>1, <2>3, <2>5, GivingUp
<1> QED BY <1>3, <1>4, <1>5

(***************************************************************************)
(* Calls that do not take the lock, dropped futures, and the close         *)
(***************************************************************************)

\* A step of no call.
LEMMA LocalStep ==
  ASSUME FloatInv, Logout \/ ResolvePendingActivation \/ BeginClose
  PROVE  FloatInv'
<1> USE Facts
<1>1. CASE Logout
  <2>1. /\ st' = [Reset(st) EXCEPT !.cred = FALSE] /\ Drops(Tracked(st)) /\ fence' = drawn /\ current' = {}
        /\ UNCHANGED <<life, serial, call, drawn, sent, seat, resolved>>
    BY <1>1 DEF Logout, server
  <2>2. st' \in States /\ Cleared
    BY <2>1, ResetClears
  <2>3. Fewer
    BY <2>1, <2>2 DEF Fewer, Cleared, Tracked, NoSession
  <2>4. \A u \in Threads : Stays(u)
    BY <2>1, <2>2 DEF Stays
  <2>5. /\ \A i \in Ids : seat[i].state # "over" /\ Accounted(i) => Accounted(i)'
        /\ dropped' \subseteq Ids
    BY <2>1, Dropping, TypeFacts
  <2>6. TypeOK' /\ Adds({})
    BY <2>1, <2>2, <2>3, <2>5, FewerTypes DEF TypeOK, Adds
  <2> QED BY <2>1, <2>3, <2>4, <2>5, <2>6, Calm
<1>2. CASE ResolvePendingActivation
  <2>1. /\ st' = [st EXCEPT !.activating = FALSE] /\ current' = {}
        /\ resolved' = resolved \cup {i \in Ids : \E t \in current : call[t].kind = "start" /\ call[t].id = i}
        /\ UNCHANGED <<life, serial, call, drawn, sent, seat, fence, dropped>>
    BY <1>2 DEF ResolvePendingActivation, server
  <2>2. st' \in States /\ SameIds /\ st'.cred = st.cred
    BY <2>1 DEF States, SameIds
  <2>3. Fewer
    BY <2>1, <2>2 DEF Fewer, SameIds, FloatInv, StateInv, Tracked
  <2>4. ASSUME NEW u \in Threads PROVE Stays(u)
    <3>1. Asking(u, "start") => call[u].id \in Ids /\ call[u].kind = "start"
      BY DEF ShapeInv, Asking
    <3>2. Asking(u, "start") /\ u \in current => call[u].id \in resolved'
      BY <2>1, <3>1
    <3> QED BY <2>1, <2>2, <3>2 DEF Stays
  <2>5. \A i \in Ids : seat[i].state # "over" /\ Accounted(i) => Accounted(i)'
    <3>1. Tracked(st) \subseteq Tracked(st')
      BY <2>2 DEF SameIds, Tracked
    <3> QED BY <2>1, <3>1, Keeping
  <2>6. resolved \subseteq resolved' /\ resolved' \subseteq Ids
    BY <2>1 DEF TypeOK
  <2>7. TypeOK' /\ Adds({})
    BY <2>1, <2>2, <2>3, <2>6, FewerTypes DEF TypeOK, Adds
  <2> QED BY <2>1, <2>3, <2>4, <2>5, <2>6, <2>7, Calm
<1>3. CASE BeginClose
  <2>1. life' = "closing" /\ UNCHANGED <<st, serial, current, call, drawn, sent, seat, fence, dropped, resolved>>
    BY <1>3 DEF BeginClose, server, history
  <2>2. Fewer
    BY <2>1 DEF Fewer, FloatInv, StateInv
  <2>3. \A u \in Threads : Stays(u)
    BY <2>1 DEF Stays, SameIds
  <2>4. \A i \in Ids : seat[i].state # "over" /\ Accounted(i) => Accounted(i)'
    BY <2>1, Keeping
  <2>5. TypeOK' /\ Adds({})
    BY <2>1, <2>2, FewerTypes DEF TypeOK, Adds
  <2> QED BY <2>1, <2>2, <2>3, <2>4, <2>5, Calm
<1> QED BY <1>1, <1>2, <1>3

LEMMA DropStep ==
  ASSUME FloatInv, NEW t \in Threads, Drop(t)
  PROVE  FloatInv'
<1> USE Facts
<1>0. Leave(t) /\ UNCHANGED <<life, drawn, seat, fence, resolved>> /\ \A u \in Threads : u # t => call'[u] = call[u]
  BY DEF Drop, Leave, Set, TypeOK
<1>1. CASE call[t].kind = "start" /\ call[t].pc \in {"sent", "got"}
  <2>1. PICK i \in Ids : i = call[t].id /\ i =< drawn /\ serial = t /\ Asking(t, "start") /\ Send(Ends({i})) /\ dropped' = dropped
    <3>1. Ends({call[t].id}) = {End(call[t].id)}
      BY DEF Ends
    <3> QED BY <1>1, <3>1 DEF Drop, ShapeInv, Asking
  <2>2. /\ st' \in States /\ current' \subseteq current /\ st'.cred = st.cred
        /\ \/ t \in current /\ Cleared
           \/ t \notin current /\ SameIds
    <3>1. CASE t \in current
      <4>1. st' = [st EXCEPT !.session = NoSession, !.pend = None, !.disabled = TRUE, !.retry = FALSE] /\ current' = {}
        BY <1>1, <3>1 DEF Drop
      <4> QED BY <3>1, <4>1 DEF States, Cleared
    <3>2. CASE t \notin current
      BY <1>1, <3>2 DEF Drop, SameIds
    <3> QED BY <3>1, <3>2
  <2>3. Moves(t, Idle)
    BY <1>0, <2>1, <2>2, LeaveMoves DEF Fair
  <2>4. /\ \A u \in Threads : Plain(u)' \/ Stays(u) \/ Releases(u)
        /\ call' \in [Threads -> Calls] /\ serial' \in Threads \cup {NoThread} /\ current' \subseteq Threads
    BY <2>3, OthersStay
  <2>5. life' = "open" /\ i \in Tracked(st') => i \in resolved'
    <3> SUFFICES ASSUME life = "open", i \in Tracked(st') PROVE i \in resolved
      BY <1>0
    <3>1. ~Cleared
      BY TypeFacts DEF Cleared, Tracked, NoSession
    <3>2. t \notin current /\ i \in Tracked(st)
      BY <2>2, <3>1 DEF SameIds, Tracked
    <3> QED BY <2>1, <3>2 DEF FloatInv, ReleaseInv, Unreleased
  <2>6. Adds({i}) /\ sent' \subseteq Messages
    BY <2>1, <2>5, SendEnds
  <2>7. Fewer
    BY <1>0, <2>2 DEF Fewer, SameIds, Cleared, FloatInv, StateInv, Tracked, NoSession
  <2>8. TypeOK'
    BY <1>0, <2>1, <2>2, <2>4, <2>6, <2>7, FewerTypes DEF TypeOK
  <2>9. ASSUME NEW j \in Ids, seat[j].state # "over", Accounted(j) PROVE Accounted(j)'
    <3>1. CASE j = i
      BY <2>6, <2>9, <3>1 DEF Adds, Accounted
    <3>2. CASE j # i
      <4>1. Attempted(j) => Attempted(j)'
        BY <1>0, <2>1, <3>2 DEF Attempted
      <4>2. j \in Tracked(st) => j \in Tracked(st')
        <5>1. CASE t \in current
          BY <2>1, <3>2, <5>1, TypeFacts DEF CallInv, OwnInv, Tracked, NoSession
        <5>2. CASE t \notin current
          BY <2>2, <5>2 DEF SameIds, Tracked
        <5> QED BY <5>1, <5>2
      <4> QED BY <2>1, <2>6, <2>9, <4>1, <4>2 DEF Accounted, Adds
    <3> QED BY <3>1, <3>2
  <2> QED BY <1>0, <2>4, <2>6, <2>7, <2>8, <2>9, Calm
<1>2. CASE ~(call[t].kind = "start" /\ call[t].pc \in {"sent", "got"})
  <2>1. /\ dropped' = dropped \cup {i \in Ids : call[t].pc = "cleanup" /\ call[t].id = i}
        /\ current' = current \ {t} /\ UNCHANGED <<st, sent>>
    BY <1>2 DEF Drop
  <2>2. SameIds /\ st \in States
    BY <2>1 DEF SameIds
  <2>3. Moves(t, Idle)
    BY <1>0, <2>1, <2>2, LeaveMoves DEF Fair
  <2>4. /\ \A u \in Threads : Plain(u)' \/ Stays(u) \/ Releases(u)
        /\ call' \in [Threads -> Calls] /\ serial' \in Threads \cup {NoThread} /\ current' \subseteq Threads
    BY <2>3, OthersStay
  <2>5. Fewer
    BY <1>0, <2>1 DEF Fewer, FloatInv, StateInv
  <2>6. TypeOK' /\ Adds({})
    BY <1>0, <2>1, <2>4, <2>5, FewerTypes DEF TypeOK, Adds
  <2>7. ASSUME NEW j \in Ids, Accounted(j) PROVE Accounted(j)'
    <3>1. CASE j \in dropped'
      BY <3>1 DEF Accounted
    <3>2. CASE j \notin dropped'
      <4>1. call[t].id = j => call[t].pc # "cleanup" /\ call[t].kind # "start"
        BY <1>2, <2>1, <3>2, TypeFacts DEF ShapeInv
      <4>2. Attempted(j) => Attempted(j)'
        BY <1>0, <4>1 DEF Attempted
      <4> QED BY <2>1, <2>7, <4>2 DEF Accounted
    <3> QED BY <3>1, <3>2
  <2> QED BY <1>0, <2>1, <2>4, <2>5, <2>6, <2>7, Calm
<1> QED BY <1>1, <1>2

LEMMA FinishCloseStep ==
  ASSUME FloatInv, FinishClose
  PROVE  FloatInv'
<1> USE Facts
<1>1. /\ life' = "closed" /\ serial = NoThread /\ current' = {}
      /\ Send(IF st.cred THEN Ends(Held(st)) ELSE {})
      /\ st' = [st EXCEPT !.session = NoSession, !.pend = None, !.policy = IF @ = "unknown" THEN @ ELSE "ordinary"]
      /\ UNCHANGED <<serial, call, drawn, seat, fence, dropped, resolved>>
  BY DEF FinishClose, history
<1>2. st' \in States /\ Cleared /\ Tracked(st') = {}
  BY <1>1 DEF States, Cleared, Tracked, NoSession
<1>3. Send(Ends(Tracked(st)))
  <2>1. CASE st.cred
    BY <1>1, <2>1, HeldIds
  <2>2. CASE ~st.cred
    <3>1. Tracked(st) = {}
      BY <2>2 DEF FloatInv, StateInv
    <3>2. Ends(Tracked(st)) = {}
      BY <3>1 DEF Ends
    <3> QED BY <1>1, <2>2, <3>2
  <2> QED BY <2>1, <2>2
<1>4. Adds(Tracked(st)) /\ sent' \subseteq Messages
  BY <1>1, <1>3, SendEnds, HeldIds, TypeFacts
<1>5. Fewer
  BY <1>1, <1>2 DEF Fewer, Cleared
<1>6. \A u \in Threads : Stays(u)
  BY <1>1, <1>2 DEF Stays
<1>7. TypeOK'
  BY <1>1, <1>2, <1>4, <1>5, FewerTypes DEF TypeOK
<1>8. ASSUME NEW i \in Ids, seat[i].state # "over", Accounted(i) PROVE Accounted(i)'
  <2>1. CASE i \in Tracked(st)
    BY <1>4, <1>8, <2>1 DEF Adds, Accounted
  <2>2. CASE i \notin Tracked(st)
    BY <1>1, <1>4, <1>8, <2>2 DEF Adds, Accounted, Attempted
  <2> QED BY <2>1, <2>2
<1> QED BY <1>1, <1>4, <1>5, <1>6, <1>7, <1>8, Calm

(***************************************************************************)
(* The service and time                                                    *)
(***************************************************************************)

Seats == [Ids -> [state : {"none", "held", "over"}, seq : 0..MaxSequence]]

\* A start that was sent takes the seat.
Seated(seats, j) ==
  /\ seat[j].state = "none" /\ seats[j] = [state |-> "held", seq |-> 1]
  /\ Start(j) \in sent \/ \E u \in Threads : Asking(u, "start") /\ call[u].id = j

\* A renewal that was sent is accepted.
Extended(seats, j) ==
  /\ seat[j].state = "held" /\ seats[j].state = "held" /\ seats[j].seq = seat[j].seq + 1
  /\ \/ \E m \in sent : m.op = "renew" /\ m.id = j /\ m.seq = seats[j].seq
     \/ \E u \in Threads : /\ call[u].pc = "sent" /\ call[u].kind = "renew"
                           /\ call[u].id = j /\ call[u].seq = seats[j].seq

\* The seat is given back, or ends by itself after the client's view of it.
Vacated(seats, j) ==
  /\ seat[j].state = "held" /\ seats[j] = Over
  /\ \/ End(j) \in sent
     \/ /\ st.session.id = j => st.session.stage = "over"
        /\ \A u \in Threads : call[u].id = j => call[u].stage = "over"

Evolves(seats) ==
  \A j \in Ids : seats[j] = seat[j] \/ Seated(seats, j) \/ Extended(seats, j) \/ Vacated(seats, j)

\* What the client relies on, whatever the service does.
LEMMA Served ==
  ASSUME FloatInv, NEW seats \in Seats, Evolves(seats), NEW j \in Ids
  PROVE  /\ seats[j].state = "over" => seats[j] = Over
         /\ drawn < j => seats[j].state = "none"
         /\ seat[j].state # "none" => seats[j].state # "none"
         /\ seat[j].state = "over" => seats[j] = Over
         /\ st.session # NoSession /\ st.session.id = j /\ seats[j].state = "held" =>
              \/ seats[j].seq = st.session.seq
              \/ st.session.pending # 0 /\ seats[j].seq = st.session.pending
         /\ st.pend = j /\ seats[j].state = "held" => seats[j].seq = 1
         /\ seats[j].state = "held" => Accounted(j)
         /\ life = "open" /\ j \in Tracked(st) \ resolved /\ seat[j].state = "held" =>
              seats[j].state = "held" \/ (Vacated(seats, j) /\ End(j) \notin sent)
<1> USE TypeFacts DEF FloatInv
<1>0. /\ seat[j] \in [state : {"none", "held", "over"}, seq : 0..MaxSequence]
      /\ seats[j] \in [state : {"none", "held", "over"}, seq : 0..MaxSequence]
      /\ j \in Nat /\ drawn \in Nat /\ Over.state = "over" /\ TypeOK
      /\ \A u \in Threads : CallInv(u)
  BY DEF Seats, TypeOK, Over
<1>R. life = "open" /\ j \in Tracked(st) \ resolved => End(j) \notin sent
  BY DEF ReleaseInv, Unreleased
<1>1. CASE seats[j] = seat[j]
  <2>1. /\ seat[j].state = "over" => seat[j] = Over
        /\ drawn < j => seat[j].state = "none"
    BY DEF ServerInv
  <2>2. seat[j].state = "held" => Accounted(j)
    BY DEF SeatInv
  <2>3. st.session # NoSession /\ st.session.id = j /\ seat[j].state = "held" =>
              \/ seat[j].seq = st.session.seq
              \/ st.session.pending # 0 /\ seat[j].seq = st.session.pending
    BY DEF SequenceInv
  <2>4. st.pend = j /\ seat[j].state = "held" => seat[j].seq = 1
    BY DEF SequenceInv
  <2> QED BY <1>1, <2>1, <2>2, <2>3, <2>4
<1>2. CASE Seated(seats, j)
  <2>1. seats[j].state = "held" /\ seats[j].seq = 1 /\ seat[j].state = "none"
    BY <1>2 DEF Seated
  <2>2. ~(drawn < j)
    <3>1. CASE Start(j) \in sent
      BY <1>0, <3>1 DEF ServerInv, Start
    <3>2. CASE \E u \in Threads : Asking(u, "start") /\ call[u].id = j
      BY <1>0, <3>2 DEF CallInv, ShapeInv
    <3> QED BY <1>2, <3>1, <3>2 DEF Seated
  <2>3. Accounted(j)
    BY <1>2, <1>0 DEF Seated, SeatInv, Accounted, Attempted, Asking
  <2>4. ~(st.session # NoSession /\ st.session.id = j)
    BY <2>1 DEF ServerInv
  <2> QED BY <1>0, <2>1, <2>2, <2>3, <2>4
<1>3. CASE Extended(seats, j)
  <2>1. seats[j].state = "held" /\ seat[j].state = "held"
    BY <1>3 DEF Extended
  <2>2. Accounted(j) /\ ~(drawn < j)
    BY <1>0, <2>1 DEF SeatInv, ServerInv
  <2>3. \A u \in Threads : call[u].pc = "sent" /\ call[u].kind = "renew" => Asking(u, "renew") /\ call[u].seq >= 2
    BY <1>0 DEF CallInv, ShapeInv, Asking
  <2>4. st.pend # j
    BY <1>0, <1>3, <2>3 DEF Extended, SequenceInv
  <2>5. st.session # NoSession /\ st.session.id = j => st.session.pending # 0 /\ seats[j].seq = st.session.pending
    <3> SUFFICES ASSUME st.session # NoSession, st.session.id = j
                 PROVE  st.session.pending # 0 /\ seats[j].seq = st.session.pending
      OBVIOUS
    <3>1. CASE \E m \in sent : m.op = "renew" /\ m.id = j /\ m.seq = seats[j].seq
      BY <1>0, <3>1 DEF SequenceInv, Messages
    <3>2. CASE \E u \in Threads : /\ call[u].pc = "sent" /\ call[u].kind = "renew"
                                  /\ call[u].id = j /\ call[u].seq = seats[j].seq
      BY <1>0, <2>3, <3>2 DEF SequenceInv, Calls
    <3> QED BY <1>3, <3>1, <3>2 DEF Extended
  <2> QED BY <1>0, <2>1, <2>2, <2>4, <2>5
<1>4. CASE Vacated(seats, j)
  <2>1. seats[j] = Over /\ seat[j].state = "held"
    BY <1>4 DEF Vacated
  <2> QED BY <1>0, <1>4, <1>R, <2>1 DEF ServerInv
<1> QED BY <1>1, <1>2, <1>3, <1>4 DEF Evolves

\* A call that has just taken its answer.
Took(u) ==
  /\ call[u].pc = "sent" /\ call'[u].pc = "got"
  /\ call'[u].kind = call[u].kind /\ call'[u].id = call[u].id /\ call'[u].seq = call[u].seq
  /\ ReplyInv(u)'
  /\ call'[u].reply = "ok" /\ call'[u].stage # "over" => seat'[call[u].id].state = "held"

\* The service changes its seats, and calls take their answers.
LEMMA ServiceStep ==
  ASSUME FloatInv, NEW seats \in Seats, Evolves(seats), TypeOK',
         seat' = seats, sent' = Pending(sent, seats),
         \A i \in dropped : seats[i] # Over => i \in dropped',
         \A u \in Threads : call'[u] = call[u] \/ Took(u),
         UNCHANGED <<st, life, serial, current, drawn, fence, resolved>>
  PROVE  FloatInv'
<1> USE TypeFacts DEF FloatInv
<1>0. TypeOK /\ \A u \in Threads : CallInv(u) /\ call[u] \in Calls
  OBVIOUS
<1>S. sent' \subseteq sent /\ \A m \in sent' : seats[m.id] # Over
  BY DEF Pending
<1>C. \A u \in Threads : call'[u].id = call[u].id /\ call'[u].seq = call[u].seq
                           /\ call'[u].kind = call[u].kind
                           /\ (\A k : Asking(u, k)' <=> Asking(u, k))
                           /\ (call'[u].pc \in {"sent", "got"} <=> call[u].pc \in {"sent", "got"})
                           /\ (call'[u].pc # call[u].pc => call[u].pc = "sent" /\ call'[u].pc = "got")
  BY DEF Took, Asking
<1>1. ASSUME NEW u \in Threads PROVE CallInv(u)'
  <2>1. ShapeInv(u)'
    BY <1>0, <1>1, <1>C DEF CallInv, ShapeInv
  <2>2. OwnInv(u)'
    BY <1>0, <1>1, <1>C DEF CallInv, OwnInv
  <2>3. ReplyInv(u)'
    <3>1. CASE Took(u)
      BY <3>1 DEF Took
    <3>2. CASE call'[u] = call[u] /\ call[u].pc = "got"
      <4>1. ReplyInv(u) /\ ShapeInv(u) /\ OwnInv(u)
        BY <1>0, <1>1 DEF CallInv
      <4>2. Asking(u, "start") => call[u].id \in Ids
        BY <4>1 DEF ShapeInv
      <4>3. Asking(u, "start") /\ call[u].reply = "ok" => seats[call[u].id].state # "none"
        BY <3>2, <4>1, <4>2, Served DEF ReplyInv
      <4>4. Asking(u, "start") /\ call[u].reply \in {"ended", "expired"} => seats[call[u].id].state = "over"
        BY <3>2, <4>1, <4>2, Served DEF ReplyInv, Over
      <4>5. ASSUME u \in current, Asking(u, "renew"), call[u].reply = "ok"
            PROVE  seats[call[u].id].state = "over" \/ seats[call[u].id].seq = call[u].seq
        <5> DEFINE j == call[u].id
        <5>1. /\ j \in Ids /\ st.session # NoSession /\ st.session.id = j /\ u = Worker
              /\ seat[j].state = "over" \/ seat[j].seq = call[u].seq
              /\ call[u].seq = st.session.pending /\ call[u].seq \in Nat
          BY <1>0, <3>2, <4>1, <4>5, BoundsAssumption DEF ShapeInv, OwnInv, ReplyInv, SequenceInv, Asking, Calls
        <5>2. CASE seats[j] = seat[j]
          BY <5>1, <5>2
        <5>3. CASE Seated(seats, j)
          BY <5>1, <5>3 DEF Seated, ServerInv
        <5>4. CASE Extended(seats, j)
          <6>1. seat[j].state = "held" /\ seats[j].seq = seat[j].seq + 1
            BY <5>4 DEF Extended
          <6>2. seats[j].seq = st.session.pending
            <7>1. CASE \E m \in sent : m.op = "renew" /\ m.id = j /\ m.seq = seats[j].seq
              BY <5>1, <7>1 DEF SequenceInv
            <7>2. ASSUME NEW w \in Threads, call[w].pc = "sent", call[w].kind = "renew" PROVE FALSE
              BY <1>0, <7>2, <5>1, <3>2 DEF CallInv, ShapeInv
            <7> QED BY <5>4, <7>1, <7>2 DEF Extended
          <6> QED BY <5>1, <6>1, <6>2
        <5>5. CASE Vacated(seats, j)
          BY <5>5 DEF Vacated, Over
        <5> QED BY <5>1, <5>2, <5>3, <5>4, <5>5 DEF Evolves
      <4> QED BY <1>C, <1>1, <3>2, <4>3, <4>4, <4>5 DEF ReplyInv
    <3>3. CASE call'[u] = call[u] /\ call[u].pc # "got"
      BY <3>3 DEF ReplyInv
    <3> QED BY <1>1, <3>1, <3>2, <3>3
  <2> QED BY <2>1, <2>2, <2>3 DEF CallInv
<1>2. StateInv'
  BY DEF StateInv
<1>3. ServerInv'
  <2>1. \A i \in Ids : (drawn < i => seats[i].state = "none") /\ (seats[i].state = "over" => seats[i] = Over)
    BY Served
  <2>2. ASSUME NEW m \in sent'
        PROVE  /\ m.id =< drawn /\ seats[m.id].state # "over"
               /\ m.op = "start" => seats[m.id].state = "none"
               /\ m.op = "renew" => seats[m.id].seq < m.seq
    BY <1>S, <2>1, <2>2 DEF ServerInv, Pending
  <2>3. st.session # NoSession => seats[st.session.id].state # "none"
    BY Served DEF ServerInv
  <2> QED BY <2>1, <2>2, <2>3 DEF ServerInv
<1>4. SequenceInv'
  <2>1. st.session # NoSession /\ seats[st.session.id].state = "held" =>
            \/ seats[st.session.id].seq = st.session.seq
            \/ st.session.pending # 0 /\ seats[st.session.id].seq = st.session.pending
    BY Served
  <2>2. st.pend # None /\ seats[st.pend].state = "held" => seats[st.pend].seq = 1
    BY Served
  <2> QED BY <1>S, <1>C, <2>1, <2>2 DEF SequenceInv
<1>5. ReleaseInv'
  BY <1>S, <1>C DEF ReleaseInv, Unreleased
<1>6. HeldInv'
  <2> SUFFICES ASSUME life = "open"
               PROVE  /\ Online(st, TRUE) /\ st.session.id \notin resolved => seats[st.session.id].state = "held"
                      /\ \A u \in Threads :
                           call'[u].pc = "got" /\ call'[u].reply = "ok" /\ call'[u].stage # "over"
                             /\ call'[u].id \in Tracked(st) \ resolved => seats[call'[u].id].state = "held"
    BY DEF HeldInv
  <2>1. ASSUME Online(st, TRUE), st.session.id \notin resolved PROVE seats[st.session.id].state = "held"
    <3>1. st.session # NoSession /\ st.session.stage # "over" /\ st.session.id \in Tracked(st) /\ st.session.id \in Ids
      BY <2>1 DEF Online, Tracked
    <3>2. seat[st.session.id].state = "held"
      BY <2>1 DEF HeldInv
    <3> QED BY <2>1, <3>1, <3>2, Served DEF Vacated
  <2>2. ASSUME NEW u \in Threads, call'[u].pc = "got", call'[u].reply = "ok", call'[u].stage # "over",
               call'[u].id \in Tracked(st) \ resolved
        PROVE  seats[call'[u].id].state = "held"
    <3>1. CASE Took(u)
      BY <2>2, <3>1 DEF Took
    <3>2. CASE call'[u] = call[u]
      <4>1. seat[call[u].id].state = "held" /\ call[u].id \in Ids
        BY <2>2, <3>2 DEF HeldInv
      <4> QED BY <2>2, <3>2, <4>1, Served DEF Vacated
    <3> QED BY <2>2, <3>1, <3>2
  <2> QED BY <2>1, <2>2
<1>7. SeatInv'
  <2> SUFFICES ASSUME NEW i \in Ids, seats[i].state = "held" \/ Start(i) \in sent' PROVE Accounted(i)'
    BY DEF SeatInv
  <2>1. Accounted(i) /\ seats[i] # Over
    BY <1>S, Served DEF SeatInv, Over, Start
  <2>2. End(i) \in sent => End(i) \in sent'
    BY <2>1 DEF Pending, End
  <2>3. Attempted(i) => Attempted(i)'
    BY <1>C DEF Attempted
  <2> QED BY <2>1, <2>2, <2>3 DEF Accounted
<1> QED BY <1>1, <1>2, <1>3, <1>4, <1>5, <1>6, <1>7

LEMMA StandingStill ==
  ASSUME FloatInv
  PROVE  seat \in Seats /\ Evolves(seat) /\ sent = Pending(sent, seat)
<1>1. \A m \in sent : seat[m.id] # Over
  BY DEF FloatInv, ServerInv, Over
<1>2. \A m \in sent : m.op \in {"start", "renew", "end"}
  BY TypeFacts DEF FloatInv, Messages
<1> QED BY <1>1, <1>2 DEF FloatInv, TypeOK, Seats, Evolves, ServerInv, Pending

LEMMA ServeEvolves ==
  ASSUME FloatInv, NEW m \in Messages,
         \/ m \in sent
         \/ \E t \in Threads : /\ call[t].pc = "sent" /\ call[t].kind \in {"start", "renew"}
                               /\ m = [op |-> call[t].kind, id |-> call[t].id, seq |-> call[t].seq]
  PROVE  Serve(m) \in Seats /\ Evolves(Serve(m))
<1> USE TypeFacts
<1>0. /\ seat \in Seats /\ m.id \in Ids /\ m.seq \in 0..MaxSequence /\ 1 \in 0..MaxSequence
      /\ \A j \in Ids : seat[j] \in [state : {"none", "held", "over"}, seq : 0..MaxSequence]
  BY BoundsAssumption DEF FloatInv, TypeOK, Seats, Messages
<1>1. CASE m.op = "start" /\ seat[m.id].state = "none"
  <2>1. Serve(m) = [seat EXCEPT ![m.id] = [state |-> "held", seq |-> 1]]
    BY <1>1 DEF Serve
  <2>2. m = Start(m.id)
    BY <1>1 DEF Messages, Start
  <2>3. Start(m.id) \in sent \/ \E u \in Threads : Asking(u, "start") /\ call[u].id = m.id
    BY <1>1, <2>2 DEF Asking
  <2>4. Seated(Serve(m), m.id)
    BY <1>0, <1>1, <2>1, <2>3 DEF Seated, Seats
  <2> QED BY <1>0, <2>1, <2>4 DEF Evolves, Seats
<1>2. CASE m.op = "renew" /\ seat[m.id].state = "held" /\ seat[m.id].seq + 1 = m.seq
  <2>1. Serve(m) = [seat EXCEPT ![m.id].seq = m.seq]
    BY <1>2 DEF Serve
  <2>2. Serve(m)[m.id].state = "held" /\ Serve(m)[m.id].seq = m.seq
    BY <1>0, <1>2, <2>1 DEF Seats
  <2>3. \/ m \in sent
        \/ \E u \in Threads : /\ call[u].pc = "sent" /\ call[u].kind = "renew"
                              /\ call[u].id = m.id /\ call[u].seq = m.seq
    BY <1>2
  <2>4. Extended(Serve(m), m.id)
    BY <1>2, <2>2, <2>3 DEF Extended
  <2> QED BY <1>0, <2>1, <2>4 DEF Evolves, Seats
<1>3. CASE m.op = "end" /\ seat[m.id].state = "held"
  <2>1. Serve(m) = [seat EXCEPT ![m.id] = Over]
    BY <1>3 DEF Serve
  <2>2. End(m.id) \in sent
    BY <1>3 DEF Messages, End
  <2>3. Vacated(Serve(m), m.id)
    BY <1>0, <1>3, <2>1, <2>2 DEF Vacated, Seats
  <2>4. Over \in [state : {"none", "held", "over"}, seq : 0..MaxSequence]
    BY BoundsAssumption DEF Over
  <2> QED BY <1>0, <2>1, <2>3, <2>4 DEF Evolves, Seats
<1>4. CASE ~(m.op = "start" /\ seat[m.id].state = "none")
           /\ ~(m.op = "renew" /\ seat[m.id].state = "held" /\ seat[m.id].seq + 1 = m.seq)
           /\ ~(m.op = "end" /\ seat[m.id].state = "held")
  BY <1>4, StandingStill DEF Serve
<1> QED BY <1>1, <1>2, <1>3, <1>4

LEMMA ArriveStep ==
  ASSUME FloatInv, Arrive \/ SeatExpires
  PROVE  FloatInv'
<1> USE TypeFacts
<1>0. TypeOK /\ UNCHANGED <<st, life, serial, current, call, drawn, fence, resolved>>
  BY DEF FloatInv, Arrive, SeatExpires
<1>1. PICK seats \in Seats : Becomes(seats) /\ Evolves(seats)
  <2>1. CASE Arrive
    BY <1>0, <2>1, ServeEvolves DEF Arrive
  <2>2. CASE SeatExpires
    <3>1. PICK i \in Ids : /\ seat[i].state = "held"
                           /\ st.session.id = i => st.session.stage = "over"
                           /\ \A t \in Threads : call[t].id = i => call[t].stage = "over"
                           /\ Becomes([seat EXCEPT ![i] = Over])
      BY <2>2 DEF SeatExpires
    <3>2. [seat EXCEPT ![i] = Over] \in Seats
      BY <1>0, BoundsAssumption DEF TypeOK, Seats, Over
    <3>3. Evolves([seat EXCEPT ![i] = Over])
      BY <1>0, <3>1 DEF TypeOK, Evolves, Vacated
    <3> QED BY <3>1, <3>2, <3>3
  <2> QED BY <2>1, <2>2
<1>2. TypeOK'
  BY <1>0, <1>1 DEF TypeOK, Becomes, Pending, Seats
<1> QED BY <1>0, <1>1, <1>2, ServiceStep DEF Becomes

LEMMA ReplyStep ==
  ASSUME FloatInv, NEW t \in Threads, Reply(t)
  PROVE  FloatInv'
<1> USE TypeFacts
<1>0. /\ TypeOK /\ call[t].pc = "sent" /\ call[t] \in Calls /\ ShapeInv(t) /\ OwnInv(t)
      /\ UNCHANGED <<st, life, serial, current, drawn, fence, resolved>>
  BY DEF FloatInv, Reply, CallInv
<1>1. ASSUME NEW r \in Replies, Take(t, r)
      PROVE  /\ call' \in [Threads -> Calls]
             /\ \A u \in Threads : u # t => call'[u] = call[u]
             /\ call'[t].pc = "got" /\ call'[t].kind = call[t].kind /\ call'[t].id = call[t].id
             /\ call'[t].seq = call[t].seq
             /\ call'[t].reply = (IF Stale(t) THEN "invalid" ELSE r)
             /\ call'[t].stage # "over" => r = "ok" /\ ~Stale(t)
  <2> DEFINE c == [call[t] EXCEPT !.pc = "got", !.reply = IF Stale(t) THEN "invalid" ELSE r,
                                  !.stage = IF r = "ok" /\ ~Stale(t) THEN "fresh" ELSE "over"]
  <2>0. (IF Stale(t) THEN "invalid" ELSE r) \in Replies
        /\ (IF r = "ok" /\ ~Stale(t) THEN "fresh" ELSE "over") \in Stages
    BY DEF Replies, Stages
  <2>1. call' = [call EXCEPT ![t] = c] /\ c \in Calls
    <3>1. c \in Calls
      BY ONLY <1>0, <2>0 DEF Calls
    <3> QED BY <1>1, <3>1 DEF Take, Set
  <2>2. call'[t] = c /\ call' \in [Threads -> Calls]
    BY <1>0, <2>1 DEF TypeOK
  <2>3. \A u \in Threads : u # t => call'[u] = call[u]
    BY <1>0, <2>1 DEF TypeOK
  <2> QED BY <1>0, <1>1, <2>2, <2>3 DEF Calls
<1>2. ASSUME NEW r \in Replies \ {"ok", "ended", "expired"}, Take(t, r), UNCHANGED <<server, dropped>>
      PROVE  FloatInv'
  <2>1. call'[t].reply \notin {"ok", "ended", "expired"} /\ call' \in [Threads -> Calls]
    BY <1>1, <1>2
  <2>2. Took(t)
    BY <1>0, <1>1, <1>2, <2>1 DEF Took, ReplyInv
  <2>3. TypeOK'
    BY <1>0, <1>2, <2>1 DEF TypeOK, server
  <2>4. UNCHANGED <<sent, seat, dropped>>
    BY <1>2 DEF server
  <2> QED BY <1>0, <1>1, <1>2, <2>2, <2>3, <2>4, StandingStill, ServiceStep
<1>3. CASE /\ call[t].kind \in {"start", "renew"}
           /\ \E seats \in {seat, Serve([op |-> call[t].kind, id |-> call[t].id, seq |-> call[t].seq])} :
                /\ Becomes(seats)
                /\ \E r \in SeatReplies(call[t].kind, seats[call[t].id], call[t].seq) : Take(t, r)
  <2>0. Asking(t, call[t].kind) /\ call[t].id \in Ids
    BY <1>0, <1>3 DEF Asking, ShapeInv
  <2> DEFINE m == [op |-> call[t].kind, id |-> call[t].id, seq |-> call[t].seq]
  <2>1. m \in Messages
    BY <1>0, <1>3, BoundsAssumption DEF ShapeInv, Asking, Messages, Calls
  <2>2. PICK seats \in {seat, Serve(m)} :
               /\ Becomes(seats)
               /\ \E r \in SeatReplies(call[t].kind, seats[call[t].id], call[t].seq) : Take(t, r)
    BY <1>3
  <2>3. seats \in Seats /\ Evolves(seats)
    <3>1. Serve(m) \in Seats /\ Evolves(Serve(m))
      BY <1>0, <1>3, <2>1, ServeEvolves
    <3> HIDE DEF m
    <3> QED BY <2>2, <3>1, StandingStill
  <2>4. PICK r \in SeatReplies(call[t].kind, seats[call[t].id], call[t].seq) : Take(t, r)
    BY <2>2
  <2> HIDE DEF m
  <2>5. r \in Replies /\ (r = "expired" => call[t].kind = "renew")
    <3>1. r \in {"ok", "invalid", "denied", "ended", "expired"} /\ (r = "expired" => call[t].kind # "start")
      BY <2>4 DEF SeatReplies
    <3> QED BY <1>3, <3>1 DEF Replies
  <2>6. r = "ok" => seats[call[t].id].state = "held" /\ seats[call[t].id].seq = call[t].seq
    BY <2>4 DEF SeatReplies
  <2>7. ASSUME call[t].kind = "start", ~Stale(t), r = "ended" PROVE seats[call[t].id].state = "over"
    <3>1. st.pend = call[t].id /\ call[t].seq = 1
      BY <1>0, <2>0, <2>7 DEF OwnInv, Stale, ShapeInv
    <3>2. seats[call[t].id].state = "held" => seats[call[t].id].seq = 1
      BY <2>0, <2>3, <3>1, Served
    <3>3. seats[call[t].id].state # "none" /\ seats[call[t].id].state \in {"none", "held", "over"}
      BY <2>0, <2>3, <2>4, <2>7 DEF SeatReplies, Seats
    <3> QED BY <2>4, <2>7, <3>1, <3>2, <3>3 DEF SeatReplies
  <2>8. /\ seat' = seats /\ sent' = Pending(sent, seats)
        /\ dropped' = {i \in dropped : seats[i] # Over}
    BY <2>2 DEF Becomes
  <2>9. /\ call' \in [Threads -> Calls]
        /\ \A u \in Threads : u # t => call'[u] = call[u]
        /\ call'[t].pc = "got" /\ call'[t].kind = call[t].kind /\ call'[t].id = call[t].id
        /\ call'[t].seq = call[t].seq
        /\ call'[t].reply = (IF Stale(t) THEN "invalid" ELSE r)
        /\ call'[t].stage # "over" => r = "ok" /\ ~Stale(t)
    BY <1>1, <2>4, <2>5
  <2>10. ReplyInv(t)'
    <3>1. call'[t].reply = "ok" => r = "ok"
      BY <2>9
    <3>2. call'[t].reply = "ended" => r = "ended" /\ ~Stale(t)
      BY <2>9
    <3>3. call'[t].reply = "expired" => r = "expired"
      BY <2>9
    <3> QED BY <2>5, <2>6, <2>7, <2>8, <2>9, <3>1, <3>2, <3>3 DEF ReplyInv, Asking
  <2>11. Took(t)
    BY <1>0, <2>6, <2>8, <2>9, <2>10 DEF Took
  <2>12. TypeOK'
    BY <1>0, <2>3, <2>8, <2>9 DEF TypeOK, Pending, Seats
  <2> QED BY <1>0, <2>3, <2>8, <2>9, <2>11, <2>12, ServiceStep
<1> QED BY <1>2, <1>3 DEF Reply, Replies

\* Time passes: a session and an answer only get older.
LEMMA AgeStep ==
  ASSUME FloatInv, Age
  PROVE  FloatInv'
<1> USE TypeFacts
<1>0. /\ TypeOK /\ st \in States /\ (\A u \in Threads : CallInv(u) /\ call[u] \in Calls)
      /\ UNCHANGED <<life, serial, current, drawn, sent, seat, fence, dropped, resolved>>
  BY DEF FloatInv, TypeOK, Age, server, history
<1>O. \A g \in Stages : Older(g) \in Stages /\ (Older(g) # "over" => g # "over")
  BY DEF Stages, Older
<1>1. /\ st' \in States /\ st'.pend = st.pend /\ st'.cred = st.cred
      /\ (st'.session = NoSession <=> st.session = NoSession)
      /\ st'.session.id = st.session.id /\ st'.session.seq = st.session.seq
      /\ st'.session.pending = st.session.pending
      /\ st.session # NoSession /\ st'.session.stage # "over" => st.session.stage # "over"
  <2>1. CASE st.session = NoSession
    <3>1. st' = st
      BY <2>1 DEF Age
    <3> QED BY <1>0, <2>1, <3>1
  <2>2. CASE st.session # NoSession
    <3> DEFINE s == [st.session EXCEPT !.stage = Older(@)]
    <3>1. st.session \in Sessions
      BY <1>0, <2>2
    <3>2. /\ s \in Sessions /\ s.id = st.session.id /\ s.seq = st.session.seq /\ s.pending = st.session.pending
          /\ s.stage # "over" => st.session.stage # "over"
      BY <1>O, <3>1 DEF Sessions
    <3>3. s # NoSession
      BY <1>0, <3>2 DEF Sessions, NoSession, None
    <3>4. st' = [st EXCEPT !.session = s]
      BY <1>0, <2>2 DEF Age, States
    <3> HIDE DEF s
    <3> QED BY <1>0, <2>2, <3>2, <3>3, <3>4 DEF States
  <2> QED BY <2>1, <2>2
<1>2. /\ call' \in [Threads -> Calls]
      /\ \A u \in Threads :
           /\ call'[u].pc = call[u].pc /\ call'[u].kind = call[u].kind /\ call'[u].id = call[u].id
           /\ call'[u].seq = call[u].seq /\ call'[u].reply = call[u].reply
           /\ call'[u].stage # "over" => call[u].stage # "over"
  <2>1. call' = [u \in Threads |-> [call[u] EXCEPT !.stage = Older(@)]]
    BY DEF Age
  <2>2. ASSUME NEW u \in Threads
        PROVE  /\ [call[u] EXCEPT !.stage = Older(@)] \in Calls
               /\ Older(call[u].stage) # "over" => call[u].stage # "over"
    BY <1>0, <1>O, <2>2 DEF Calls
  <2>3. ASSUME NEW u \in Threads
        PROVE  /\ call'[u].pc = call[u].pc /\ call'[u].kind = call[u].kind /\ call'[u].id = call[u].id
               /\ call'[u].seq = call[u].seq /\ call'[u].reply = call[u].reply
               /\ call'[u].stage = Older(call[u].stage)
    BY <1>0, <2>1, <2>3 DEF Calls
  <2> QED BY <2>1, <2>2, <2>3
<1>3. /\ Tracked(st') = Tracked(st) /\ (Online(st', TRUE) => Online(st, TRUE))
      /\ \A u \in Threads : \A k : Asking(u, k)' <=> Asking(u, k)
  BY <1>1, <1>2 DEF Tracked, Online, Asking
<1>4. TypeOK'
  BY <1>0, <1>1, <1>2 DEF TypeOK
<1>5. ASSUME NEW u \in Threads PROVE CallInv(u)'
  <2>1. ShapeInv(u)'
    BY <1>0, <1>2, <1>3, <1>5 DEF CallInv, ShapeInv
  <2>2. OwnInv(u)'
    BY <1>0, <1>1, <1>2, <1>3, <1>5 DEF CallInv, OwnInv
  <2>3. ReplyInv(u)'
    BY <1>0, <1>2, <1>3, <1>5 DEF CallInv, ReplyInv
  <2> QED BY <2>1, <2>2, <2>3 DEF CallInv
<1>6. StateInv'
  BY <1>0, <1>1, <1>3 DEF FloatInv, StateInv
<1>7. ServerInv'
  BY <1>0, <1>1 DEF FloatInv, ServerInv
<1>8. SequenceInv'
  BY <1>0, <1>1, <1>2, <1>3 DEF FloatInv, SequenceInv
<1>9. ReleaseInv'
  BY <1>0, <1>2, <1>3 DEF FloatInv, ReleaseInv, Unreleased
<1>10. HeldInv'
  BY <1>0, <1>1, <1>2, <1>3 DEF FloatInv, HeldInv
<1>11. SeatInv'
  BY <1>0, <1>2, <1>3 DEF FloatInv, SeatInv, Accounted, Attempted
<1> QED BY <1>4, <1>5, <1>6, <1>7, <1>8, <1>9, <1>10, <1>11 DEF FloatInv

(***************************************************************************)
(* The theorems                                                            *)
(***************************************************************************)

LEMMA FloatInit ==
  ASSUME Init
  PROVE  FloatInv
<1> USE BoundsAssumption, TasksAssumption
<1>1. /\ st.session = NoSession /\ st.pend = None /\ life = "open" /\ serial = NoThread /\ current = {}
      /\ call = [t \in Threads |-> Idle] /\ drawn = 0 /\ sent = {} /\ fence = 0
      /\ seat = [i \in Ids |-> [state |-> "none", seq |-> 0]] /\ st \in States
      /\ dropped = {} /\ resolved = {}
  BY DEF Init, States
<1>2. TypeOK
  <2>1. Idle \in Calls
    BY DEF Idle, Calls, Replies, Stages, None
  <2> QED BY <1>1, <2>1 DEF TypeOK
<1>3. \A t \in Threads : call[t] = Idle /\ Idle.pc = "idle" /\ Idle.id = None /\ Idle.kind = "none"
  BY <1>1 DEF Idle
<1>4. \A t \in Threads : CallInv(t)
  BY <1>1, <1>3 DEF CallInv, ShapeInv, OwnInv, ReplyInv, Asking, None
<1>5. Tracked(st) = {} /\ \A i \in Ids : seat[i].state = "none"
  BY <1>1 DEF Tracked, NoSession
<1>6. StateInv /\ ServerInv /\ SequenceInv /\ ReleaseInv /\ SeatInv
  BY <1>1, <1>5 DEF StateInv, ServerInv, SequenceInv, ReleaseInv, SeatInv
<1>7. HeldInv
  BY <1>1, <1>3, <1>5 DEF HeldInv, Online
<1> QED BY <1>2, <1>4, <1>6, <1>7 DEF FloatInv

LEMMA FloatNext ==
  ASSUME FloatInv, [Next]_vars
  PROVE  FloatInv'
<1>1. ASSUME NEW t \in Threads, Running(t) PROVE FloatInv'
  BY <1>1, WaitStep, EndNowStep, StartNotNeededStep, StartRefusedStep, StartSendsStep, StartReleasedStep,
     StartOkStep, StartFailsStep, CleanupStep, ActivateSendsStep, AcceptStep, CheckStep,
     RenewSendsStep, RenewedStep, ReplyStep DEF Running
<1>2. CASE UNCHANGED vars
  <2>1. UNCHANGED <<st, life, serial, current, call, drawn, sent, seat, fence, dropped, resolved>>
    BY <1>2 DEF vars, server, history
  <2>2. TypeOK' /\ StateInv' /\ ServerInv'
    BY <2>1 DEF FloatInv, TypeOK, StateInv, ServerInv
  <2>3. \A u \in Threads : CallInv(u)'
    BY <2>1 DEF FloatInv, CallInv, ShapeInv, OwnInv, ReplyInv, Asking
  <2>4. SequenceInv' /\ ReleaseInv'
    BY <2>1 DEF FloatInv, SequenceInv, Asking, ReleaseInv, Unreleased
  <2>5. HeldInv' /\ SeatInv'
    BY <2>1 DEF FloatInv, HeldInv, SeatInv, Accounted, Attempted
  <2> QED BY <2>2, <2>3, <2>4, <2>5 DEF FloatInv
<1> QED BY <1>1, <1>2, BeginningStep, DropStep, MaintainStep, LocalStep, FinishCloseStep, ArriveStep, AgeStep
        DEF Next

\* The invariant that the theorems below rest on holds of every behaviour.
THEOREM FloatInductive == Spec => []FloatInv
<1>1. Init => FloatInv
  BY FloatInit
<1>2. FloatInv /\ [Next]_vars => FloatInv'
  BY FloatNext
<1> QED BY <1>1, <1>2, PTL DEF Spec

\* The fields of State, the calls under way, the requests in flight and the
\* service's seats keep their types, for any number of tasks.
THEOREM FloatTypes == Spec => []TypeOK
<1>1. FloatInv => TypeOK
  BY DEF FloatInv
<1> QED BY <1>1, FloatInductive, PTL

\* No answer to a start or a renewal brings back a session after end_session,
\* logout or a new activation (the generation checks of start_session_serialized
\* and renew_session): the session's id was drawn later.
THEOREM FloatEndIsFinal == Spec => []EndIsFinal
<1>1. FloatInv => EndIsFinal
  BY TypeFacts DEF FloatInv, StateInv, EndIsFinal
<1> QED BY <1>1, FloatInductive, PTL

\* While session_snapshot shows Online the service holds the seat: neither the
\* cleanup of an earlier attempt nor a delayed end request releases it.
THEOREM FloatSeatBehindAccess == Spec => []SeatBehindAccess
<1>1. FloatInv => SeatBehindAccess
  BY DEF FloatInv, HeldInv, SeatBehindAccess
<1> QED BY <1>1, FloatInductive, PTL

\* Whatever answers of renew_session were lost or came late, the sequence number
\* of the next renewal is the service's or the one after it.
THEOREM FloatRenewalsInStep == Spec => []RenewalsInStep
<1>1. ASSUME FloatInv, st.session # NoSession, seat[st.session.id].state = "held"
      PROVE  Renewal(st.session) \in {seat[st.session.id].seq, seat[st.session.id].seq + 1}
  <2>1. st.session.seq \in Nat /\ st.session.pending \in Nat
    BY <1>1, TypeFacts, BoundsAssumption DEF FloatInv, Sessions
  <2> QED BY <1>1, <2>1 DEF FloatInv, SequenceInv, Renewal
<1>2. FloatInv => RenewalsInStep
  BY <1>1 DEF RenewalsInStep
<1> QED BY <1>2, FloatInductive, PTL

LEMMA InvAccounts == FloatInv => SeatsAccounted
BY DEF FloatInv, SeatInv, Accounted, SeatsAccounted

\* No seat is lost: one that the service holds is known to the client, is the
\* business of a call under way, was given up on purpose, or its end was sent
\* (SessionAttemptGuard, send_session_end_cleanup, end_session and close).
THEOREM FloatSeatsAccounted == Spec => []SeatsAccounted
BY InvAccounts, FloatInductive, PTL

\* The steps that send send no start once close has begun.
LEMMA SendsNoStart ==
  ASSUME NEW M, \A m \in M : m.op # "start", Send(M), NEW i \in Ids, Start(i) \in sent'
  PROVE  Start(i) \in sent
BY DEF Send, Pending, Start

LEMMA CloseStarts ==
  ASSUME FloatInv, [Next]_vars, life # "open", NEW i \in Ids, Start(i) \in sent'
  PROVE  Start(i) \in sent
<1>0. \A S : \A m \in Ends(S) : m.op # "start"
  BY DEF Ends, End
<1>1. ASSUME NEW t \in Threads, Running(t) PROVE Start(i) \in sent
  <2>1. CASE EndNow(t)
    BY <1>0, <2>1 DEF EndNow
  <2>2. CASE StartSends(t)
    BY <2>2 DEF StartSends, Starting, Stale
  <2>3. CASE Cleanup(t)
    <3>1. Send({End(call[t].id)})
      BY <2>3 DEF Cleanup
    <3> QED BY <3>1, SendsNoStart DEF End
  <2>4. CASE RenewSends(t)
    BY <2>4 DEF RenewSends, Renewing, Stale
  <2>5. CASE Reply(t)
    BY <2>5 DEF Reply, Becomes, Pending, server
  <2>6. CASE \/ Enter(t) \/ Gen(t) \/ RunStale(t) \/ StartNotNeeded(t) \/ StartRefused(t)
             \/ StartStale(t) \/ StartOk(t) \/ StartFails(t) \/ StartInvalid(t)
    BY <2>6 DEF Enter, Gen, RunStale, StartNotNeeded, StartRefused, StartStale, StartOk, StartFails,
                StartInvalid, server
  <2>7. CASE \/ ActivateSends(t) \/ RefreshSends(t) \/ RequestSkipped(t) \/ AcceptStale(t)
             \/ AcceptFloating(t) \/ AcceptOrdinary(t) \/ AcceptTransient(t) \/ AcceptError(t)
             \/ Check(t) \/ RenewNothing(t) \/ Renewed(t)
    BY <2>7 DEF ActivateSends, RefreshSends, RequestSkipped, AcceptStale, AcceptFloating, AcceptOrdinary,
                AcceptTransient, AcceptError, Check, RenewNothing, Renewed, server
  <2> QED BY <1>1, <2>1, <2>2, <2>3, <2>4, <2>5, <2>6, <2>7 DEF Running
<1>2. ASSUME NEW t \in Threads, Drop(t) PROVE Start(i) \in sent
  <2>1. Send({End(call[t].id)}) \/ sent' = sent
    BY <1>2 DEF Drop
  <2> QED BY <2>1, SendsNoStart DEF End
<1>3. ASSUME NEW t \in Threads, Beginning(t) PROVE Start(i) \in sent
  BY <1>3 DEF Beginning, StartSession, RequireAccess, EndSession, Request, server
<1>4. CASE FinishClose
  <2>1. Send(Ends(Held(st))) \/ Send({})
    BY <1>4 DEF FinishClose
  <2> QED BY <1>0, <2>1, SendsNoStart
<1>5. CASE Arrive \/ SeatExpires
  BY <1>5 DEF Arrive, SeatExpires, Becomes, Pending
<1>6. CASE \/ Maintain \/ MaintainUncertain \/ Logout \/ ResolvePendingActivation \/ BeginClose \/ Age
           \/ UNCHANGED vars
  BY <1>6 DEF Maintain, MaintainUncertain, Logout, ResolvePendingActivation, BeginClose, Age, vars, server
<1> QED BY <1>1, <1>2, <1>3, <1>4, <1>5, <1>6 DEF Next

\* Once close has begun no start request is sent any more, so the end request
\* of close releases the last seat there will be, and none is lost track of
\* (close in installed.rs, start_session_serialized).
THEOREM FloatNoStartAfterClose == Spec => NoStartAfterClose
<1>1. FloatInv /\ [Next]_vars =>
        [life # "open" => \A i \in Ids : Start(i) \in sent' => Start(i) \in sent]_vars
  BY CloseStarts
<1> QED BY <1>1, InvAccounts, FloatInductive, PTL DEF Spec, NoStartAfterClose
=============================================================================
