---------------------------- MODULE ServicesProofs ----------------------------
(***************************************************************************)
(* TLAPS proofs about customer accounts (module Accounts), for every set   *)
(* of tasks and customers and every bound, alone and as part of            *)
(* MCServices.                                                             *)
(***************************************************************************)
EXTENDS MCServices, TLAPS

(***************************************************************************)
(* The inductive invariant                                                 *)
(***************************************************************************)

\* What the client holds: a session the server created, asked for since the
\* last sign-out, and an activation of that session's customer.
HeldInv ==
  /\ mem.account # NoSession => mem.account \in Created /\ mem.born = epoch
  /\ mem.cred # NoOne => mem.credBorn = epoch
  /\ mem.account # NoSession /\ mem.cred # NoOne => mem.cred = owner[mem.account]
  /\ epoch =< mem.gen

\* A call that waits for an answer holds the lock; as long as the generation
\* it sent with is the client's, nobody has signed out since, and the session
\* it sent is the one signed in (or nobody is).
CallInv(t) ==
  /\ call[t].gen =< mem.gen
  /\ call[t].kind = "login" => call[t].who \in Customers
  /\ call[t].kind = "logout" => call[t].session \in Sessions
  /\ call[t].pc = "wait" => ~call[t].served
  /\ call[t].kind = "login" /\ call[t].served => call[t].session \in Created
  /\ call[t].pc = "sent" /\ call[t].kind # "logout" =>
       /\ serial = t
       /\ call[t].gen = mem.gen =>
            /\ call[t].born = epoch
            /\ call[t].kind = "login" => mem.account = NoSession /\ mem.cred = NoOne
            /\ call[t].kind = "activateKey" => mem.account = NoSession
            /\ call[t].kind \in {"query", "activateAccount"} =>
                 call[t].session = mem.account /\ mem.account # NoSession

AccountInv == TypeOK /\ HeldInv /\ \A t \in Threads : CallInv(t)

Memories == [gen : 0..MaxGen, account : Sessions \cup {NoSession},
             cred : Customers \cup {Key, NoOne}, born : Nat, credBorn : Nat]

(***************************************************************************)
(* Lemmas                                                                  *)
(***************************************************************************)

\* Facts every step starts from.
LEMMA AccountFacts ==
  ASSUME AccountInv
  PROVE  /\ mem \in Memories /\ mem.gen \in Nat /\ epoch \in Nat /\ epoch =< mem.gen
         /\ \A t \in Threads : call[t] \in Calls /\ CallInv(t)
         /\ Idle \in Calls
         /\ NoSession \notin Sessions
<1>1. mem \in Memories /\ epoch =< mem.gen /\ \A t \in Threads : call[t] \in Calls /\ CallInv(t)
  BY DEF AccountInv, TypeOK, HeldInv, Memories
<1>2. mem.gen \in Nat /\ epoch \in Nat
  BY <1>1, BoundsAssumption DEF AccountInv, TypeOK, Memories
<1>3. Idle \in Calls
  BY BoundsAssumption DEF Calls, Idle, Kinds, NoSession
<1>4. NoSession \notin Sessions
  BY BoundsAssumption DEF Sessions, NoSession
<1> QED BY <1>1, <1>2, <1>3, <1>4

\* What another task's step leaves of a call: its generation may become old,
\* but does not become current again.
LEMMA OthersKept ==
  ASSUME AccountInv, NEW u \in Threads, call'[u] = call[u],
         mem'.gen \in Nat, mem.gen =< mem'.gen, serial = u => serial' = u,
         Created \subseteq Created',
         serial = u /\ mem'.gen = mem.gen =>
           mem'.account = mem.account /\ mem'.cred = mem.cred /\ epoch' = epoch
  PROVE  CallInv(u)'
<1>1. CallInv(u) /\ mem.gen \in Nat /\ call[u] \in Calls /\ call[u].gen \in Nat
  BY AccountFacts DEF Calls
<1>2. call[u].gen = mem'.gen => mem'.gen = mem.gen
  BY <1>1 DEF CallInv
<1> QED BY <1>1, <1>2 DEF CallInv

\* A call that has returned asks for nothing.
LEMMA IdleKept ==
  ASSUME AccountInv, NEW t \in Threads, call'[t] = Idle, mem'.gen \in Nat
  PROVE  CallInv(t)'
BY DEF CallInv, Idle

\* The client has forgotten everything, and its generation moved.
LEMMA ClearedMem ==
  ASSUME AccountInv, mem.gen < MaxGen
  PROVE  /\ Clear(mem) \in Memories
         /\ Clear(mem).gen = mem.gen + 1 /\ Clear(mem).account = NoSession
         /\ Clear(mem).cred = NoOne
<1>1. mem.gen + 1 \in 0..MaxGen /\ mem \in Memories
  BY AccountFacts, BoundsAssumption
<1> QED BY <1>1 DEF Clear, Memories

(***************************************************************************)
(* One step per action                                                     *)
(***************************************************************************)

\* A call is turned away, or ends without an effect on the client.
LEMMA QuietStep ==
  ASSUME AccountInv, NEW t \in Threads, UNCHANGED <<mem, owner, epoch>>, Return(t),
         answer' \in Sessions \cup {NoSession}, revoked' \subseteq Sessions
  PROVE  AccountInv'
<1>1. /\ mem \in Memories /\ mem.gen \in Nat /\ mem' = mem /\ owner' = owner /\ epoch' = epoch
      /\ call' = [call EXCEPT ![t] = Idle]
      /\ serial' \in {serial, NoThread} /\ (serial # t => serial' = serial)
      /\ Created' = Created
  BY AccountFacts DEF Return, Created
<1>2. HeldInv'
  BY <1>1 DEF AccountInv, HeldInv
<1>3. TypeOK'
  BY <1>1, AccountFacts DEF AccountInv, TypeOK
<1>4. \A u \in Threads : CallInv(u)'
  <2> TAKE u \in Threads
  <2>1. CASE u = t
    BY <1>1, <2>1, AccountFacts, IdleKept DEF AccountInv, TypeOK
  <2>2. CASE u # t
    BY <1>1, <2>2, OthersKept DEF AccountInv, TypeOK
  <2> QED BY <2>1, <2>2
<1> QED BY <1>2, <1>3, <1>4 DEF AccountInv

\* generation(): a call starts.
LEMMA EnterStep ==
  ASSUME AccountInv, NEW t \in Threads, NEW k \in Kinds \ {"logout"},
         NEW w \in Customers \cup {Key, NoOne}, k = "login" => w \in Customers, Enter(t, k, w)
  PROVE  AccountInv'
<1> DEFINE c == [Idle EXCEPT !.pc = "wait", !.kind = k, !.gen = mem.gen, !.who = w]
<1>1. /\ c \in Calls /\ c.pc = "wait" /\ c.kind = k /\ c.gen = mem.gen /\ c.who = w
  BY AccountFacts DEF Idle, Calls, Memories
<1>2. c.served = FALSE
  BY DEF Idle
<1>3. /\ call' = [call EXCEPT ![t] = c] /\ mem' = mem /\ serial' = serial /\ owner' = owner
      /\ revoked' = revoked /\ epoch' = epoch /\ answer' = answer
  BY DEF Enter
<1> HIDE DEF c
<1>4. mem \in Memories /\ mem.gen \in Nat /\ Created' = Created
  BY <1>3, AccountFacts DEF Created
<1>5. TypeOK' /\ HeldInv'
  BY <1>1, <1>3, <1>4, AccountFacts DEF AccountInv, TypeOK, HeldInv
<1>6. \A u \in Threads : CallInv(u)'
  <2> TAKE u \in Threads
  <2>1. CASE u = t
    <3>1. call'[u] = c
      BY <1>3, <2>1, AccountFacts DEF AccountInv, TypeOK
    <3>2. ~call'[u].served
      BY <1>2, <3>1
    <3>3. call'[u].pc = "wait" /\ call'[u].gen =< mem'.gen
          /\ (call'[u].kind = "login" => call'[u].who \in Customers) /\ call'[u].kind # "logout"
      BY <1>1, <1>3, <1>4, <3>1
    <3> QED BY <3>2, <3>3 DEF CallInv
  <2>2. CASE u # t
    BY <1>3, <1>4, <2>2, OthersKept DEF AccountInv, TypeOK
  <2> QED BY <2>1, <2>2
<1> QED BY <1>5, <1>6 DEF AccountInv

\* A call ends and the client's state changes: a generation older than the new
\* one is of no use to anybody else.
LEMMA EffectStep ==
  ASSUME AccountInv, NEW t \in Threads, Return(t), mem' \in Memories, HeldInv',
         UNCHANGED <<owner, revoked, epoch, answer>>,
         mem.gen =< mem'.gen, serial = t \/ mem.gen < mem'.gen
  PROVE  AccountInv'
<1>1. /\ call' = [call EXCEPT ![t] = Idle] /\ serial' \in {serial, NoThread}
      /\ (serial # t => serial' = serial) /\ Created' = Created /\ mem'.gen \in Nat /\ mem.gen \in Nat
  BY AccountFacts, BoundsAssumption DEF Return, Created, Memories
<1>2. TypeOK'
  BY <1>1, AccountFacts DEF AccountInv, TypeOK, Memories
<1>3. \A u \in Threads : CallInv(u)'
  <2> TAKE u \in Threads
  <2>1. CASE u = t
    BY <1>1, <2>1, IdleKept DEF AccountInv, TypeOK
  <2>2. CASE u # t
    BY <1>1, <2>2, OthersKept DEF AccountInv, TypeOK
  <2> QED BY <2>1, <2>2
<1> QED BY <1>2, <1>3 DEF AccountInv

\* A request is sent: nobody else's is under way.
LEMMA SentStep ==
  ASSUME AccountInv, NEW t \in Threads, NEW m \in Memories, NEW s \in Sessions \cup {NoSession},
         call[t].pc = "wait", call[t].kind # "logout", serial = NoThread, Sent(t, m, s),
         UNCHANGED <<owner, revoked, epoch, answer>>, HeldInv', mem.gen =< m.gen,
         call[t].kind = "login" => m.account = NoSession /\ m.cred = NoOne,
         call[t].kind = "activateKey" => m.account = NoSession,
         call[t].kind \in {"query", "activateAccount"} => s = m.account /\ m.account # NoSession
  PROVE  AccountInv'
<1> DEFINE c == [call[t] EXCEPT !.pc = "sent", !.gen = m.gen, !.session = s, !.born = epoch]
<1>1. mem' = m /\ serial' = t /\ call' = [call EXCEPT ![t] = c]
  BY AccountFacts DEF Sent, AccountInv, TypeOK, Calls
<1>2. /\ c \in Calls /\ c.pc = "sent" /\ c.kind = call[t].kind /\ c.gen = m.gen
      /\ c.who = call[t].who /\ c.session = s /\ c.born = epoch
  BY AccountFacts DEF Calls, Memories
<1>3. c.served = call[t].served /\ ~call[t].served
  <2>1. ~call[t].served
    BY AccountFacts DEF CallInv
  <2>2. DOMAIN call[t] = {"pc", "kind", "gen", "who", "session", "served", "born"}
    BY AccountFacts DEF Calls
  <2> QED BY <2>1, <2>2, Zenon
<1> HIDE DEF c
<1>4. m.gen \in Nat /\ Created' = Created /\ t # NoThread
  BY BoundsAssumption, NamesAssumption DEF Memories, Created
<1>5. TypeOK'
  BY <1>1, <1>2, AccountFacts DEF AccountInv, TypeOK, Memories
<1>6. \A u \in Threads : CallInv(u)'
  <2> TAKE u \in Threads
  <2>1. CASE u = t
    <3>1. call'[u] = c
      BY <1>1, <2>1, AccountFacts DEF AccountInv, TypeOK
    <3>2. CallInv(t)
      BY AccountFacts
    <3> QED BY <1>1, <1>2, <1>3, <1>4, <2>1, <3>1, <3>2 DEF CallInv
  <2>2. CASE u # t
    BY <1>1, <1>4, <2>2, NamesAssumption, OthersKept DEF AccountInv, TypeOK
  <2> QED BY <2>1, <2>2
<1> QED BY <1>5, <1>6 DEF AccountInv

\* login, owned_licences, activate: up to the request.
LEMMA SendsStep ==
  ASSUME AccountInv, NEW t \in Threads, LoginSends(t) \/ QuerySends(t) \/ ActivateSends(t)
  PROVE  AccountInv'
<1>1. CASE LoginSends(t)
  <2>1. /\ mem.gen < MaxGen /\ call[t].pc = "wait" /\ call[t].kind = "login" /\ serial = NoThread
        /\ Sent(t, Clear(mem), NoSession) /\ UNCHANGED <<owner, revoked, epoch, answer>>
    BY <1>1 DEF LoginSends, Admitted
  <2>2. /\ Clear(mem) \in Memories /\ Clear(mem).gen = mem.gen + 1
        /\ Clear(mem).account = NoSession /\ Clear(mem).cred = NoOne /\ mem' = Clear(mem)
    BY <2>1, ClearedMem DEF Sent
  <2>3. HeldInv'
    BY <2>1, <2>2, AccountFacts DEF HeldInv
  <2> QED BY <2>1, <2>2, <2>3, AccountFacts, SentStep
<1>2. CASE QuerySends(t)
  <2>1. /\ mem.account # NoSession /\ call[t].pc = "wait" /\ call[t].kind = "query"
        /\ serial = NoThread
        /\ Sent(t, mem, mem.account) /\ UNCHANGED <<owner, revoked, epoch, answer>>
    BY <1>2 DEF QuerySends, Admitted
  <2>2. mem \in Memories /\ mem.account \in Sessions \cup {NoSession} /\ mem' = mem
    BY <2>1, AccountFacts DEF Sent, Memories
  <2>3. HeldInv'
    BY <2>1, <2>2 DEF AccountInv, HeldInv, Created
  <2> QED BY <2>1, <2>2, <2>3, AccountFacts, SentStep
<1>3. CASE ActivateSends(t)
  <2> DEFINE a == IF call[t].kind = "activateKey" THEN NoSession ELSE mem.account
             m == [mem EXCEPT !.gen = mem.gen + 1, !.account = a]
  <2>1. /\ mem.gen < MaxGen /\ call[t].pc = "wait" /\ serial = NoThread
        /\ call[t].kind \in {"activateKey", "activateAccount"}
        /\ call[t].kind = "activateAccount" => mem.account # NoSession
        /\ Sent(t, m, a) /\ UNCHANGED <<owner, revoked, epoch, answer>>
    BY <1>3, AccountFacts DEF ActivateSends, Admitted, SignedInFor, Memories
  <2>2. a \in Sessions \cup {NoSession} /\ a \in {mem.account, NoSession}
        /\ mem.gen + 1 \in 0..MaxGen
    BY <2>1, AccountFacts, BoundsAssumption DEF Memories
  <2>3. /\ m \in Memories /\ m.gen = mem.gen + 1 /\ m.account = a /\ m.cred = mem.cred
        /\ m.born = mem.born /\ m.credBorn = mem.credBorn
    BY <2>2, AccountFacts DEF Memories
  <2>4. a = IF call[t].kind = "activateKey" THEN NoSession ELSE mem.account
    OBVIOUS
  <2> HIDE DEF m, a
  <2>5. mem' = m
    BY <2>1 DEF Sent
  <2>6. HeldInv'
    BY <2>1, <2>2, <2>3, <2>5, AccountFacts DEF AccountInv, HeldInv, Created
  <2> QED BY <2>1, <2>2, <2>3, <2>4, <2>6, AccountFacts, SentStep
<1> QED BY <1>1, <1>2, <1>3

\* The server carries a request out: only a session nobody has is given away.
LEMMA ServerStep ==
  ASSUME AccountInv, NEW t \in Threads, ServerSignsIn(t) \/ ServerServes(t)
  PROVE  AccountInv'
<1>1. CASE ServerSignsIn(t)
  <2>1. PICK s \in Sessions :
          /\ s \notin Created
          /\ owner' = [owner EXCEPT ![s] = call[t].who]
          /\ call' = [call EXCEPT ![t].served = TRUE, ![t].session = s]
    BY <1>1 DEF ServerSignsIn
  <2> DEFINE c == [call[t] EXCEPT !.served = TRUE, !.session = s]
  <2>2. /\ call[t].pc = "sent" /\ call[t].kind = "login"
        /\ UNCHANGED <<mem, serial, revoked, epoch, answer>>
    BY <1>1 DEF ServerSignsIn
  <2>3. /\ c \in Calls /\ c.pc = "sent" /\ c.kind = "login" /\ c.gen = call[t].gen
        /\ c.who = call[t].who /\ c.session = s /\ c.born = call[t].born
        /\ call' = [call EXCEPT ![t] = c]
    BY <2>1, <2>2, AccountFacts DEF AccountInv, TypeOK, Calls
  <2> HIDE DEF c
  <2>4. call[t].who \in Customers /\ call[t].who # NoOne /\ CallInv(t)
    BY <2>2, AccountFacts, NamesAssumption DEF CallInv
  <2>5. /\ owner' \in [Sessions -> Customers \cup {NoOne}]
        /\ \A r \in Created : owner'[r] = owner[r] /\ r \in Created'
        /\ s \in Created'
    BY <2>1, <2>4 DEF AccountInv, TypeOK, Created
  <2>6. TypeOK'
    BY <2>2, <2>3, <2>5, AccountFacts DEF AccountInv, TypeOK
  <2>7. HeldInv'
    BY <2>2, <2>5 DEF AccountInv, HeldInv
  <2>8. \A u \in Threads : CallInv(u)'
    <3> TAKE u \in Threads
    <3>1. CASE u = t
      <4>1. call'[u] = c
        BY <2>3, <3>1, AccountFacts DEF AccountInv, TypeOK
      <4> QED BY <2>2, <2>3, <2>4, <2>5, <3>1, <4>1 DEF CallInv
    <3>2. CASE u # t
      <4>1. call'[u] = call[u]
        BY <2>3, <3>2, AccountFacts DEF AccountInv, TypeOK
      <4> QED BY <2>2, <2>5, <4>1, AccountFacts, OthersKept
    <3> QED BY <3>1, <3>2
  <2> QED BY <2>6, <2>7, <2>8 DEF AccountInv
<1>2. CASE ServerServes(t)
  <2> DEFINE c == [call[t] EXCEPT !.served = TRUE]
  <2>1. /\ call[t].pc = "sent" /\ call[t].kind \in {"query", "activateKey", "activateAccount"}
        /\ mem' = mem /\ serial' = serial /\ owner' = owner /\ revoked' = revoked
        /\ epoch' = epoch /\ answer' = answer /\ Created' = Created
    BY <1>2 DEF ServerServes, Created
  <2>2. /\ c \in Calls /\ c.pc = "sent" /\ c.kind = call[t].kind /\ c.gen = call[t].gen
        /\ c.who = call[t].who /\ c.session = call[t].session /\ c.born = call[t].born
        /\ call' = [call EXCEPT ![t] = c]
    BY <1>2, <2>1, AccountFacts DEF ServerServes, AccountInv, TypeOK, Calls
  <2> HIDE DEF c
  <2>3. TypeOK' /\ HeldInv'
    BY <2>1, <2>2, AccountFacts DEF AccountInv, TypeOK, HeldInv
  <2>4. \A u \in Threads : CallInv(u)'
    <3> TAKE u \in Threads
    <3>1. CASE u = t
      <4>1. call'[u] = c /\ CallInv(t)
        BY <2>2, <3>1, AccountFacts DEF AccountInv, TypeOK
      <4> QED BY <2>1, <2>2, <3>1, <4>1 DEF CallInv
    <3>2. CASE u # t
      <4>1. call'[u] = call[u]
        BY <2>2, <3>2, AccountFacts DEF AccountInv, TypeOK
      <4> QED BY <2>1, <4>1, AccountFacts, OthersKept
    <3> QED BY <3>1, <3>2
  <2> QED BY <2>3, <2>4 DEF AccountInv
<1> QED BY <1>1, <1>2

\* The answer of a call whose generation is still the client's.
LEMMA SucceedsStep ==
  ASSUME AccountInv, NEW t \in Threads, LoginSucceeds(t) \/ ActivateSucceeds(t)
  PROVE  AccountInv'
<1>1. CallInv(t) /\ call[t] \in Calls /\ mem \in Memories
  BY AccountFacts
<1>2. /\ call[t].session \in Sessions \cup {NoSession} /\ call[t].born \in Nat
  BY <1>1 DEF Calls
<1>3. CASE LoginSucceeds(t)
  <2>1. /\ call[t].pc = "sent" /\ call[t].kind = "login" /\ call[t].served
        /\ call[t].gen = mem.gen /\ Return(t)
        /\ mem' = [mem EXCEPT !.account = call[t].session, !.born = call[t].born]
        /\ UNCHANGED <<owner, revoked, epoch, answer>>
    BY <1>3 DEF LoginSucceeds, Stale
  <2>2. /\ mem' \in Memories /\ mem'.account = call[t].session /\ mem'.born = call[t].born
        /\ mem'.gen = mem.gen /\ mem'.cred = mem.cred
    BY <1>1, <1>2, <2>1 DEF Memories
  <2>3. /\ call[t].born = epoch /\ mem.cred = NoOne /\ serial = t
        /\ call[t].session \in Created
    BY <1>1, <2>1 DEF CallInv
  <2>4. HeldInv'
    BY <2>1, <2>2, <2>3 DEF AccountInv, HeldInv, Created
  <2> QED BY <2>1, <2>2, <2>3, <2>4, AccountFacts, EffectStep
<1>4. CASE ActivateSucceeds(t)
  <2> DEFINE w == IF call[t].kind = "activateKey" THEN Key ELSE owner[call[t].session]
  <2>1. /\ call[t].pc = "sent" /\ call[t].kind \in {"activateKey", "activateAccount"}
        /\ call[t].gen = mem.gen /\ Return(t)
        /\ mem' = [mem EXCEPT !.credBorn = call[t].born, !.cred = w]
        /\ UNCHANGED <<owner, revoked, epoch, answer>>
    BY <1>4 DEF ActivateSucceeds, Stale
  <2>2. /\ call[t].born = epoch /\ serial = t
        /\ call[t].kind = "activateKey" => mem.account = NoSession
        /\ call[t].kind = "activateAccount" =>
             call[t].session = mem.account /\ mem.account # NoSession
    BY <1>1, <2>1 DEF CallInv
  <2>3. w \in Customers \cup {Key, NoOne} /\ (mem.account # NoSession => w = owner[mem.account])
    BY <1>2, <2>1, <2>2 DEF AccountInv, TypeOK
  <2> HIDE DEF w
  <2>4. /\ mem' \in Memories /\ mem'.account = mem.account /\ mem'.born = mem.born
        /\ mem'.gen = mem.gen /\ mem'.cred = w /\ mem'.credBorn = call[t].born
    BY <1>1, <1>2, <2>1, <2>3 DEF Memories
  <2>5. HeldInv'
    BY <2>1, <2>2, <2>3, <2>4 DEF AccountInv, HeldInv, Created
  <2> QED BY <2>1, <2>2, <2>4, <2>5, AccountFacts, EffectStep
<1> QED BY <1>3, <1>4

\* The answer is an error: the generation moves.
LEMMA FailsStep ==
  ASSUME AccountInv, NEW t \in Threads, FinishFails(t) \/ ActivateFails(t)
  PROVE  AccountInv'
<1>1. /\ mem.gen < MaxGen /\ Return(t) /\ UNCHANGED <<owner, revoked, epoch, answer>>
      /\ mem' = Clear(mem) \/ mem' = [mem EXCEPT !.gen = mem.gen + 1]
  BY AccountFacts DEF FinishFails, ActivateFails, Memories
<1>2. mem.gen + 1 \in 0..MaxGen /\ mem.gen \in Nat /\ mem \in Memories
  BY <1>1, AccountFacts, BoundsAssumption
<1>3. CASE mem' = Clear(mem)
  <2>1. /\ mem' \in Memories /\ mem'.gen = mem.gen + 1 /\ mem'.account = NoSession
        /\ mem'.cred = NoOne
    BY <1>1, <1>3, ClearedMem
  <2>2. HeldInv'
    BY <1>1, <2>1, AccountFacts DEF HeldInv
  <2> QED BY <1>1, <1>2, <2>1, <2>2, EffectStep
<1>4. CASE mem' = [mem EXCEPT !.gen = mem.gen + 1]
  <2>1. /\ mem' \in Memories /\ mem'.gen = mem.gen + 1 /\ mem'.account = mem.account
        /\ mem'.cred = mem.cred /\ mem'.born = mem.born /\ mem'.credBorn = mem.credBorn
    BY <1>2, <1>4 DEF Memories
  <2>2. HeldInv'
    BY <1>1, <2>1, AccountFacts DEF AccountInv, HeldInv, Created
  <2> QED BY <1>1, <1>2, <2>1, <2>2, EffectStep
<1> QED BY <1>1, <1>3, <1>4

\* logout and logout_account do not wait for the lock: every call under way is
\* of an older generation from here on.
LEMMA LogoutStep == ASSUME AccountInv, NEW t \in Threads, LogoutAccount(t) PROVE AccountInv'
<1> DEFINE c == [Idle EXCEPT !.pc = "sent", !.kind = "logout", !.session = mem.account]
<1>1. /\ mem.gen < MaxGen /\ mem' = Clear(mem) /\ epoch' = epoch + 1
      /\ call' = call \/ (call' = [call EXCEPT ![t] = c] /\ mem.account # NoSession)
      /\ serial' = serial /\ owner' = owner /\ revoked' = revoked /\ answer' = answer
  BY DEF LogoutAccount, SignedOut
<1>2. /\ mem' \in Memories /\ mem'.gen = mem.gen + 1 /\ mem'.account = NoSession
      /\ mem'.cred = NoOne /\ mem.gen \in Nat /\ Created' = Created
  BY <1>1, AccountFacts, ClearedMem DEF Created
<1>3. epoch + 1 \in 0..MaxGen /\ epoch' =< mem'.gen
  BY <1>1, <1>2, AccountFacts, BoundsAssumption
<1>4. /\ c \in Calls /\ c.pc = "sent" /\ c.kind = "logout" /\ c.gen = 0
      /\ mem.account # NoSession => c.session \in Sessions
  BY AccountFacts DEF Idle, Calls, Kinds, Memories
<1> HIDE DEF c
<1>5. TypeOK'
  BY <1>1, <1>2, <1>3, <1>4, AccountFacts DEF AccountInv, TypeOK, Memories
<1>6. HeldInv'
  BY <1>2, <1>3 DEF HeldInv
<1>7. \A u \in Threads : CallInv(u)'
  <2> TAKE u \in Threads
  <2>1. CASE call'[u] = call[u]
    BY <1>1, <1>2, <2>1, OthersKept
  <2>2. CASE call'[u] = c /\ mem.account # NoSession
    BY <1>2, <1>4, <2>2 DEF CallInv
  <2> QED BY <1>1, <2>1, <2>2, AccountFacts DEF AccountInv, TypeOK
<1> QED BY <1>5, <1>6, <1>7 DEF AccountInv

(***************************************************************************)
(* The theorems about accounts                                             *)
(***************************************************************************)

\* Nobody is signed in at first.
LEMMA AccountInit == Init => AccountInv
<1> SUFFICES ASSUME Init PROVE AccountInv
  OBVIOUS
<1>1. Idle \in Calls /\ NoSession \notin Sessions /\ 0 \in 0..MaxGen
  BY BoundsAssumption DEF Calls, Idle, Kinds, NoSession, Sessions
<1>2. TypeOK /\ HeldInv
  BY <1>1 DEF Init, TypeOK, HeldInv
<1>3. \A t \in Threads : CallInv(t)
  BY DEF Init, CallInv, Idle
<1> QED BY <1>2, <1>3 DEF AccountInv

\* Every step of the callers and of the server keeps the invariant.
LEMMA AccountNext == AccountInv /\ [Next]_vars => AccountInv'
<1> SUFFICES ASSUME AccountInv, [Next]_vars PROVE AccountInv'
  OBVIOUS
<1>1. ASSUME NEW t \in Threads, NEW c \in Customers, Enter(t, "login", c) PROVE AccountInv'
  BY <1>1, EnterStep DEF Kinds
<1>2. ASSUME NEW t \in Threads, NEW k \in {"query", "activateKey", "activateAccount"},
             Enter(t, k, NoOne)
      PROVE  AccountInv'
  BY <1>2, EnterStep DEF Kinds
<1>3. ASSUME NEW t \in Threads, Rejected(t) \/ ReturnUnchanged(t) \/ DeleteFails(t)
      PROVE  AccountInv'
  BY <1>3, QuietStep DEF Rejected, ReturnUnchanged, DeleteFails, AccountInv, TypeOK
<1>4. ASSUME NEW t \in Threads, QuerySucceeds(t) PROVE AccountInv'
  <2>1. call[t].session \in Sessions \cup {NoSession}
    BY AccountFacts DEF Calls
  <2> QED BY <1>4, <2>1, QuietStep DEF QuerySucceeds, AccountInv, TypeOK
<1>5. ASSUME NEW t \in Threads, DeleteSucceeds(t) PROVE AccountInv'
  <2>1. revoked' \subseteq Sessions
    <3>1. call[t].session \in Sessions
      BY <1>5, AccountFacts DEF DeleteSucceeds, CallInv
    <3> QED BY <1>5, <3>1 DEF DeleteSucceeds, AccountInv, TypeOK
  <2> QED BY <1>5, <2>1, QuietStep DEF DeleteSucceeds, AccountInv, TypeOK
<1>6. ASSUME NEW t \in Threads, LoginSends(t) \/ QuerySends(t) \/ ActivateSends(t)
      PROVE  AccountInv'
  BY <1>6, SendsStep
<1>7. ASSUME NEW t \in Threads, ServerSignsIn(t) \/ ServerServes(t) PROVE AccountInv'
  BY <1>7, ServerStep
<1>8. ASSUME NEW t \in Threads, LoginSucceeds(t) \/ ActivateSucceeds(t) PROVE AccountInv'
  BY <1>8, SucceedsStep
<1>9. ASSUME NEW t \in Threads, FinishFails(t) \/ ActivateFails(t) PROVE AccountInv'
  BY <1>9, FailsStep
<1>10. ASSUME NEW t \in Threads, LogoutAccount(t) PROVE AccountInv'
  BY <1>10, LogoutStep
<1>11. ASSUME NEW s \in Sessions, ServerRevokes(s) PROVE AccountInv'
  <2>1. TypeOK' /\ HeldInv'
    BY <1>11 DEF ServerRevokes, AccountInv, TypeOK, HeldInv, Created
  <2>2. \A t \in Threads : CallInv(t)'
    BY <1>11 DEF ServerRevokes, AccountInv, CallInv, Created
  <2> QED BY <2>1, <2>2 DEF AccountInv
<1>12. CASE UNCHANGED vars
  <2>1. TypeOK' /\ HeldInv'
    BY <1>12 DEF vars, AccountInv, TypeOK, HeldInv, Created
  <2>2. \A t \in Threads : CallInv(t)'
    BY <1>12 DEF vars, AccountInv, CallInv, Created
  <2> QED BY <2>1, <2>2 DEF AccountInv
<1> QED BY <1>1, <1>2, <1>3, <1>4, <1>5, <1>6, <1>7, <1>8, <1>9, <1>10, <1>11, <1>12 DEF Next

\* The invariant holds of every state the accounts reach.
THEOREM AccountInductive == Spec => []AccountInv
BY AccountInit, AccountNext, PTL DEF Spec

\* What the invariant says of the client.
LEMMA AccountSafe == AccountInv => TypeOK /\ NoCrossCustomerAccess /\ SignOutIsFinal
BY DEF AccountInv, HeldInv, NoCrossCustomerAccess, SignOutIsFinal

\* login, activate and logout_account in any order and overlap: one customer's
\* activation is never used while another customer is signed in.
THEOREM CustomersAreSeparate == Spec => []NoCrossCustomerAccess
BY AccountInductive, AccountSafe, PTL

\* logout and logout_account: neither a session nor an activation that was
\* asked for before the last sign-out is held after it.
THEOREM SignOutStays == Spec => []SignOutIsFinal
BY AccountInductive, AccountSafe, PTL

\* finish_account delivers an answer only while the session it was obtained
\* with is the one signed in.
LEMMA AnswerStep == AccountInv /\ [Next]_vars => AnswerMatchesAccount
<1> SUFFICES ASSUME AccountInv, [Next]_vars, answer' # answer PROVE mem.account = answer'
  BY DEF AnswerMatchesAccount
<1>1. PICK t \in Threads : QuerySucceeds(t)
  BY DEF Next, vars, Enter, Rejected, LoginSends, QuerySends, ActivateSends, ServerSignsIn,
         ServerServes, ReturnUnchanged, LoginSucceeds, ActivateSucceeds, FinishFails,
         ActivateFails, LogoutAccount, DeleteSucceeds, DeleteFails, ServerRevokes
<1> QED BY <1>1, AccountFacts DEF QuerySucceeds, Stale, CallInv

\* The same, of every step.
THEOREM AnswersAreCurrent == Spec => [][AnswerMatchesAccount]_vars
<1>1. AccountInv /\ [Next]_vars => [AnswerMatchesAccount]_vars
  BY AnswerStep
<1> QED BY <1>1, AccountInductive, PTL DEF Spec

(***************************************************************************)
(* The services together                                                   *)
(***************************************************************************)

\* The proofs of module DownloadsProofs, for the two instances of MCServices.
PairProofs == INSTANCE DownloadsProofs WITH
  D <- {d1, d2}, Releases <- {1, 2}, Installed <- 1, Len <- 1, MaxSize <- 1,
  LastHop <- 1, Skew <- 0, MaxLife <- 1, MaxTime <- 0, MaxLosses <- 1

SingleProofs == INSTANCE DownloadsProofs WITH
  D <- {d3}, Releases <- {1, 2}, Installed <- 1, Len <- 2, MaxSize <- 2,
  LastHop <- 2, Skew <- 1, MaxLife <- 2, MaxTime <- 5, MaxLosses <- 1

\* They are about the same downloads.
LEMMA SamePair ==
  /\ Pair!ConstantsOK <=> PairProofs!ConstantsOK
  /\ Pair!Init <=> PairProofs!Init
  /\ Pair!Next <=> PairProofs!Next
  /\ Pair!vars = PairProofs!vars
BY Zenon
   DEF Pair!ConstantsOK, PairProofs!ConstantsOK, Pair!Artifacts, PairProofs!Artifacts,
       Pair!Offers, PairProofs!Offers, Pair!Accepts, PairProofs!Accepts, Pair!SameArtifact,
       PairProofs!SameArtifact, Pair!Tickets, PairProofs!Tickets, Pair!NoTicket,
       PairProofs!NoTicket, Pair!TicketGood, PairProofs!TicketGood, Pair!Steps,
       PairProofs!Steps, Pair!NoFile, PairProofs!NoFile, Pair!IdleDownload,
       PairProofs!IdleDownload, Pair!At, PairProofs!At, Pair!Goto, PairProofs!Goto,
       Pair!OnDisk, PairProofs!OnDisk, Pair!World, PairProofs!World, Pair!History,
       PairProofs!History, Pair!Fail, PairProofs!Fail, Pair!CheckForUpdates,
       PairProofs!CheckForUpdates, Pair!AuthorizeDownload, PairProofs!AuthorizeDownload,
       Pair!Start, PairProofs!Start, Pair!CarriesTicket, PairProofs!CarriesTicket, Pair!Sends,
       PairProofs!Sends, Pair!MoreHops, PairProofs!MoreHops, Pair!Redirected,
       PairProofs!Redirected, Pair!Serves, PairProofs!Serves, Pair!Accepted,
       PairProofs!Accepted, Pair!RequestFails, PairProofs!RequestFails, Pair!Chunk,
       PairProofs!Chunk, Pair!BodyFails, PairProofs!BodyFails, Pair!Whole, PairProofs!Whole,
       Pair!BodyEnds, PairProofs!BodyEnds, Pair!SyncAll, PairProofs!SyncAll, Pair!Sync,
       PairProofs!Sync, Pair!LastCheck, PairProofs!LastCheck, Pair!MayPublish,
       PairProofs!MayPublish, Pair!Publish, PairProofs!Publish, Pair!PublishFails,
       PairProofs!PublishFails, Pair!Finish, PairProofs!Finish, Pair!Dropped,
       PairProofs!Dropped, Pair!Again, PairProofs!Again, Pair!Cancel, PairProofs!Cancel,
       Pair!Tick, PairProofs!Tick, Pair!OtherCreates, PairProofs!OtherCreates, Pair!WriteBack,
       PairProofs!WriteBack, Pair!LosePower, PairProofs!LosePower, Pair!Next, PairProofs!Next,
       Pair!vars, PairProofs!vars, Pair!Init, PairProofs!Init

\* The same for the single download.
LEMMA SameSingle ==
  /\ Single!ConstantsOK <=> SingleProofs!ConstantsOK
  /\ Single!Init <=> SingleProofs!Init
  /\ Single!Next <=> SingleProofs!Next
  /\ Single!vars = SingleProofs!vars
BY Zenon
   DEF Single!ConstantsOK, SingleProofs!ConstantsOK, Single!Artifacts, SingleProofs!Artifacts,
       Single!Offers, SingleProofs!Offers, Single!Accepts, SingleProofs!Accepts,
       Single!SameArtifact, SingleProofs!SameArtifact, Single!Tickets, SingleProofs!Tickets,
       Single!NoTicket, SingleProofs!NoTicket, Single!TicketGood, SingleProofs!TicketGood,
       Single!Steps, SingleProofs!Steps, Single!NoFile, SingleProofs!NoFile,
       Single!IdleDownload, SingleProofs!IdleDownload, Single!At, SingleProofs!At, Single!Goto,
       SingleProofs!Goto, Single!OnDisk, SingleProofs!OnDisk, Single!World, SingleProofs!World,
       Single!History, SingleProofs!History, Single!Fail, SingleProofs!Fail,
       Single!CheckForUpdates, SingleProofs!CheckForUpdates, Single!AuthorizeDownload,
       SingleProofs!AuthorizeDownload, Single!Start, SingleProofs!Start, Single!CarriesTicket,
       SingleProofs!CarriesTicket, Single!Sends, SingleProofs!Sends, Single!MoreHops,
       SingleProofs!MoreHops, Single!Redirected, SingleProofs!Redirected, Single!Serves,
       SingleProofs!Serves, Single!Accepted, SingleProofs!Accepted, Single!RequestFails,
       SingleProofs!RequestFails, Single!Chunk, SingleProofs!Chunk, Single!BodyFails,
       SingleProofs!BodyFails, Single!Whole, SingleProofs!Whole, Single!BodyEnds,
       SingleProofs!BodyEnds, Single!SyncAll, SingleProofs!SyncAll, Single!Sync,
       SingleProofs!Sync, Single!LastCheck, SingleProofs!LastCheck, Single!MayPublish,
       SingleProofs!MayPublish, Single!Publish, SingleProofs!Publish, Single!PublishFails,
       SingleProofs!PublishFails, Single!Finish, SingleProofs!Finish, Single!Dropped,
       SingleProofs!Dropped, Single!Again, SingleProofs!Again, Single!Cancel,
       SingleProofs!Cancel, Single!Tick, SingleProofs!Tick, Single!OtherCreates,
       SingleProofs!OtherCreates, Single!WriteBack, SingleProofs!WriteBack, Single!LosePower,
       SingleProofs!LosePower, Single!Next, SingleProofs!Next, Single!vars, SingleProofs!vars,
       Single!Init, SingleProofs!Init


ServicesInv ==
  /\ AccountInv
  /\ IF part = "tickets" THEN SingleProofs!DownloadInv ELSE PairProofs!DownloadInv

\* The parts share no state, so each keeps its own invariant.
LEMMA ServicesInductive ==
  /\ ServicesInit => ServicesInv
  /\ ServicesInv /\ [ServicesNext]_<<part, vars, downloadVars>> => ServicesInv'
<1>1. PairProofs!ConstantsOK /\ SingleProofs!ConstantsOK
  BY ConstantsAssumption, SamePair, SameSingle
<1>2. ASSUME ServicesInit PROVE ServicesInv
  <2>1. AccountInv
    BY <1>2, AccountInit DEF ServicesInit
  <2>2. CASE part = "tickets"
    <3>1. SingleProofs!Init
      BY <1>2, <2>2, SameSingle DEF ServicesInit
    <3>2. SingleProofs!DownloadInv
      BY <1>1, <3>1, SingleProofs!DownloadInit
    <3> QED BY <2>1, <2>2, <3>2 DEF ServicesInv
  <2>3. CASE part # "tickets"
    <3>1. PairProofs!Init
      BY <1>2, <2>3, SamePair DEF ServicesInit
    <3>2. PairProofs!DownloadInv
      BY <1>1, <3>1, PairProofs!DownloadInit
    <3> QED BY <2>1, <2>3, <3>2 DEF ServicesInv
  <2> QED BY <2>2, <2>3
<1>3. ASSUME ServicesInv, [ServicesNext]_<<part, vars, downloadVars>> PROVE ServicesInv'
  <2>1. part' = part /\ [Next]_vars
    BY <1>3 DEF ServicesNext
  <2>2. AccountInv'
    BY <1>3, <2>1, AccountNext DEF ServicesInv
  <2>3. CASE part = "tickets"
    <3>1. SingleProofs!Next \/ UNCHANGED downloadVars
      BY <1>3, <2>3, SameSingle DEF ServicesNext
    <3>2. SingleProofs!DownloadInv'
      BY <1>1, <1>3, <2>3, <3>1, SingleProofs!DownloadNext
         DEF ServicesInv, SingleProofs!vars, downloadVars
    <3> QED BY <2>1, <2>2, <2>3, <3>2 DEF ServicesInv
  <2>4. CASE part # "tickets"
    <3>1. PairProofs!Next \/ UNCHANGED downloadVars
      BY <1>3, <2>4, SamePair DEF ServicesNext
    <3>2. PairProofs!DownloadInv'
      BY <1>1, <1>3, <2>4, <3>1, PairProofs!DownloadNext
         DEF ServicesInv, PairProofs!vars, downloadVars
    <3> QED BY <2>1, <2>2, <2>4, <3>2 DEF ServicesInv
  <2> QED BY <2>3, <2>4
<1> QED BY <1>2, <1>3

\* The variables of accounts and downloads keep their types.
THEOREM ServicesTypes == ServicesSpec => []TypesOK
<1>1. ServicesInv => TypesOK
  <2> SUFFICES ASSUME ServicesInv PROVE TypesOK
    OBVIOUS
  <2>1. PairProofs!TypeOK <=> Pair!TypeOK
    BY Zenon DEF PairProofs!TypeOK, Pair!TypeOK, PairProofs!Steps, Pair!Steps,
         PairProofs!Artifacts, Pair!Artifacts, PairProofs!Tickets, Pair!Tickets
  <2>2. SingleProofs!TypeOK <=> Single!TypeOK
    BY Zenon DEF SingleProofs!TypeOK, Single!TypeOK, SingleProofs!Steps, Single!Steps,
         SingleProofs!Artifacts, Single!Artifacts, SingleProofs!Tickets, Single!Tickets
  <2>3. TypeOK
    BY DEF ServicesInv, AccountInv
  <2>4. CASE part = "tickets"
    BY <2>2, <2>3, <2>4 DEF ServicesInv, SingleProofs!DownloadInv, TypesOK
  <2>5. CASE part # "tickets"
    BY <2>1, <2>3, <2>5 DEF ServicesInv, PairProofs!DownloadInv, TypesOK
  <2> QED BY <2>4, <2>5
<1> QED BY <1>1, ServicesInductive, PTL DEF ServicesSpec

\* Accounts, in whatever order sign-ins, activations and sign-outs overlap: no
\* customer's activation beside another's session, and a sign-out is final.
THEOREM AccountsAreSafe == ServicesSpec => []AccountIsSafe
<1>1. ServicesInv => AccountIsSafe
  BY AccountSafe DEF ServicesInv, AccountIsSafe
<1> QED BY <1>1, ServicesInductive, PTL DEF ServicesSpec

\* Downloads, with both instances of the runs: the destination, what is
\* published, what a failure leaves and where a ticket goes.
THEOREM DownloadsAreSafe == ServicesSpec => []DownloadIsSafe
<1>1. ServicesInv => DownloadIsSafe
  <2> SUFFICES ASSUME ServicesInv PROVE DownloadIsSafe
    OBVIOUS
  <2>1. PairProofs!ConstantsOK /\ SingleProofs!ConstantsOK
    BY ConstantsAssumption, SamePair, SameSingle
  <2>2. CASE part = "tickets"
    <3>1. /\ SingleProofs!DestinationIsWhole /\ SingleProofs!PublishedIsNewer
          /\ SingleProofs!FailureLeavesNothing /\ SingleProofs!TicketStaysHome
          /\ SingleProofs!TicketWindow
      BY <2>1, <2>2, SingleProofs!DownloadSafe DEF ServicesInv
    <3> QED BY <2>2, <3>1
         DEF DownloadIsSafe, Single!DestinationIsWhole, SingleProofs!DestinationIsWhole,
             Single!PublishedIsNewer, SingleProofs!PublishedIsNewer,
             Single!FailureLeavesNothing, SingleProofs!FailureLeavesNothing,
             Single!TicketStaysHome, SingleProofs!TicketStaysHome,
             Single!TicketWindow, SingleProofs!TicketWindow, Single!At, SingleProofs!At
  <2>3. CASE part # "tickets"
    <3>1. /\ PairProofs!DestinationIsWhole /\ PairProofs!PublishedIsNewer
          /\ PairProofs!FailureLeavesNothing /\ PairProofs!TicketStaysHome
      BY <2>1, <2>3, PairProofs!DownloadSafe DEF ServicesInv
    <3> QED BY <2>3, <3>1
         DEF DownloadIsSafe, Pair!DestinationIsWhole, PairProofs!DestinationIsWhole,
             Pair!PublishedIsNewer, PairProofs!PublishedIsNewer,
             Pair!FailureLeavesNothing, PairProofs!FailureLeavesNothing,
             Pair!TicketStaysHome, PairProofs!TicketStaysHome, Pair!At, PairProofs!At
  <2> QED BY <2>2, <2>3
<1> QED BY <1>1, ServicesInductive, PTL DEF ServicesSpec

\* State read before an await is looked at again: answers are delivered to the
\* session they were obtained with, and nothing is published over a file that
\* appeared during the transfer.
THEOREM NothingIsStale == ServicesSpec => NothingStale
<1>1. ASSUME ServicesInv, [ServicesNext]_<<part, vars, downloadVars>>
      PROVE  /\ AnswerMatchesAccount
             /\ IF part = "tickets" THEN Single!NeverClobbers ELSE Pair!NeverClobbers
  <2>1. PairProofs!ConstantsOK /\ SingleProofs!ConstantsOK
    BY ConstantsAssumption, SamePair, SameSingle
  <2>2. AnswerMatchesAccount
    <3>1. [Next]_vars
      BY <1>1 DEF ServicesNext
    <3> QED BY <1>1, <3>1, AnswerStep DEF ServicesInv
  <2>3. CASE part = "tickets"
    <3>1. SingleProofs!Next \/ UNCHANGED downloadVars
      BY <1>1, <2>3, SameSingle DEF ServicesNext
    <3>2. SingleProofs!NeverClobbers
      BY <1>1, <2>1, <2>3, <3>1, SingleProofs!ClobbersNothing
         DEF ServicesInv, SingleProofs!vars, downloadVars
    <3> QED BY <2>2, <2>3, <3>2 DEF SingleProofs!NeverClobbers, Single!NeverClobbers
  <2>4. CASE part # "tickets"
    <3>1. PairProofs!Next \/ UNCHANGED downloadVars
      BY <1>1, <2>4, SamePair DEF ServicesNext
    <3>2. PairProofs!NeverClobbers
      BY <1>1, <2>1, <2>4, <3>1, PairProofs!ClobbersNothing
         DEF ServicesInv, PairProofs!vars, downloadVars
    <3> QED BY <2>2, <2>4, <3>2 DEF PairProofs!NeverClobbers, Pair!NeverClobbers
  <2> QED BY <2>3, <2>4
<1> QED BY <1>1, ServicesInductive, PTL DEF ServicesSpec, NothingStale
=============================================================================
