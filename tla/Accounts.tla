------------------------------- MODULE Accounts -------------------------------
(***************************************************************************)
(* Customer accounts, sdk/rust/src/accounts.rs: signing in and out, calls  *)
(* made with the customer's session and activations of a licence the       *)
(* customer owns, by tasks that share one client.                          *)
(*                                                                         *)
(* A session is numbered as the server creates it.  Every request ends as  *)
(* module Transport allows: with an answer, with an outage that leaves the *)
(* server's part done or undone, or not at all until the answer comes.     *)
(* Calls with a session hold the serial lock; signing out does not wait    *)
(* for it.  Commits of the record succeed (AccessClient has the others).   *)
(***************************************************************************)
EXTENDS Integers, FiniteSets

CONSTANTS Threads, NoThread,
          Customers,     \* customers who may sign in
          Key,           \* whoever enters a licence key
          NoOne,         \* nobody
          MaxSessions,   \* bound: sessions the server creates
          MaxGen         \* bound: moves of State.generation

ASSUME NamesAssumption ==
  NoThread \notin Threads /\ Key \notin Customers /\ NoOne \notin Customers \cup {Key}
ASSUME BoundsAssumption == MaxSessions \in Nat /\ MaxGen \in Nat

NoSession == 0
Sessions == 1..MaxSessions

VARIABLES
  mem,       \* generation, account (a session) and the holder of the credential
  serial,    \* holder of the serial lock
  call,      \* what each task is doing
  owner,     \* owner[s]: the customer of session s, once created
  revoked,   \* sessions the server has ended
  epoch,     \* history: completed sign-outs
  answer     \* history: the session whose answer the last return delivered

vars == <<mem, serial, call, owner, revoked, epoch, answer>>

Kinds == {"none", "login", "query", "activateKey", "activateAccount", "logout"}
Calls == [pc : {"idle", "wait", "sent"}, kind : Kinds, gen : 0..MaxGen,
          who : Customers \cup {Key, NoOne}, session : Sessions \cup {NoSession},
          served : BOOLEAN, born : Nat]
Idle == [pc |-> "idle", kind |-> "none", gen |-> 0, who |-> NoOne, session |-> NoSession,
         served |-> FALSE, born |-> 0]

TypeOK ==
  /\ mem \in [gen : 0..MaxGen, account : Sessions \cup {NoSession},
              cred : Customers \cup {Key, NoOne}, born : Nat, credBorn : Nat]
  /\ serial \in Threads \cup {NoThread}
  /\ call \in [Threads -> Calls]
  /\ owner \in [Sessions -> Customers \cup {NoOne}]
  /\ revoked \subseteq Sessions
  /\ epoch \in 0..MaxGen
  /\ answer \in Sessions \cup {NoSession}

Init ==
  /\ mem = [gen |-> 0, account |-> NoSession, cred |-> NoOne, born |-> 0, credBorn |-> 0]
  /\ serial = NoThread
  /\ call = [t \in Threads |-> Idle]
  /\ owner = [s \in Sessions |-> NoOne]
  /\ revoked = {}
  /\ epoch = 0
  /\ answer = NoSession

Created == {s \in Sessions : owner[s] # NoOne}

-----------------------------------------------------------------------------
(* State of the client *)

\* Mutant: the generation is moved by clear and again by its caller.
ClearTwice(m) == [m EXCEPT !.gen = @ + 2, !.account = NoSession, !.cred = NoOne]

\* clear and invalidate: nobody is signed in and nothing is activated.
Clear(m) == [m EXCEPT !.gen = @ + 1, !.account = NoSession, !.cred = NoOne]

Return(t) == call' = [call EXCEPT ![t] = Idle] /\ serial' = IF serial = t THEN NoThread ELSE serial

\* Mutant: an answer is applied whatever happened meanwhile.
NeverStale(t) == FALSE

\* sync_storage and the comparison of generations, after every await.
Stale(t) == call[t].gen # mem.gen

-----------------------------------------------------------------------------
(* Calls under the serial lock *)

\* generation(), then the wait for the lock.
Enter(t, kind, who) ==
  /\ call[t].pc = "idle"
  /\ call' = [call EXCEPT ![t] = [Idle EXCEPT !.pc = "wait", !.kind = kind, !.gen = mem.gen,
                                              !.who = who]]
  /\ UNCHANGED <<mem, serial, owner, revoked, epoch, answer>>

Admitted(t, kinds) == call[t].pc = "wait" /\ call[t].kind \in kinds /\ serial = NoThread

\* The generation moved while the call waited, it was cancelled, or the
\* session it needs is not there (ReauthenticationRequired).
Rejected(t) ==
  /\ call[t].pc = "wait"
  /\ Return(t)
  /\ UNCHANGED <<mem, owner, revoked, epoch, answer>>

Sent(t, m, session) ==
  /\ mem' = m
  /\ serial' = t
  /\ call' = [call EXCEPT ![t].pc = "sent", ![t].gen = m.gen, ![t].session = session,
                          ![t].born = epoch]

\* login_with_cancel up to the request: whoever was signed in or activated is
\* dropped before the password is sent.
LoginSends(t) ==
  /\ Admitted(t, {"login"}) /\ ~Stale(t)
  /\ mem.gen < MaxGen
  /\ Sent(t, Clear(mem), NoSession)
  /\ UNCHANGED <<owner, revoked, epoch, answer>>

\* owned_licences, claim_licence and request_email_change up to the request.
QuerySends(t) ==
  /\ Admitted(t, {"query"}) /\ ~Stale(t)
  /\ mem.account # NoSession
  /\ Sent(t, mem, mem.account)
  /\ UNCHANGED <<owner, revoked, epoch, answer>>

\* Mutant: entering a key keeps whoever is signed in.
StayingSignedIn(t) == mem.account

\* activate_as: a key signs the customer out, an account uses the session.
SignedInFor(t) == IF call[t].kind = "activateKey" THEN NoSession ELSE mem.account

ActivateSends(t) ==
  /\ Admitted(t, {"activateKey", "activateAccount"}) /\ ~Stale(t)
  /\ call[t].kind = "activateAccount" => mem.account # NoSession
  /\ mem.gen < MaxGen
  /\ Sent(t, [mem EXCEPT !.gen = @ + 1, !.account = SignedInFor(t)],
          IF call[t].kind = "activateKey" THEN NoSession ELSE mem.account)
  /\ UNCHANGED <<owner, revoked, epoch, answer>>

-----------------------------------------------------------------------------
(* The server *)

\* The session of a request is good, where it needs one.
Honoured(t) == call[t].session = NoSession \/ call[t].session \notin revoked

\* The password was right: a session is created.
ServerSignsIn(t) ==
  /\ call[t].pc = "sent" /\ call[t].kind = "login" /\ ~call[t].served
  /\ \E s \in Sessions :
       /\ s \notin Created
       /\ \A r \in Sessions : r < s => r \in Created
       /\ owner' = [owner EXCEPT ![s] = call[t].who]
       /\ call' = [call EXCEPT ![t].served = TRUE, ![t].session = s]
  /\ UNCHANGED <<mem, serial, revoked, epoch, answer>>

\* Any other request with a good session is carried out.
ServerServes(t) ==
  /\ call[t].pc = "sent" /\ call[t].kind \in {"query", "activateKey", "activateAccount"}
  /\ Honoured(t) /\ ~call[t].served
  /\ call' = [call EXCEPT ![t].served = TRUE]
  /\ UNCHANGED <<mem, serial, owner, revoked, epoch, answer>>

\* The server ends a session of its own accord.
ServerRevokes(s) ==
  /\ s \in Created \ revoked
  /\ revoked' = revoked \cup {s}
  /\ UNCHANGED <<mem, serial, call, owner, epoch, answer>>

-----------------------------------------------------------------------------
(* Answers *)

\* A call under the lock returns: outages, cancellations and session_expired
\* leave the state alone, and so does an answer of an older generation.
ReturnUnchanged(t) ==
  /\ call[t].pc = "sent" /\ call[t].kind # "logout"
  /\ Return(t)
  /\ UNCHANGED <<mem, owner, revoked, epoch, answer>>

\* finish_account, and the end of login: the session becomes the account.
LoginSucceeds(t) ==
  /\ call[t].pc = "sent" /\ call[t].kind = "login" /\ call[t].served /\ ~Stale(t)
  /\ mem' = [mem EXCEPT !.account = call[t].session, !.born = call[t].born]
  /\ Return(t)
  /\ UNCHANGED <<owner, revoked, epoch, answer>>

\* finish_account: the answer is delivered.
QuerySucceeds(t) ==
  /\ call[t].pc = "sent" /\ call[t].kind = "query" /\ call[t].served /\ ~Stale(t)
  /\ Return(t)
  /\ answer' = call[t].session
  /\ UNCHANGED <<mem, owner, revoked, epoch>>

\* accept_for_licence: the activation belongs to the key, or to the customer
\* whose session asked for it.
ActivateSucceeds(t) ==
  /\ call[t].pc = "sent" /\ call[t].kind \in {"activateKey", "activateAccount"}
  /\ call[t].served /\ ~Stale(t)
  /\ mem' = [mem EXCEPT !.credBorn = call[t].born, !.cred =
               IF call[t].kind = "activateKey" THEN Key ELSE owner[call[t].session]]
  /\ Return(t)
  /\ UNCHANGED <<owner, revoked, epoch, answer>>

\* finish_account on any other error: everything is cleared.
FinishFails(t) ==
  /\ call[t].pc = "sent" /\ call[t].kind \in {"login", "query"} /\ ~Stale(t)
  /\ mem.gen < MaxGen
  /\ mem' = Clear(mem)
  /\ Return(t)
  /\ UNCHANGED <<owner, revoked, epoch, answer>>

\* accept_for_licence on an error: the generation moves; a denial that
\* discards the credential also signs the customer out.
ActivateFails(t) ==
  /\ call[t].pc = "sent" /\ call[t].kind \in {"activateKey", "activateAccount"} /\ ~Stale(t)
  /\ mem.gen < MaxGen
  /\ \/ mem' = [mem EXCEPT !.gen = @ + 1]
     \/ mem' = Clear(mem)
  /\ Return(t)
  /\ UNCHANGED <<owner, revoked, epoch, answer>>

-----------------------------------------------------------------------------
(* Signing out *)

\* Mutant: signing out only ends the session on the server.
ForgetsNothing(m) == m

SignedOut(m) == Clear(m)

\* logout, and the first half of logout_account, which runs when it is called:
\* the client forgets everything without waiting for the lock.  With a session
\* and a future that is awaited, the session is then ended on the server.
LogoutAccount(t) ==
  /\ call[t].pc = "idle"
  /\ mem.gen < MaxGen
  /\ mem' = SignedOut(mem)
  /\ epoch' = epoch + 1
  /\ call' = IF mem.account = NoSession THEN call
             ELSE [call EXCEPT ![t] = [Idle EXCEPT !.pc = "sent", !.kind = "logout",
                                                   !.session = mem.account]]
  /\ UNCHANGED <<serial, owner, revoked, answer>>

\* delete_bearer reaches the server.
DeleteSucceeds(t) ==
  /\ call[t].pc = "sent" /\ call[t].kind = "logout"
  /\ revoked' = revoked \cup {call[t].session}
  /\ Return(t)
  /\ UNCHANGED <<mem, owner, epoch, answer>>

\* It does not, or the future was dropped: the session lives on at the server.
DeleteFails(t) ==
  /\ call[t].pc = "sent" /\ call[t].kind = "logout"
  /\ Return(t)
  /\ UNCHANGED <<mem, owner, revoked, epoch, answer>>

Next ==
  \/ \E t \in Threads :
       \/ \E c \in Customers : Enter(t, "login", c)
       \/ \E k \in {"query", "activateKey", "activateAccount"} : Enter(t, k, NoOne)
       \/ Rejected(t) \/ LoginSends(t) \/ QuerySends(t) \/ ActivateSends(t)
       \/ ServerSignsIn(t) \/ ServerServes(t)
       \/ ReturnUnchanged(t) \/ LoginSucceeds(t) \/ QuerySucceeds(t) \/ ActivateSucceeds(t)
       \/ FinishFails(t) \/ ActivateFails(t)
       \/ LogoutAccount(t) \/ DeleteSucceeds(t) \/ DeleteFails(t)
  \/ \E s \in Sessions : ServerRevokes(s)

Spec == Init /\ [][Next]_vars

-----------------------------------------------------------------------------
(* Properties *)

\* One customer's activation is never used while another one is signed in: not
\* when a sign-in, an activation and a sign-out overlap in any order.
NoCrossCustomerAccess ==
  mem.account # NoSession /\ mem.cred # NoOne => mem.cred = owner[mem.account]

\* Signing out is final: neither the session nor the activation held
\* afterwards was asked for before the last sign-out.
SignOutIsFinal ==
  /\ mem.account # NoSession => mem.born = epoch
  /\ mem.cred # NoOne => mem.credBorn = epoch

\* An answer obtained with a customer's session is delivered only while that
\* session is still the one signed in.  (Of a step.)
AnswerMatchesAccount == answer' # answer => mem.account = answer'
=============================================================================
