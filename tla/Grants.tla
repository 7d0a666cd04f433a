-------------------------------- MODULE Grants --------------------------------
(***************************************************************************)
(* Verification of access grants (sdk/rust/src/grants.rs) and session      *)
(* grants (sdk/rust/src/sessions.rs) against a key set that the server     *)
(* rotates, and of a cached grant in a later process (restore in           *)
(* sdk/rust/src/installed.rs).                                             *)
(*                                                                         *)
(* Signatures are perfect: a token verifies with a key set that has its    *)
(* key.  The wall and the elapsed clock run true here (module GrantClock   *)
(* has the others), so believed server time is the reply's server_time     *)
(* plus the time since the request was started.                            *)
(***************************************************************************)
EXTENDS Integers

CONSTANTS Skew,         \* issue times may differ from believed time: 30 s
          Online,       \* longest life of a grant without offline use: 300 s
          Offline,      \* longest life with offline use: 86400 s
          SessionLife,  \* longest life of a session grant: 120 s
          RefreshMin, RefreshMax,          \* refresh_after - iat: 45 s to 75 s
          OfflineRefreshMin, OfflineRefreshMax,  \* 675 s to 1125 s
          CredentialLife, \* longest life of a credential that ends: 30 days
          Disorder,     \* how far a server's issue time may be from server_time
          MaxKey, MaxTime                  \* bounds: key rotations, the clock

ConstantsOK ==
  /\ {Skew, Online, Offline, SessionLife, CredentialLife, Disorder, MaxKey, MaxTime} \subseteq Nat
  /\ Online <= Offline /\ SessionLife <= Online
  /\ {RefreshMin, RefreshMax, OfflineRefreshMin, OfflineRefreshMax} \subseteq Nat
  /\ RefreshMin <= RefreshMax /\ OfflineRefreshMin <= OfflineRefreshMax

VARIABLES
  time,      \* seconds; the server's clock
  signing,   \* the server's signing key
  keys,      \* the client's keys, of the purpose the reply needs
  ex,        \* the exchange: where it is, when it began, and the reply
  held,      \* the grant in memory
  cache,     \* the grant in the record
  verdict,   \* history: what became of the exchange
  took,      \* history: how long it took, up to its verdict
  accepted   \* history: when the grant was accepted

vars == <<time, signing, keys, ex, held, cache, verdict, took, accepted>>

None == -1
Absent == -2   \* there is no credential yet
Key == 0..MaxKey

\* The server publishes the signing key and the one before it.
Published == {signing} \cup (Key \cap {signing - 1})

Kinds == {"access", "session"}
Claims == [kind : Kinds, kid : Key, iat : Int, exp : Int, refresh : Int, offline : BOOLEAN,
           limit : Int, mine : BOOLEAN]
NoClaims == [kind |-> "access", kid |-> 0, iat |-> 0, exp |-> 0, refresh |-> 0, offline |-> FALSE,
             limit |-> None, mine |-> FALSE]
NoGrant == [claims |-> NoClaims, ends |-> None, server |-> 0, at |-> 0]
NoExchange == [pc |-> "idle", kind |-> "access", installed |-> FALSE, saved |-> Absent, started |-> 0,
               stamp |-> 0, limit |-> None, ends |-> None, claims |-> NoClaims]

TypeOK ==
  /\ time \in 0..MaxTime
  /\ signing \in Key
  /\ \E a, b \in Key : keys \subseteq {a, b}   \* replaced, never piled up
  /\ ex.pc \in {"idle", "asked", "answered", "fetching", "fetched", "done"} /\ ex.claims \in Claims
  /\ held.claims \in Claims /\ cache.claims \in Claims
  /\ verdict \in {"none", "accepted", "rejected", "noKey"}
  /\ took \in 0..MaxTime
  /\ accepted \in 0..MaxTime

\* A client that has run before may know keys, current ones or not.
Init ==
  /\ time = 0
  /\ signing \in Key
  /\ keys \in {{}} \cup {{k} : k \in 0..signing}
  /\ ex = NoExchange
  /\ held = NoGrant /\ cache = NoGrant
  /\ verdict = "none" /\ took = 0 /\ accepted = 0

-----------------------------------------------------------------------------
(* Checks of one token *)

\* Mutant: an issue time in the future is not looked at.
IssuedInTimeLate(iat, now) == iat >= now - Skew

IssuedInTime(iat, now) == iat <= now + Skew /\ iat >= now - Skew

\* refresh_after: after the issue, not after the end, and within the span or
\* at the end.
RefreshOk(c, least, most) ==
  /\ c.refresh > c.iat /\ c.refresh <= c.exp /\ c.refresh <= c.iat + most
  /\ c.refresh >= c.iat + least \/ c.refresh = c.exp

\* Mutant: a grant may outlast the licence and the credential.
CommonUnlimited(c, now, limit, ends, life) ==
  c.mine /\ c.exp > now /\ c.exp > c.iat /\ c.exp <= c.iat + life /\ c.limit = limit

\* What both verifiers demand of a token for this client: whose it is, that it
\* has not ended, that it does not outlast the credential, and the end of the
\* licence that the reply tells.
Common(c, now, limit, ends, life) ==
  /\ c.mine
  /\ c.exp > now /\ c.exp > c.iat /\ c.exp <= c.iat + life
  /\ ends # None => c.exp <= ends
  /\ c.limit = limit /\ (limit # None => c.exp <= limit)

\* grants::verify.
GrantOk(c, now, limit, ends) ==
  /\ c.kind = "access"
  /\ IssuedInTime(c.iat, now)
  /\ Common(c, now, limit, ends, IF c.offline THEN Offline ELSE Online)
  /\ IF c.offline /\ ends = None THEN RefreshOk(c, OfflineRefreshMin, OfflineRefreshMax)
     ELSE RefreshOk(c, RefreshMin, RefreshMax)

\* sessions::verify: never for offline use, and an early issue is good as long
\* as the grant has not ended.
SessionGrantOk(c, now, limit, ends) ==
  /\ c.kind = "session" /\ ~c.offline
  /\ c.iat <= now + Skew
  /\ Common(c, now, limit, ends, SessionLife)
  /\ RefreshOk(c, RefreshMin, RefreshMax)

Verifies(c, kind, now, limit, ends) ==
  IF kind = "access" THEN GrantOk(c, now, limit, ends) ELSE SessionGrantOk(c, now, limit, ends)

-----------------------------------------------------------------------------
(* The server *)

\* Time is counted from the start of the exchange and as long as it matters.
Tick ==
  /\ ex.pc # "idle" /\ verdict \in {"none", "accepted"}
  /\ time < MaxTime /\ time' = time + 1
  /\ UNCHANGED <<signing, keys, ex, held, cache, verdict, took, accepted>>

Rotate ==
  /\ ex.pc # "done"
  /\ signing < MaxKey /\ signing' = signing + 1
  /\ UNCHANGED <<time, keys, ex, held, cache, verdict, took, accepted>>

\* What the client demands of the end of a credential: it lies ahead, a new one
\* has an end unless the client is installed, a refresh keeps the one there is.
CredentialOk(e, now) ==
  \/ e.kind = "session"
  \/ /\ e.ends # None => e.ends > now /\ e.ends <= now + CredentialLife
     /\ IF e.saved = Absent THEN e.installed <=> e.ends = None ELSE e.ends = e.saved

\* The server's contract.
Honest(e) ==
  /\ e.claims.mine /\ e.claims.iat = e.stamp
  /\ CredentialOk(e, e.stamp)
  /\ Verifies(e.claims, e.claims.kind, e.stamp, e.claims.limit, e.ends)

\* The server answers, with a token and a credential that keep the contract or
\* do not, in one respect at a time: a refresh differs from an activation in the
\* credential.  A session goes with the credential the client has.
ServerAnswers ==
  /\ ex.pc = "asked"
  /\ \E d \in -Disorder..Disorder, life \in 0..(Offline + 1), refresh \in 0..(OfflineRefreshMax + 1),
        offline \in BOOLEAN, mine \in BOOLEAN, limit \in {None, time + 2},
        ends \in IF ex.kind = "session" THEN {ex.saved}
                ELSE {None, CredentialLife, time + CredentialLife + 1} :
       LET c == [kind |-> ex.kind, kid |-> signing, iat |-> time + d, exp |-> time + d + life,
                 refresh |-> time + d + refresh, offline |-> offline, limit |-> limit, mine |-> mine]
           e == [ex EXCEPT !.pc = "answered", !.stamp = time, !.claims = c, !.limit = limit, !.ends = ends]
       IN /\ refresh <= life
          /\ d # 0 \/ ~mine => limit = None /\ (ex.kind = "access" => ex.saved = Absent)
          /\ ~mine \/ ~CredentialOk(e, time) => d = 0 /\ limit = None /\ ~offline
          /\ ex' = e
  /\ UNCHANGED <<time, signing, keys, held, cache, verdict, took, accepted>>

-----------------------------------------------------------------------------
(* The client *)

\* A request is started: an activation, a refresh, or the start of a session.
\* Only the credential of an installed client has no end.
Ask(kind, installed, saved) ==
  /\ ex.pc = "idle"
  /\ kind = "session" => saved # Absent
  /\ saved # Absent => (installed <=> saved = None)
  /\ ex' = [NoExchange EXCEPT !.pc = "asked", !.kind = kind, !.installed = installed, !.saved = saved,
                              !.started = time]
  /\ UNCHANGED <<time, signing, keys, held, cache, verdict, took, accepted>>

\* Anchor::now.
Believed(stamp, since) == stamp + (time - since)

\* Mutant: keys are fetched once.
LacksKeys(kid) == keys = {}

\* keys.contains, session_keys and need_keys.
LacksKey(kid) == kid \notin keys

\* The reply's credential is looked at once, before the keys.
Receives == ex.pc = "answered" /\ CredentialOk(ex, Believed(ex.stamp, ex.started))

RefusesCredential ==
  /\ ex.pc = "answered" /\ ~CredentialOk(ex, Believed(ex.stamp, ex.started))
  /\ ex' = [ex EXCEPT !.pc = "done"]
  /\ verdict' = "rejected" /\ took' = time - ex.started
  /\ UNCHANGED <<time, signing, keys, held, cache, accepted>>

NeedsKeys ==
  /\ Receives /\ LacksKey(ex.claims.kid)
  /\ ex' = [ex EXCEPT !.pc = "fetching"]
  /\ UNCHANGED <<time, signing, keys, held, cache, verdict, took, accepted>>

\* Mutant: old keys are kept.
FetchedMore == keys \cup Published

\* The published keys replace the ones the client knows.
Fetched == Published

FetchKeys ==
  /\ ex.pc = "fetching"
  /\ keys' = Fetched
  /\ ex' = [ex EXCEPT !.pc = "fetched"]
  /\ ex.claims.kid \in Published
  /\ UNCHANGED <<time, signing, held, cache, verdict, took, accepted>>

\* The key is gone already: verification fails for want of it.
FetchMisses ==
  /\ ex.pc = "fetching"
  /\ ex.claims.kid \notin Published
  /\ keys' = Fetched
  /\ ex' = [ex EXCEPT !.pc = "done"]
  /\ verdict' = "noKey" /\ took' = time - ex.started
  /\ UNCHANGED <<time, signing, held, cache, accepted>>

\* The end of verify_reply and verify_session_reply.  An access grant of an
\* installed client goes to the record with the key that signed it.
Verify ==
  /\ ex.pc = "fetched" \/ (Receives /\ ~LacksKey(ex.claims.kid))
  /\ ex' = [ex EXCEPT !.pc = "done"]
  /\ took' = time - ex.started
  /\ LET grant == [claims |-> ex.claims, ends |-> ex.ends, server |-> ex.stamp, at |-> ex.started]
     IN IF /\ ex.claims.kid \in keys
           /\ Verifies(ex.claims, ex.kind, Believed(ex.stamp, ex.started), ex.limit, ex.ends)
        THEN /\ held' = grant /\ accepted' = time /\ verdict' = "accepted"
             /\ cache' = IF ex.kind = "access" /\ ex.installed THEN grant ELSE cache
        ELSE verdict' = "rejected" /\ UNCHANGED <<held, cache, accepted>>
  /\ UNCHANGED <<time, signing, keys>>

\* Mutant: a cached grant is verified as if it came just now.
RestoredAsNow(c) == GrantOk(c.claims, Believed(c.server, c.at), c.claims.limit, c.ends)

\* restore: as it was verified on receipt, at received_server_time.
RestoredAsReceived(c) == GrantOk(c.claims, c.server, c.claims.limit, c.ends)

\* Another process: restore, or clear_cached when the cached grant fails.
Restart ==
  /\ ex.pc = "done" /\ cache # NoGrant
  /\ LET now == Believed(cache.server, cache.at)
         ok == RestoredAsReceived(cache)
     IN /\ cache' = IF ok THEN cache ELSE NoGrant
        /\ held' = IF /\ ok /\ cache.claims.offline
                      /\ now >= cache.claims.iat /\ now < cache.claims.exp
                   THEN [cache EXCEPT !.server = now, !.at = time] ELSE NoGrant
        /\ keys' = IF ok THEN {cache.claims.kid} ELSE {}
  /\ UNCHANGED <<time, signing, ex, verdict, took, accepted>>

Next ==
  \/ Tick \/ Rotate \/ ServerAnswers
  \/ \E kind \in Kinds, installed \in BOOLEAN, saved \in {Absent, None, CredentialLife} :
       Ask(kind, installed, saved)
  \/ RefusesCredential \/ NeedsKeys \/ FetchKeys \/ FetchMisses \/ Verify \/ Restart

Spec == Init /\ [][Next]_vars

-----------------------------------------------------------------------------
(* Properties *)

Usable == held # NoGrant /\ Believed(held.server, held.at) < held.claims.exp

\* An answer of an honest server is turned away only when the exchange, with
\* the fetch of keys, was slower than the allowed skew, or the grant had ended
\* by then.  A rotation of keys alone never makes a client turn one away.
HonestReplyIsAccepted ==
  verdict = "rejected" /\ Honest(ex)
    => took > Skew \/ ex.claims.exp <= ex.stamp + took

\* Whatever a server puts into a grant, it is usable for a bounded time after
\* it was accepted, restarts of the process included, and never beyond the end
\* of the licence or of the credential it came with.
LeaseIsBounded ==
  Usable => /\ time - accepted < Skew + Offline
            /\ \A end \in {held.claims.limit, held.ends} \ {None} : Believed(held.server, held.at) < end

\* A restart neither loses nor extends an honest grant for offline use.
RestartIsNeutral ==
  verdict = "accepted" /\ ex.claims.offline /\ Honest(ex)
    => (Usable <=> Believed(ex.stamp, ex.started) < ex.claims.exp)
=============================================================================
