------------------------------ MODULE GrantClock ------------------------------
(***************************************************************************)
(* What an installed client takes for the server's time, and so whether a  *)
(* grant is still good: verify_reply, snapshot and close of                *)
(* sdk/rust/src/access.rs with checkpoint, restore and open_parsed of      *)
(* sdk/rust/src/installed.rs, over the operators of module Clock.          *)
(*                                                                         *)
(* truth counts ticks of real time.  The elapsed clock runs with it; its   *)
(* origin does not matter because no elapsed reading outlives a process.   *)
(* The wall clock is truth shifted by skew, which the user may set at any  *)
(* moment.  Two clocks read one after the other may straddle a tick: such  *)
(* a step lets up to Gap ticks pass between the readings.                  *)
(*                                                                         *)
(* Commits succeed here; their failures are in AccessClient.               *)
(***************************************************************************)
EXTENDS Clock

CONSTANTS MaxTruth,  \* bound: ticks of real time
          Skews,     \* bound: how far, in ticks, the wall clock may be set from the truth
          Start,     \* the tick at which the system starts
          Life,      \* seconds between the server's time and a grant's exp
          Gap,       \* bound: ticks between two readings of one step
          Lag        \* seconds by which rounding may make a reading late

ASSUME BoundsAssumption == {MaxTruth, Start, Life, Gap, Lag} \subseteq Nat /\ Start =< MaxTruth
\* No reading of the wall clock is negative.
ASSUME SkewsAssumption == 0 \in Skews /\ \A s \in Skews : s \in Int /\ Start + s >= 0
\* The readings of one step are close: a gap, with what truncation takes from
\* two readings, makes a time late by no more than Lag, and two gaps (of the
\* step that saved a floor and of the one that reads it) are within the tolerance.
ASSUME RoundingAssumption ==
  /\ Gap + 2 * (Res - 1) < (Lag + 1) * Res
  /\ 2 * Gap + 2 * (Res - 1) < (Tolerance + 1) * Res

VARIABLES
  truth,     \* real time in ticks; the server's clock is truth \div Res
  skew,      \* wall clock minus truth, in ticks
  honest,    \* history: the wall clock was never set
  running,   \* a process is open
  mem,       \* State.anchor and claims.exp
  cache,     \* Record.access on disk
  req,       \* the Start of the request in flight, and the server's stamp
  base,      \* history: whole seconds earlier processes held this grant, durably
  durable,   \* history: base, with this process's share up to its last checkpoint
  since      \* history: tick at which this process began to hold the grant

clocks == <<truth, skew, honest>>
history == <<base, durable, since>>
vars == <<clocks, running, mem, cache, req, history>>

NoMem == [anchor |-> NoAnchor, exp |-> 0, live |-> FALSE]
NoCache == [received |-> 0, receivedWall |-> 0, server |-> 0, wall |-> 0, exp |-> 0]
NoReq == [elapsed |-> 0, wall |-> 0, stamp |-> Uncertain, sent |-> FALSE]

Wall(t) == (t + skew) \div Res
Believed == Now(mem.anchor, truth, Wall(truth))
Held == mem # NoMem

TypeOK ==
  /\ truth \in Start..MaxTruth
  /\ skew \in Skews
  /\ honest \in BOOLEAN
  /\ running \in BOOLEAN
  /\ mem \in [anchor : Anchors, exp : Nat, live : BOOLEAN]
  /\ cache \in Caches
  /\ req \in [elapsed : Nat, wall : Nat, stamp : Nat \cup {Uncertain}, sent : BOOLEAN]
  /\ base \in Nat /\ durable \in Nat /\ since \in Nat

Init ==
  /\ truth = Start
  /\ skew = 0
  /\ honest = TRUE
  /\ running = FALSE
  /\ mem = NoMem
  /\ cache = NoCache
  /\ req = NoReq
  /\ base = 0 /\ durable = 0 /\ since = 0

-----------------------------------------------------------------------------
(* The clocks *)

Tick ==
  /\ truth < MaxTruth
  /\ truth' = truth + 1
  /\ UNCHANGED <<skew, honest, running, mem, cache, req, history>>

\* The user sets the wall clock.
SetWall(s) ==
  /\ s # skew
  /\ skew' = s
  /\ honest' = FALSE
  /\ UNCHANGED <<truth, running, mem, cache, req, history>>

\* A step that reads clocks twice: the second reading is at truth'.
Straddles ==
  /\ \E d \in 0..Gap : truth' = truth + d
  /\ truth' =< MaxTruth
  /\ UNCHANGED <<skew, honest>>

-----------------------------------------------------------------------------
(* A grant from the server *)

\* Start::capture, before the request is sent.
Ask ==
  /\ running /\ ~req.sent
  /\ req' = [elapsed |-> truth, wall |-> Wall(truth), stamp |-> Uncertain, sent |-> TRUE]
  /\ UNCHANGED <<clocks, running, mem, cache, history>>

\* The server answers with its own time.
Stamp ==
  /\ req.sent /\ req.stamp = Uncertain
  /\ req' = [req EXCEPT !.stamp = truth \div Res]
  /\ UNCHANGED <<clocks, running, mem, cache, history>>

\* Mutant: the server's time is tied to the moment the answer arrives.
AnchorOfAnswer == AnchorAt(req.stamp, [elapsed |-> truth, wall |-> Wall(truth)])

AnchorOfReply == AnchorAt(req.stamp, req)

\* verify_reply and the commit of an accepted grant: the floors start at the
\* time the grant was verified.
Receive ==
  LET now == Now(AnchorOfReply, truth, Wall(truth))
      exp == req.stamp + Life
  IN /\ req.stamp # Uncertain
     /\ now # Uncertain /\ now < exp
     /\ Straddles
     /\ mem' = [anchor |-> AnchorOfReply, exp |-> exp, live |-> TRUE]
     /\ cache' = [received |-> req.stamp, receivedWall |-> AnchorOfReply.wall,
                  server |-> now, wall |-> Wall(truth'), exp |-> exp]
     /\ req' = NoReq
     /\ base' = 0 /\ durable' = 0 /\ since' = truth'
     /\ UNCHANGED running

\* The answer is lost, or the clocks or the expiry refuse it.
ReceiveFails ==
  /\ req.sent
  /\ req' = NoReq
  /\ UNCHANGED <<clocks, running, mem, cache, history>>

-----------------------------------------------------------------------------
(* Reading, saving and restoring the time *)

\* checked_snapshot_locked when the clocks disagree: access is dropped, in
\* memory and on disk (clear_cached).
SnapshotUncertain ==
  /\ running /\ Held
  /\ Believed = Uncertain
  /\ mem' = NoMem
  /\ cache' = NoCache
  /\ UNCHANGED <<clocks, running, req, history>>

\* Mutant: only the wall floor is saved.
FloorsWallOnly(now, wall) == [cache EXCEPT !.wall = wall]

Floors(now, wall) == [cache EXCEPT !.server = now, !.wall = wall]

\* InstalledStorage::checkpoint.  Without an anchor, with clocks that disagree
\* or with one that went back, the saved grant is dropped; memory keeps its own.
Saved ==
  IF cache = NoCache THEN cache' = cache
  ELSE IF Held /\ Believed # Uncertain /\ Believed >= cache.server
            /\ Wall(truth') >= cache.wall
       THEN cache' = Floors(Believed, Wall(truth'))
       ELSE cache' = NoCache

Checkpoint ==
  /\ running
  /\ Straddles
  /\ Saved
  /\ durable' = IF cache' = NoCache THEN durable ELSE base + (truth - since) \div Res
  /\ UNCHANGED <<running, mem, req, base, since>>

\* close checkpoints and the process ends.
Close ==
  /\ running
  /\ Straddles
  /\ Saved
  /\ durable' = IF cache' = NoCache THEN durable ELSE base + (truth - since) \div Res
  /\ running' = FALSE
  /\ mem' = NoMem
  /\ req' = NoReq
  /\ UNCHANGED <<base, since>>

\* The process, or the machine, stops without a checkpoint.
Crash ==
  /\ running
  /\ running' = FALSE
  /\ mem' = NoMem
  /\ req' = NoReq
  /\ UNCHANGED <<clocks, cache, history>>

\* restore in open_parsed: the wall clock is read once for the time and once
\* more for the anchor.  A restored time past exp restores nothing; clocks
\* that disagree clear the saved grant.
Open ==
  LET now == RestoredTime(cache, Wall(truth))
  IN /\ ~running
     /\ running' = TRUE
     /\ Straddles
     /\ IF cache # NoCache /\ now # Uncertain /\ now < cache.exp
        THEN mem' = [anchor |-> [server |-> now, elapsed |-> truth', wall |-> Wall(truth')],
                     exp |-> cache.exp, live |-> FALSE]
        ELSE mem' = NoMem
     /\ cache' = IF now = Uncertain THEN NoCache ELSE cache
     /\ base' = durable
     /\ since' = truth'
     /\ UNCHANGED <<req, durable>>

Next ==
  \/ Tick \/ Ask \/ Stamp \/ Receive \/ ReceiveFails
  \/ SnapshotUncertain \/ Checkpoint \/ Close \/ Crash \/ Open
  \/ \E s \in Skews : SetWall(s)

Spec == Init /\ [][Next]_vars

-----------------------------------------------------------------------------
(* Properties *)

Allowed == running /\ Held /\ Believed # Uncertain /\ Believed < mem.exp

\* The time the client believes never falls below the floor of its last
\* checkpoint, so a grant found expired once and checkpointed is never shown
\* again, whatever the wall clock and however many restarts.
NeverBelowFloor ==
  Held /\ Believed # Uncertain /\ cache # NoCache => Believed >= cache.server

\* Setting the wall clock back buys no time: the believed time since the
\* receipt of a grant covers every second processes have run with it, up to
\* the second a crash left unsaved.
RunningTimeCounts ==
  Held /\ Believed # Uncertain /\ cache # NoCache
    => Believed - cache.received >= base + (truth - since) \div Res

\* A client never believes a time much before the server's: not as long as the
\* grant was received in this process (a slow answer makes it early, never
\* late), nor after restarts with a wall clock nobody set.
NeverLate ==
  Allowed /\ (mem.live \/ honest) => Believed + Lag >= truth \div Res

\* With a wall clock nobody set, truncation and readings that straddle a tick
\* never add up to a disagreement: access is not lost to the tolerance.
HonestClockIsTrusted ==
  honest => /\ Held => Believed # Uncertain
            /\ cache # NoCache => RestoredTime(cache, Wall(truth)) # Uncertain
=============================================================================
