-------------------------------- MODULE Clock --------------------------------
(***************************************************************************)
(* The arithmetic of sdk/rust/src/clock.rs and of restored_time in         *)
(* sdk/rust/src/installed.rs, as operators on clock readings.              *)
(*                                                                         *)
(* A wall reading is whole seconds, because wall() truncates.  The elapsed *)
(* clock is finer, and now_with_wall truncates its difference, so it is    *)
(* counted here in ticks, Res of them to a second.  The checked additions  *)
(* of the code cannot overflow: every time is below 2^53 (valid_time).     *)
(***************************************************************************)
EXTENDS Integers

CONSTANTS Tolerance,  \* seconds by which two clocks may disagree: 30 in the code
          Res         \* ticks of the elapsed clock in a second

ASSUME ToleranceAssumption == Tolerance \in Nat
ASSUME ResAssumption == Res \in Nat \ {0}

Uncertain == -1       \* Error::ClockUncertain

Anchors == [server : Nat, elapsed : Nat, wall : Nat]
NoAnchor == [server |-> 0, elapsed |-> 0, wall |-> 0]
Caches == [received : Nat, receivedWall : Nat, server : Nat, wall : Nat, exp : Nat]

\* Mutant: no tolerance.
Differ(a, b) == a # b

Apart(a, b) == a - b > Tolerance \/ b - a > Tolerance
Later(a, b) == IF a >= b THEN a ELSE b

\* Start::capture and Anchor::from_request: the server's time is tied to the
\* moment the request was started, not to the moment it was answered.
AnchorAt(server, start) ==
  [server |-> server, elapsed |-> start.elapsed, wall |-> start.wall]

Seconds(anchor, elapsed) == (elapsed - anchor.elapsed) \div Res

\* Anchor::now_with_wall: time advances with the elapsed clock, and the wall
\* clock must have advanced with it.
Now(anchor, elapsed, wall) ==
  IF \/ elapsed < anchor.elapsed
     \/ Apart(wall, anchor.wall + Seconds(anchor, elapsed))
  THEN Uncertain
  ELSE anchor.server + Seconds(anchor, elapsed)

\* Mutant: the last checkpoint is not a floor.
RestoredByWall(cache, wall) ==
  IF wall < cache.wall THEN Uncertain ELSE cache.received + (wall - cache.receivedWall)

\* Mutant: no check of the floors at all.
RestoredUnchecked(cache, wall) == cache.received + (wall - cache.receivedWall)

\* restored_time: server time in a new process, from the receipt of the grant,
\* the wall clock and the floors of the last checkpoint.
RestoredTime(cache, wall) ==
  IF \/ wall < cache.wall
     \/ cache.wall < cache.receivedWall
     \/ cache.server < cache.received
     \/ Apart(cache.wall - cache.receivedWall, cache.server - cache.received)
  THEN Uncertain
  ELSE Later(cache.received + (wall - cache.receivedWall), cache.server)
=============================================================================
