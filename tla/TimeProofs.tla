------------------------------ MODULE TimeProofs ------------------------------
(***************************************************************************)
(* TLAPS proofs about the three parts of MCTime: the time a client         *)
(* believes in (GrantClock), offline files (OfflineFile) and the           *)
(* verification of grants (Grants), for every resolution, tolerance and    *)
(* gap between readings, every set of files, and every lifetime.           *)
(***************************************************************************)
EXTENDS MCTime, TLAPS

(***************************************************************************)
(* The clock: the inductive invariant                                      *)
(***************************************************************************)

\* Time by the anchor, whatever the wall clock says.
Reckoned == mem.anchor.server + (truth - mem.anchor.elapsed) \div Res

\* A request keeps the readings of the moment it was started at, and the
\* server's stamp is later.
ReqInv ==
  /\ req.sent => req.elapsed =< truth /\ (honest => req.wall = req.elapsed \div Res)
  /\ req.stamp # Uncertain => req.sent /\ req.elapsed \div Res =< req.stamp

\* The anchor is older than this process's hold on the grant; its server time
\* is late by no more than the gap between two readings.
MemInv ==
  Held =>
    /\ mem.anchor.elapsed =< since
    /\ mem.live => mem.anchor.elapsed \div Res =< mem.anchor.server
    /\ honest =>
         /\ mem.anchor.wall = mem.anchor.elapsed \div Res
         /\ \E g \in 0..Gap : g =< mem.anchor.elapsed /\ (mem.anchor.elapsed - g) \div Res =< mem.anchor.server

\* The floors cover what processes ran; with an honest clock both floors have
\* advanced alike since the receipt.
CacheInv ==
  cache # NoCache =>
    /\ cache.exp > 0
    /\ cache.received + durable =< cache.server
    /\ honest =>
         /\ cache.wall =< truth \div Res
         /\ cache.receivedWall =< cache.wall /\ cache.receivedWall =< cache.received
         /\ cache.server - cache.received =< cache.wall - cache.receivedWall
         /\ cache.wall - cache.receivedWall =< cache.server - cache.received + Tolerance

\* The anchor in memory goes on from the floors.
BothInv ==
  Held /\ cache # NoCache =>
    /\ cache.server =< Reckoned
    /\ cache.received + base =< mem.anchor.server
    /\ honest =>
         /\ mem.anchor.server - cache.received =< mem.anchor.wall - cache.receivedWall
         /\ \E g \in 0..Gap :
              /\ g =< mem.anchor.elapsed
              /\ (mem.anchor.elapsed - g) \div Res - cache.receivedWall =< mem.anchor.server - cache.received

ClockInv ==
  /\ TypeOK /\ since =< truth /\ (honest => skew = 0)
  /\ ReqInv /\ MemInv /\ CacheInv /\ BothInv

(***************************************************************************)
(* Division                                                                *)
(***************************************************************************)

LEMMA DivBounds ==
  ASSUME NEW a \in Int
  PROVE  a \div Res \in Int /\ (a \div Res) * Res =< a /\ a < (a \div Res + 1) * Res
BY ResAssumption

LEMMA Cancel ==
  ASSUME NEW x \in Int, NEW y \in Int, x * Res < y * Res
  PROVE  x < y
BY ResAssumption

LEMMA DivMono ==
  ASSUME NEW a \in Int, NEW b \in Int, a =< b
  PROVE  a \div Res =< b \div Res
<1>1. (a \div Res) * Res < (b \div Res + 1) * Res
  BY DivBounds, ResAssumption
<1> QED BY <1>1, DivBounds, Cancel

LEMMA DivNat ==
  ASSUME NEW a \in Nat
  PROVE  a \div Res \in Nat
<1>1. 0 * Res < (a \div Res + 1) * Res
  BY DivBounds, ResAssumption
<1> QED BY <1>1, DivBounds, Cancel

\* Truncating two parts takes no more than truncating their sum.
LEMMA DivParts ==
  ASSUME NEW a \in Int, NEW b \in Int
  PROVE  a \div Res + b \div Res =< (a + b) \div Res
<1> DEFINE p == a \div Res
           q == b \div Res
           r == (a + b) \div Res
<1>1. p \in Int /\ q \in Int /\ r \in Int /\ p * Res =< a /\ q * Res =< b /\ a + b < (r + 1) * Res
  BY DivBounds
<1> HIDE DEF p, q, r
<1>2. (p + q) * Res < (r + 1) * Res
  BY <1>1, ResAssumption
<1>3. p + q < r + 1
  BY <1>1, <1>2, Cancel
<1> QED BY <1>1, <1>3 DEF p, q, r

\* With g ticks more the sum is ahead by n seconds at most.
LEMMA DivSum ==
  ASSUME NEW a \in Int, NEW b \in Int, NEW g \in Int, NEW n \in Int,
         g + 2 * (Res - 1) < (n + 1) * Res
  PROVE  (a + b + g) \div Res =< a \div Res + b \div Res + n
<1> DEFINE p == a \div Res
           q == b \div Res
           r == (a + b + g) \div Res
<1>1. /\ p \in Int /\ q \in Int /\ r \in Int /\ Res \in Int
      /\ a < (p + 1) * Res /\ b < (q + 1) * Res /\ r * Res =< a + b + g
  BY DivBounds, ResAssumption
<1> HIDE DEF p, q, r
<1>2. a =< p * Res + (Res - 1) /\ b =< q * Res + (Res - 1)
  BY <1>1
<1>3. r * Res < (p + q + n + 1) * Res
  BY <1>1, <1>2
<1>4. r < p + q + n + 1
  <2>1. p + q + n + 1 \in Int
    BY <1>1
  <2> QED BY <1>1, <1>3, <2>1, Cancel
<1> QED BY <1>1, <1>4 DEF p, q, r

(***************************************************************************)
(* The clock: every step keeps the invariant                               *)
(***************************************************************************)

LEMMA ClockFacts ==
  ASSUME TypeOK
  PROVE  /\ truth \in Nat /\ skew \in Int /\ since \in Nat /\ base \in Nat /\ durable \in Nat
         /\ mem.anchor \in Anchors /\ mem.anchor.server \in Nat /\ mem.anchor.elapsed \in Nat
         /\ mem.anchor.wall \in Nat /\ mem.exp \in Nat /\ mem.live \in BOOLEAN
         /\ cache.received \in Nat /\ cache.receivedWall \in Nat /\ cache.server \in Nat
         /\ cache.wall \in Nat /\ cache.exp \in Nat
         /\ req.elapsed \in Nat /\ req.wall \in Nat /\ req.stamp \in Nat \cup {Uncertain}
         /\ Uncertain \notin Nat /\ Gap \in Nat /\ Tolerance \in Nat /\ Lag \in Nat /\ Life \in Nat
         /\ Wall(truth) \in Nat /\ truth \div Res \in Nat
         /\ NoMem \in [anchor : Anchors, exp : Nat, live : BOOLEAN] /\ NoCache \in Caches
         /\ NoReq \in [elapsed : Nat, wall : Nat, stamp : Nat \cup {Uncertain}, sent : BOOLEAN]
<1>1. truth \in Nat /\ truth >= Start /\ skew \in Int /\ Start + skew >= 0
  BY BoundsAssumption, SkewsAssumption DEF TypeOK
<1>2. Wall(truth) \in Nat /\ truth \div Res \in Nat
  BY <1>1, DivNat, BoundsAssumption DEF Wall
<1>3. Uncertain \notin Nat /\ Gap \in Nat /\ Tolerance \in Nat /\ Lag \in Nat /\ Life \in Nat
  BY BoundsAssumption, ToleranceAssumption DEF Uncertain
<1>4. NoMem \in [anchor : Anchors, exp : Nat, live : BOOLEAN] /\ NoCache \in Caches
      /\ NoReq \in [elapsed : Nat, wall : Nat, stamp : Nat \cup {Uncertain}, sent : BOOLEAN]
  BY DEF NoMem, NoAnchor, Anchors, NoCache, Caches, NoReq
<1> QED BY <1>1, <1>2, <1>3, <1>4 DEF TypeOK, Anchors, Caches

LEMMA ClockInit ==
  ASSUME Init
  PROVE  ClockInv
<1>1. TypeOK
  <2>1. NoMem \in [anchor : Anchors, exp : Nat, live : BOOLEAN] /\ NoCache \in Caches
        /\ NoReq \in [elapsed : Nat, wall : Nat, stamp : Nat \cup {Uncertain}, sent : BOOLEAN]
    BY DEF NoMem, NoAnchor, Anchors, NoCache, Caches, NoReq
  <2>2. Start \in Start..MaxTruth /\ 0 \in Skews
    BY BoundsAssumption, SkewsAssumption
  <2> QED BY <2>1, <2>2 DEF Init, TypeOK
<1> QED BY <1>1, ClockFacts DEF Init, ClockInv, ReqInv, MemInv, CacheInv, BothInv, Held, NoReq

\* Time passes, and what is held may go: memory, the cache, the request.
LEMMA ClockPasses ==
  ASSUME ClockInv, truth' >= truth, truth' \in Start..MaxTruth, skew' \in Skews, honest' \in BOOLEAN,
         running' \in BOOLEAN,
         honest' => honest /\ skew' = skew,
         mem' \in {mem, NoMem}, cache' \in {cache, NoCache}, req' \in {req, NoReq},
         UNCHANGED <<base, since>>, durable' = durable
  PROVE  ClockInv'
<1> USE ClockFacts
<1>0. TypeOK /\ since =< truth /\ truth' \in Nat
  BY BoundsAssumption DEF ClockInv
<1>1. TypeOK'
  BY <1>0 DEF TypeOK
<1>2. ReqInv'
  BY <1>0 DEF ClockInv, ReqInv, NoReq
<1>3. MemInv'
  <2>1. CASE mem' = mem
    BY <2>1 DEF ClockInv, MemInv, Held
  <2>2. CASE mem' = NoMem
    BY <2>2 DEF MemInv, Held
  <2> QED BY <2>1, <2>2
<1>4. CacheInv'
  <2>1. truth \div Res =< truth' \div Res /\ truth' \div Res \in Int /\ truth \div Res \in Int
    BY <1>0, DivMono, DivBounds
  <2>2. CASE cache' = cache
    BY <1>0, <2>1, <2>2 DEF ClockInv, CacheInv
  <2>3. CASE cache' = NoCache
    BY <2>3 DEF CacheInv
  <2> QED BY <2>2, <2>3
<1>5. BothInv'
  <2>1. CASE mem' = mem /\ cache' = cache
    <3>0. /\ truth - mem.anchor.elapsed \in Int /\ truth' - mem.anchor.elapsed \in Int
          /\ truth - mem.anchor.elapsed =< truth' - mem.anchor.elapsed
      BY <1>0
    <3>1. (truth - mem.anchor.elapsed) \div Res =< (truth' - mem.anchor.elapsed) \div Res
          /\ (truth - mem.anchor.elapsed) \div Res \in Int /\ (truth' - mem.anchor.elapsed) \div Res \in Int
      BY <3>0, DivMono, DivBounds
    <3>2. Reckoned =< Reckoned' /\ Reckoned \in Int /\ Reckoned' \in Int
      BY <1>0, <2>1, <3>1 DEF Reckoned
    <3> QED BY <1>0, <2>1, <3>2 DEF ClockInv, BothInv, Held
  <2>2. CASE mem' = NoMem \/ cache' = NoCache
    BY <2>2 DEF BothInv, Held
  <2> QED BY <2>1, <2>2
<1> QED BY <1>0, <1>1, <1>2, <1>3, <1>4, <1>5 DEF ClockInv

LEMMA ClockAskStep ==
  ASSUME ClockInv, Ask \/ Stamp
  PROVE  ClockInv'
<1> USE ClockFacts
<1>0. TypeOK /\ UNCHANGED <<truth, skew, honest, running, mem, cache, base, durable, since>>
  BY DEF ClockInv, Ask, Stamp, clocks, history
<1>1. TypeOK' /\ ReqInv'
  <2>1. CASE Ask
    <3>1. req' = [elapsed |-> truth, wall |-> Wall(truth), stamp |-> Uncertain, sent |-> TRUE]
      BY <2>1 DEF Ask
    <3>2. honest => Wall(truth) = truth \div Res
      BY <1>0 DEF ClockInv, Wall
    <3> QED BY <1>0, <3>1, <3>2 DEF TypeOK, ReqInv
  <2>2. CASE Stamp
    <3>1. req' = [req EXCEPT !.stamp = truth \div Res] /\ req.sent
      BY <2>2 DEF Stamp
    <3>2. req.elapsed \div Res =< truth \div Res
      BY <1>0, <3>1, DivMono DEF ClockInv, ReqInv
    <3> QED BY <1>0, <3>1, <3>2 DEF ClockInv, TypeOK, ReqInv
  <2> QED BY <2>1, <2>2
<1> QED BY <1>0, <1>1 DEF ClockInv, MemInv, CacheInv, BothInv, Held, Reckoned

\* What a step that reads the clocks twice does to them.
LEMMA ClockStraddles ==
  ASSUME ClockInv, Straddles
  PROVE  /\ truth' \in Start..MaxTruth /\ truth' \in Nat /\ truth' >= truth /\ truth' - truth \in 0..Gap
         /\ skew' = skew /\ honest' = honest
         /\ Wall(truth') \in Nat /\ Wall(truth)' = Wall(truth') /\ truth \div Res =< truth' \div Res
         /\ truth' \div Res \in Nat
         /\ honest => Wall(truth') = truth' \div Res /\ Wall(truth) = truth \div Res
<1> USE ClockFacts
<1>1. /\ truth' \in Start..MaxTruth /\ truth' \in Nat /\ truth' >= truth /\ truth' - truth \in 0..Gap
      /\ skew' = skew /\ honest' = honest /\ TypeOK
  BY BoundsAssumption DEF ClockInv, Straddles, TypeOK
<1>2. truth' + skew \in Nat
  BY <1>1, BoundsAssumption, SkewsAssumption DEF TypeOK
<1>3. Wall(truth') \in Nat /\ truth' \div Res \in Nat
  BY <1>1, <1>2, DivNat DEF Wall
<1> QED BY <1>1, <1>3, DivMono DEF Wall, ClockInv

\* What Now says, when it says something.
LEMMA NowIs ==
  ASSUME NEW anchor \in Anchors, NEW t \in Nat, NEW w \in Nat, Now(anchor, t, w) # Uncertain
  PROVE  /\ anchor.elapsed =< t
         /\ Now(anchor, t, w) = anchor.server + (t - anchor.elapsed) \div Res
         /\ Now(anchor, t, w) \in Nat /\ anchor.server =< Now(anchor, t, w)
<1>1. anchor.server \in Nat /\ anchor.elapsed \in Nat
  BY DEF Anchors
<1>2. anchor.elapsed =< t
  BY <1>1 DEF Now
<1>3. (t - anchor.elapsed) \div Res \in Nat
  BY <1>1, <1>2, DivNat
<1> QED BY <1>1, <1>2, <1>3 DEF Now, Seconds

LEMMA ClockReceiveStep ==
  ASSUME ClockInv, Receive
  PROVE  ClockInv'
<1> USE ClockFacts, ClockStraddles
<1> DEFINE now == Now(AnchorOfReply, truth, Wall(truth))
<1>0. /\ TypeOK /\ Straddles /\ req.stamp # Uncertain /\ now # Uncertain /\ now < req.stamp + Life
      /\ mem' = [anchor |-> AnchorOfReply, exp |-> req.stamp + Life, live |-> TRUE]
      /\ cache' = [received |-> req.stamp, receivedWall |-> AnchorOfReply.wall,
                   server |-> now, wall |-> Wall(truth'), exp |-> req.stamp + Life]
      /\ req' = NoReq /\ base' = 0 /\ durable' = 0 /\ since' = truth' /\ running' = running
  BY DEF ClockInv, Receive
<1>1. /\ req.stamp \in Nat /\ req.elapsed =< truth /\ req.elapsed \div Res =< req.stamp
      /\ honest => req.wall = req.elapsed \div Res
      /\ req.elapsed \div Res \in Nat
  BY <1>0, DivNat DEF ClockInv, ReqInv
<1>2. /\ AnchorOfReply \in Anchors /\ AnchorOfReply.server = req.stamp
      /\ AnchorOfReply.elapsed = req.elapsed /\ AnchorOfReply.wall = req.wall
  BY <1>0, <1>1 DEF AnchorOfReply, AnchorAt, Anchors
<1>3. now = req.stamp + (truth - req.elapsed) \div Res /\ now \in Nat /\ req.stamp =< now
      /\ (truth - req.elapsed) \div Res \in Nat
  <2>1. /\ AnchorOfReply \in Anchors /\ truth \in Nat /\ Wall(truth) \in Nat /\ now # Uncertain
        /\ req.elapsed \in Nat
    BY <1>0, <1>2
  <2>2. truth - req.elapsed \in Nat
    BY <1>1, <2>1
  <2>3. (truth - req.elapsed) \div Res \in Nat
    BY ONLY <2>2, DivNat
  <2>4. /\ now = AnchorOfReply.server + (truth - AnchorOfReply.elapsed) \div Res
        /\ now \in Nat /\ AnchorOfReply.server =< now
    BY ONLY <2>1, NowIs
  <2> QED BY <1>2, <2>3, <2>4
<1> HIDE DEF now
<1>4. TypeOK'
  BY <1>0, <1>1, <1>2, <1>3 DEF TypeOK, Caches
<1>5. ReqInv'
  BY <1>0 DEF ReqInv, NoReq
<1>6. MemInv'
  <2>1. honest => \E g \in 0..Gap : g =< req.elapsed /\ (req.elapsed - g) \div Res =< req.stamp
    <3>1. 0 \in 0..Gap /\ 0 =< req.elapsed /\ (req.elapsed - 0) \div Res =< req.stamp
      BY <1>0, <1>1
    <3> QED BY <3>1
  <2> QED BY <1>0, <1>1, <1>2, <2>1 DEF MemInv
<1>7. CacheInv'
  <2>1. (req.elapsed \div Res) + ((truth - req.elapsed) \div Res) =< truth \div Res
    BY <1>0, <1>1, DivParts
  <2>2. truth' \div Res =< (req.elapsed \div Res) + ((truth - req.elapsed) \div Res) + Tolerance
    <3>1. truth' = req.elapsed + (truth - req.elapsed) + (truth' - truth)
      BY <1>0, <1>1
    <3>2. (truth' - truth) + 2 * (Res - 1) < (Tolerance + 1) * Res
      BY <1>0, RoundingAssumption, ResAssumption
    <3> QED BY <1>0, <1>1, <3>1, <3>2, DivSum
  <2>3. cache'.exp > 0 /\ cache'.received + durable' =< cache'.server
    BY <1>0, <1>1, <1>3
  <2>4. ASSUME honest
        PROVE  /\ cache'.wall = truth' \div Res /\ cache'.receivedWall = req.elapsed \div Res
               /\ cache'.received = req.stamp /\ cache'.server = req.stamp + (truth - req.elapsed) \div Res
    BY <1>0, <1>1, <1>2, <1>3, <2>4
  <2>5. req.elapsed \div Res =< truth' \div Res
    BY <1>0, <1>1, DivMono
  <2> QED BY <1>0, <1>1, <1>3, <2>1, <2>2, <2>3, <2>4, <2>5 DEF CacheInv
<1>8. BothInv'
  <2>1. (truth - req.elapsed) \div Res =< (truth' - req.elapsed) \div Res
        /\ (truth' - req.elapsed) \div Res \in Int
    <3>1. /\ truth - req.elapsed \in Int /\ truth' - req.elapsed \in Int
          /\ truth - req.elapsed =< truth' - req.elapsed
      BY <1>0, <1>1
    <3> QED BY <3>1, DivMono, DivBounds
  <2>2. cache'.server =< Reckoned' /\ cache'.received + base' =< mem'.anchor.server
    BY <1>0, <1>1, <1>2, <1>3, <2>1 DEF Reckoned
  <2>3. honest => \E g \in 0..Gap :
              /\ g =< mem'.anchor.elapsed
              /\ (mem'.anchor.elapsed - g) \div Res - cache'.receivedWall =< mem'.anchor.server - cache'.received
    <3>1. honest => /\ 0 \in 0..Gap /\ 0 =< req.elapsed
                    /\ (req.elapsed - 0) \div Res - req.wall =< req.stamp - req.stamp
      BY <1>0, <1>1
    <3> QED BY <1>0, <1>1, <1>2, <3>1
  <2> QED BY <1>0, <1>1, <1>2, <2>2, <2>3 DEF BothInv
<1> QED BY <1>0, <1>4, <1>5, <1>6, <1>7, <1>8 DEF ClockInv

\* A checkpoint keeps the floors below what the anchor says, for memory as it
\* is and for the process after it.
LEMMA ClockSaves ==
  ASSUME ClockInv, Straddles, Saved, running' \in BOOLEAN,
         durable' = IF cache' = NoCache THEN durable ELSE base + (truth - since) \div Res,
         mem' \in {mem, NoMem}, req' \in {req, NoReq}, UNCHANGED <<base, since>>
  PROVE  ClockInv'
<1> USE ClockFacts, ClockStraddles
<1>0. TypeOK /\ since =< truth
  BY DEF ClockInv
<1>1. CASE cache' = NoCache
  BY <1>0, <1>1, ClockPasses DEF TypeOK
<1>2. CASE cache' # NoCache
  <2>1. /\ cache # NoCache /\ Held /\ Believed # Uncertain /\ Believed >= cache.server
        /\ Wall(truth') >= cache.wall /\ cache' = Floors(Believed, Wall(truth'))
    BY <1>2 DEF Saved
  <2> DEFINE e == mem.anchor.elapsed
             d == (truth - e) \div Res
  <2>2. Believed = mem.anchor.server + d /\ Believed \in Nat /\ e =< truth /\ d \in Nat
    <3>1. /\ mem.anchor \in Anchors /\ truth \in Nat /\ Wall(truth) \in Nat /\ e \in Nat
          /\ Now(mem.anchor, truth, Wall(truth)) # Uncertain
      BY <1>0, <2>1 DEF Believed
    <3>2. /\ Believed = mem.anchor.server + d /\ Believed \in Nat /\ e =< truth
      BY ONLY <3>1, NowIs DEF Believed
    <3>3. truth - e \in Nat
      BY <3>1, <3>2
    <3>4. d \in Nat
      BY ONLY <3>3, DivNat
    <3> QED BY <3>2, <3>4
  <2>3. /\ cache' \in Caches /\ cache'.received = cache.received /\ cache'.receivedWall = cache.receivedWall
        /\ cache'.server = Believed /\ cache'.wall = Wall(truth') /\ cache'.exp = cache.exp
    BY <1>0, <2>1, <2>2 DEF Floors, Caches, TypeOK
  <2>4. (truth - since) \div Res \in Nat /\ (truth - since) \div Res =< d
    <3>1. truth - since \in Nat /\ truth - e \in Int /\ truth - since =< truth - e
      BY <1>0, <2>1 DEF ClockInv, MemInv
    <3> QED BY <3>1, DivNat, DivMono
  <2>5. TypeOK'
    BY <1>0, <1>2, <2>3, <2>4 DEF TypeOK
  <2>6. MemInv' /\ ReqInv'
    <3>1. CASE mem' = mem
      BY <1>0, <3>1 DEF ClockInv, MemInv, ReqInv, Held, NoReq
    <3>2. CASE mem' = NoMem
      BY <1>0, <3>2 DEF ClockInv, MemInv, ReqInv, Held, NoReq
    <3> QED BY <3>1, <3>2
  <2>7. CacheInv'
    <3>1. cache'.exp > 0 /\ cache'.received + durable' =< cache'.server
      BY <1>0, <1>2, <2>1, <2>2, <2>3, <2>4 DEF ClockInv, CacheInv, BothInv
    <3>2. ASSUME honest
          PROVE  /\ cache'.wall =< truth' \div Res
                 /\ cache'.receivedWall =< cache'.wall /\ cache'.receivedWall =< cache'.received
                 /\ cache'.server - cache'.received =< cache'.wall - cache'.receivedWall
                 /\ cache'.wall - cache'.receivedWall =< cache'.server - cache'.received + Tolerance
      <4>1. /\ cache'.wall = truth' \div Res /\ mem.anchor.wall = e \div Res /\ e \div Res \in Nat
            /\ mem.anchor.server - cache.received =< e \div Res - cache.receivedWall
            /\ cache.receivedWall =< cache.received
        BY <1>0, <2>1, <2>3, <3>2, DivNat DEF ClockInv, MemInv, BothInv, CacheInv
      <4>2. PICK g \in 0..Gap : /\ g =< e
                                /\ (e - g) \div Res - cache.receivedWall =< mem.anchor.server - cache.received
        BY <1>0, <2>1, <3>2 DEF ClockInv, BothInv
      <4>3. e \div Res + d =< truth \div Res
        <5>1. e \in Int /\ truth - e \in Int /\ e + (truth - e) = truth
          BY <1>0
        <5> QED BY <5>1, DivParts
      <4>4. truth' \div Res =< (e - g) \div Res + d + Tolerance /\ (e - g) \div Res \in Int
        <5>1. truth' = (e - g) + (truth - e) + (g + (truth' - truth)) /\ e - g \in Int /\ truth - e \in Int
              /\ g + (truth' - truth) \in Int
          BY <1>0, <4>2
        <5>2. (g + (truth' - truth)) + 2 * (Res - 1) < (Tolerance + 1) * Res
          BY <1>0, <4>2, RoundingAssumption, ResAssumption
        <5> QED BY <1>0, <5>1, <5>2, DivSum, DivBounds
      <4>5. cache.receivedWall =< truth' \div Res
        <5>1. cache.receivedWall =< cache.wall /\ cache.wall =< truth \div Res
          BY <2>1, <3>2 DEF ClockInv, CacheInv
        <5>2. truth \div Res =< truth' \div Res /\ truth \div Res \in Nat /\ truth' \div Res \in Nat
          BY <1>0
        <5> QED BY <1>0, <5>1, <5>2
      <4> HIDE DEF d, e
      <4> QED BY <1>0, <2>2, <2>3, <4>1, <4>2, <4>3, <4>4, <4>5
    <3> QED BY <1>0, <3>1, <3>2 DEF CacheInv
  <2>8. BothInv'
    <3>1. CASE mem' = mem
      <4>1. d =< (truth' - e) \div Res /\ (truth' - e) \div Res \in Int
        <5>1. truth - e \in Int /\ truth' - e \in Int /\ truth - e =< truth' - e
          BY <1>0
        <5> QED BY <5>1, DivMono, DivBounds
      <4>2. cache'.server =< Reckoned'
        BY <1>0, <2>2, <2>3, <3>1, <4>1 DEF Reckoned
      <4> QED BY <1>0, <2>1, <2>3, <3>1, <4>2 DEF ClockInv, BothInv, Held
    <3>2. CASE mem' = NoMem
      BY <3>2 DEF BothInv, Held
    <3> QED BY <3>1, <3>2
  <2> QED BY <1>0, <2>5, <2>6, <2>7, <2>8 DEF ClockInv
<1> QED BY <1>1, <1>2

LEMMA ClockOpenStep ==
  ASSUME ClockInv, Open
  PROVE  ClockInv'
<1> USE ClockFacts, ClockStraddles
<1> DEFINE now == RestoredTime(cache, Wall(truth))
<1>0. /\ TypeOK /\ Straddles /\ running' = TRUE /\ base' = durable /\ since' = truth'
      /\ UNCHANGED <<req, durable>> /\ cache' = (IF now = Uncertain THEN NoCache ELSE cache)
      /\ IF cache # NoCache /\ now # Uncertain /\ now < cache.exp
         THEN mem' = [anchor |-> [server |-> now, elapsed |-> truth', wall |-> Wall(truth')],
                      exp |-> cache.exp, live |-> FALSE]
         ELSE mem' = NoMem
  BY DEF ClockInv, Open
<1>C. CacheInv'
  <2>1. cache' \in {cache, NoCache}
    BY <1>0
  <2>2. CASE cache' = cache
    <3>1. truth \div Res =< truth' \div Res /\ truth \div Res \in Nat /\ truth' \div Res \in Nat
      BY <1>0
    <3> QED BY <1>0, <2>2, <3>1 DEF ClockInv, CacheInv
  <2>3. CASE cache' = NoCache
    BY <2>3 DEF CacheInv
  <2> QED BY <2>1, <2>2, <2>3
<1>R. ReqInv'
  BY <1>0 DEF ClockInv, ReqInv
<1>1. CASE ~(cache # NoCache /\ now # Uncertain /\ now < cache.exp)
  <2>1. mem' = NoMem
    BY <1>0, <1>1
  <2>2. TypeOK' /\ MemInv' /\ BothInv'
    BY <1>0, <2>1 DEF TypeOK, MemInv, BothInv, Held
  <2> QED BY <1>0, <1>C, <1>R, <2>2 DEF ClockInv
<1>2. CASE cache # NoCache /\ now # Uncertain /\ now < cache.exp
  <2>1. /\ mem' = [anchor |-> [server |-> now, elapsed |-> truth', wall |-> Wall(truth')],
                   exp |-> cache.exp, live |-> FALSE]
        /\ cache' = cache
    BY <1>0, <1>2
  <2>2. /\ Wall(truth) >= cache.wall /\ cache.wall >= cache.receivedWall
        /\ now = Later(cache.received + (Wall(truth) - cache.receivedWall), cache.server)
    BY <1>0, <1>2 DEF RestoredTime
  <2>3. /\ now \in Nat /\ now >= cache.server /\ now >= cache.received + (Wall(truth) - cache.receivedWall)
        /\ now = cache.server \/ now = cache.received + (Wall(truth) - cache.receivedWall)
    BY <1>0, <2>2 DEF Later
  <2> HIDE DEF now
  <2>4. TypeOK'
    BY <1>0, <2>1, <2>3 DEF TypeOK, Anchors
  <2> DEFINE g == truth' - truth
  <2>5. ASSUME honest
        PROVE  /\ g \in 0..Gap /\ g =< truth' /\ truth' - g = truth
               /\ Wall(truth) = truth \div Res /\ Wall(truth') = truth' \div Res
               /\ truth \div Res =< truth' \div Res /\ truth \div Res \in Nat /\ truth' \div Res \in Nat
               /\ cache.receivedWall =< cache.received
               /\ cache.server - cache.received =< cache.wall - cache.receivedWall
    <3>1. g \in 0..Gap /\ g =< truth' /\ truth' - g = truth
      BY <1>0
    <3>2. /\ cache.receivedWall =< cache.received
          /\ cache.server - cache.received =< cache.wall - cache.receivedWall
      BY <1>2, <2>5 DEF ClockInv, CacheInv
    <3> QED BY <1>0, <2>5, <3>1, <3>2
  <2>6. MemInv'
    <3>1. honest => \E h \in 0..Gap : h =< truth' /\ (truth' - h) \div Res =< now
      BY <1>0, <2>3, <2>5
    <3> QED BY <1>0, <2>1, <2>5, <3>1 DEF MemInv
  <2>7. BothInv'
    <3>1. Reckoned' = now + (truth' - truth') \div Res /\ (truth' - truth') \div Res \in Nat
      BY <1>0, <2>1, DivNat DEF Reckoned
    <3>2. cache'.server =< Reckoned' /\ cache'.received + base' =< mem'.anchor.server
      BY <1>0, <1>2, <2>1, <2>3, <3>1 DEF ClockInv, CacheInv
    <3>3. ASSUME honest
          PROVE  /\ now - cache.received =< Wall(truth') - cache.receivedWall
                 /\ \E h \in 0..Gap : h =< truth' /\ (truth' - h) \div Res - cache.receivedWall =< now - cache.received
      <4>1. now - cache.received =< truth \div Res - cache.receivedWall
        BY <1>0, <2>2, <2>3, <2>5, <3>3
      <4>2. now - cache.received =< Wall(truth') - cache.receivedWall
        BY <1>0, <2>3, <2>5, <3>3, <4>1
      <4>3. (truth' - g) \div Res - cache.receivedWall =< now - cache.received
        BY <1>0, <2>3, <2>5, <3>3
      <4> QED BY <2>5, <3>3, <4>2, <4>3
    <3> QED BY <1>0, <2>1, <3>2, <3>3 DEF BothInv
  <2> QED BY <1>0, <1>C, <1>R, <2>4, <2>6, <2>7 DEF ClockInv
<1> QED BY <1>1, <1>2

LEMMA ClockNext ==
  ASSUME ClockInv, [Next]_vars
  PROVE  ClockInv'
<1>0. TypeOK /\ honest \in BOOLEAN /\ running \in BOOLEAN
  BY DEF ClockInv, TypeOK
<1>1. CASE Tick
  BY <1>0, <1>1, ClockPasses, BoundsAssumption DEF Tick, TypeOK, history
<1>2. ASSUME NEW s \in Skews, SetWall(s) PROVE ClockInv'
  <2>1. /\ skew' = s /\ honest' = FALSE
        /\ UNCHANGED <<truth, running, mem, cache, req, base, durable, since>>
    BY <1>2 DEF SetWall, history
  <2>2. truth \in Start..MaxTruth /\ truth \in Nat
    BY <1>0, ClockFacts DEF TypeOK
  <2>3. /\ honest' \in BOOLEAN /\ (honest' => honest /\ skew' = skew)
        /\ mem' \in {mem, NoMem} /\ cache' \in {cache, NoCache} /\ req' \in {req, NoReq}
        /\ running' \in BOOLEAN /\ skew' \in Skews /\ truth' \in Start..MaxTruth
    BY <1>0, <1>2, <2>1, <2>2
  <2>4. truth' >= truth /\ UNCHANGED <<base, since>> /\ durable' = durable
    BY <2>1, <2>2
  <2> QED BY <2>3, <2>4, ClockPasses
<1>3. CASE Ask \/ Stamp
  BY <1>3, ClockAskStep
<1>4. CASE Receive
  BY <1>4, ClockReceiveStep
<1>5. CASE ReceiveFails \/ SnapshotUncertain \/ Crash
  <2>1. /\ UNCHANGED <<truth, skew, honest, base, durable, since>> /\ running' \in BOOLEAN
        /\ mem' \in {mem, NoMem} /\ cache' \in {cache, NoCache} /\ req' \in {req, NoReq}
    BY <1>0, <1>5 DEF ReceiveFails, SnapshotUncertain, Crash, clocks, history
  <2>2. truth \in Start..MaxTruth /\ truth \in Nat /\ skew \in Skews
    BY <1>0, ClockFacts DEF TypeOK
  <2> QED BY <1>0, <2>1, <2>2, ClockPasses
<1>6. CASE Checkpoint
  BY <1>0, <1>6, ClockSaves DEF Checkpoint
<1>7. CASE Close
  BY <1>0, <1>7, ClockSaves DEF Close
<1>8. CASE Open
  BY <1>8, ClockOpenStep
<1>9. CASE UNCHANGED vars
  BY <1>0, <1>9, ClockPasses, ClockFacts DEF vars, clocks, history, TypeOK
<1> QED BY <1>1, <1>2, <1>3, <1>4, <1>5, <1>6, <1>7, <1>8, <1>9 DEF Next

\* What the invariant says of the clock's properties.
LEMMA ClockSound ==
  ASSUME ClockInv
  PROVE  NeverBelowFloor /\ RunningTimeCounts /\ NeverLate /\ HonestClockIsTrusted
<1> USE ClockFacts
<1> DEFINE e == mem.anchor.elapsed
           d == (truth - e) \div Res
<1>0. TypeOK /\ since =< truth /\ (honest => skew = 0)
  BY DEF ClockInv
<1>1. ASSUME Held
      PROVE  /\ e =< truth /\ d \in Nat /\ e \div Res \in Nat /\ truth = e + (truth - e)
             /\ (truth - since) \div Res =< d /\ (truth - since) \div Res \in Nat
             /\ e \div Res + d =< truth \div Res
  <2>1. e =< since /\ e =< truth
    BY <1>0, <1>1 DEF ClockInv, MemInv
  <2>2. truth - e \in Nat /\ truth - since \in Nat /\ truth - since =< truth - e /\ truth = e + (truth - e)
    BY <1>0, <2>1
  <2>3. d \in Nat /\ e \div Res \in Nat /\ (truth - since) \div Res =< d /\ (truth - since) \div Res \in Nat
    BY <1>0, <2>2, DivNat, DivMono
  <2>4. e \div Res + d =< truth \div Res
    <3>1. e \in Int /\ truth - e \in Int
      BY <1>0, <2>2
    <3> QED BY <2>2, <3>1, DivParts
  <2> QED BY <2>1, <2>2, <2>3, <2>4
<1>2. Held /\ Believed # Uncertain => Believed = mem.anchor.server + d
  BY <1>0, NowIs DEF Believed
<1>3. NeverBelowFloor
  BY <1>2 DEF NeverBelowFloor, ClockInv, BothInv, Reckoned
<1>4. RunningTimeCounts
  <2> SUFFICES ASSUME Held, Believed # Uncertain, cache # NoCache
               PROVE  Believed - cache.received >= base + (truth - since) \div Res
    BY DEF RunningTimeCounts
  <2>1. cache.received + base =< mem.anchor.server
    BY DEF ClockInv, BothInv
  <2> HIDE DEF d
  <2> QED BY <1>0, <1>1, <1>2, <2>1
<1>5. NeverLate
  <2> SUFFICES ASSUME Held, Believed # Uncertain, mem.live \/ honest PROVE Believed + Lag >= truth \div Res
    BY DEF NeverLate, Allowed
  <2>1. PICK g \in 0..Gap : g =< e /\ (e - g) \div Res =< mem.anchor.server
    <3>1. CASE honest
      BY <3>1 DEF ClockInv, MemInv
    <3>2. CASE mem.live
      <4>1. 0 \in 0..Gap /\ 0 =< e /\ (e - 0) \div Res =< mem.anchor.server
        BY <1>0, <3>2 DEF ClockInv, MemInv
      <4> QED BY <4>1
    <3> QED BY <3>1, <3>2
  <2>2. truth \div Res =< (e - g) \div Res + d + Lag /\ (e - g) \div Res \in Int
    <3>1. truth = (e - g) + (truth - e) + g /\ e - g \in Int /\ truth - e \in Int /\ g \in Int
      BY <1>0, <2>1
    <3>2. g + 2 * (Res - 1) < (Lag + 1) * Res
      BY <1>0, <2>1, RoundingAssumption, ResAssumption
    <3> QED BY <1>0, <3>1, <3>2, DivSum, DivBounds
  <2> HIDE DEF d
  <2> QED BY <1>0, <1>1, <1>2, <2>1, <2>2
<1>6. HonestClockIsTrusted
  <2> SUFFICES ASSUME honest
               PROVE  /\ Held => Believed # Uncertain
                      /\ cache # NoCache => RestoredTime(cache, Wall(truth)) # Uncertain
    BY DEF HonestClockIsTrusted
  <2>0. Wall(truth) = truth \div Res
    BY <1>0 DEF Wall
  <2>1. ASSUME Held PROVE Believed # Uncertain
    <3>1. mem.anchor.wall = e \div Res
      BY <2>1 DEF ClockInv, MemInv
    <3>2. truth \div Res =< e \div Res + d + Tolerance
      <4>1. truth = e + (truth - e) + 0 /\ e \in Int /\ truth - e \in Int
        BY <1>0, <1>1, <2>1
      <4>2. 0 + 2 * (Res - 1) < (Tolerance + 1) * Res
        BY <1>0, RoundingAssumption, ResAssumption
      <4> QED BY <1>0, <4>1, <4>2, DivSum
    <3>3. ~Apart(Wall(truth), mem.anchor.wall + d)
      <4> HIDE DEF d
      <4> QED BY <1>0, <1>1, <2>0, <2>1, <3>1, <3>2 DEF Apart
    <3>4. Believed = mem.anchor.server + d
      BY <1>0, <1>1, <2>1, <3>3 DEF Believed, Now, Seconds
    <3> HIDE DEF d
    <3> QED BY <1>0, <1>1, <2>1, <3>4
  <2>2. ASSUME cache # NoCache PROVE RestoredTime(cache, Wall(truth)) # Uncertain
    <3>1. /\ cache.received + durable =< cache.server /\ cache.wall =< truth \div Res
          /\ cache.receivedWall =< cache.wall /\ cache.receivedWall =< cache.received
          /\ cache.server - cache.received =< cache.wall - cache.receivedWall
          /\ cache.wall - cache.receivedWall =< cache.server - cache.received + Tolerance
      BY <2>2 DEF ClockInv, CacheInv
    <3>2. ~Apart(cache.wall - cache.receivedWall, cache.server - cache.received)
      BY <1>0, <3>1 DEF Apart
    <3>3. RestoredTime(cache, Wall(truth))
            = Later(cache.received + (Wall(truth) - cache.receivedWall), cache.server)
      BY <1>0, <2>0, <3>1, <3>2 DEF RestoredTime
    <3> QED BY <1>0, <2>0, <3>1, <3>3 DEF Later
  <2> QED BY <2>1, <2>2
<1> QED BY <1>3, <1>4, <1>5, <1>6

(***************************************************************************)
(* Grants: the inductive invariant                                         *)
(***************************************************************************)

Exchanges == [pc : {"idle", "asked", "answered", "fetching", "fetched", "done"}, kind : G!Kinds,
              installed : BOOLEAN, saved : Int, started : Nat, stamp : Nat, limit : Int, ends : Int,
              claims : G!Claims]
Leases == [claims : G!Claims, ends : Int, server : Int, at : Int]

\* The grant that the exchange made, if it was accepted.
Granted == [claims |-> ex.claims, ends |-> ex.ends, server |-> ex.stamp, at |-> ex.started]

\* No longer than the longest lease after the moment it was accepted, and no
\* longer than the licence and the credential.
Bounded(g) ==
  /\ g.claims.exp - (g.server - g.at) =< accepted + Skew + Offline
  /\ \A end \in {g.claims.limit, g.ends} \ {G!None} : g.claims.exp =< end

\* An answer tells the kind and the limit of its token, a fetch brings its key;
\* the verdict ends the exchange.
ExchangeInv ==
  /\ ex \in Exchanges /\ ex.started =< time
  /\ ex.pc \in {"answered", "fetching", "fetched", "done"} => ex.claims.kind = ex.kind /\ ex.claims.limit = ex.limit
  /\ ex.pc = "fetched" => ex.claims.kid \in keys
  /\ ex.pc = "done" <=> verdict # "none"

\* Grants in memory and in the record are the one that was accepted.
LeaseInv ==
  /\ held \in Leases /\ cache \in Leases
  /\ held # G!NoGrant => Bounded(held) /\ held.claims.mine
  /\ cache # G!NoGrant => /\ Bounded(cache) /\ cache.claims.mine
                          /\ cache = Granted /\ ex.pc = "done" /\ ex.installed

\* An honest grant for offline use stays in the record of an installed client,
\* and memory has it, or lost it when it was over.
NeutralInv ==
  verdict = "accepted" /\ ex.claims.offline /\ G!Honest(ex) =>
    /\ (ex.installed => cache = Granted) /\ ex.claims.mine
    /\ \/ held.claims = ex.claims /\ held.server - held.at = ex.stamp - ex.started
       \/ held = G!NoGrant /\ ex.stamp + (time - ex.started) >= ex.claims.exp

GrantInv ==
  G!TypeOK /\ ExchangeInv /\ LeaseInv /\ NeutralInv /\ G!HonestReplyIsAccepted

(***************************************************************************)
(* Grants: every step keeps the invariant                                  *)
(***************************************************************************)

LEMMA GrantFacts ==
  ASSUME GrantInv
  PROVE  /\ time \in Nat /\ MaxTime \in Nat /\ accepted \in Nat /\ Skew \in Nat /\ Offline \in Nat
         /\ took \in Nat /\ signing \in Int
         /\ ex \in Exchanges /\ ex.claims \in G!Claims /\ ex.claims.exp \in Int /\ ex.claims.iat \in Int
         /\ ex.stamp \in Nat /\ ex.started \in Nat /\ ex.started =< time /\ ex.ends \in Int /\ Granted \in Leases
         /\ held \in Leases /\ held.server \in Int /\ held.at \in Int /\ held.claims.exp \in Int
         /\ cache \in Leases /\ cache.server \in Int /\ cache.at \in Int /\ cache.claims.exp \in Int
         /\ cache.claims \in G!Claims
BY ConstantsAssumption
   DEF G!ConstantsOK, GrantInv, ExchangeInv, LeaseInv, G!TypeOK, G!Key, Exchanges, Leases, G!Claims, Granted

LEMMA NoClaimsType == G!NoClaims \in G!Claims /\ G!NoGrant \in Leases /\ G!NoClaims.mine = FALSE /\ 0 \in G!Key
BY ConstantsAssumption DEF G!ConstantsOK, G!NoClaims, G!Claims, G!NoGrant, Leases, G!Kinds, G!Key, G!None

LEMMA GrantInit ==
  ASSUME G!Init
  PROVE  GrantInv
<1>1. \E a, b \in G!Key : keys \subseteq {a, b}
  <2>1. CASE keys = {}
    BY <2>1, NoClaimsType
  <2>2. ASSUME NEW k \in 0..signing, keys = {k} PROVE \E a, b \in G!Key : keys \subseteq {a, b}
    <3>1. k \in G!Key
      BY <2>2, ConstantsAssumption DEF G!Init, G!Key, G!ConstantsOK
    <3> QED BY <2>2, <3>1
  <2> QED BY <2>1, <2>2 DEF G!Init
<1>2. ex = G!NoExchange /\ ex \in Exchanges /\ ex.pc = "idle" /\ ex.started = 0 /\ ex.claims = G!NoClaims
  BY NoClaimsType DEF G!Init, G!NoExchange, Exchanges, G!Kinds, G!None, G!Absent
<1>3. G!TypeOK
  <2>1. time = 0 /\ took = 0 /\ accepted = 0 /\ 0 \in 0..MaxTime /\ signing \in G!Key /\ verdict = "none"
    BY ConstantsAssumption DEF G!Init, G!ConstantsOK
  <2>2. held.claims = G!NoClaims /\ cache.claims = G!NoClaims
    BY DEF G!Init, G!NoGrant
  <2> QED BY <1>1, <1>2, <2>1, <2>2, NoClaimsType DEF G!TypeOK
<1>4. ExchangeInv /\ LeaseInv /\ NeutralInv /\ G!HonestReplyIsAccepted
  BY <1>2, NoClaimsType DEF G!Init, ExchangeInv, LeaseInv, NeutralInv, G!HonestReplyIsAccepted
<1> QED BY <1>3, <1>4 DEF GrantInv

LEMMA HonestSame ==
  ASSUME ex'.claims = ex.claims, ex'.stamp = ex.stamp, ex'.kind = ex.kind, ex'.ends = ex.ends,
         ex'.saved = ex.saved, ex'.installed = ex.installed
  PROVE  G!Honest(ex)' <=> G!Honest(ex)
BY DEF G!Honest, G!CredentialOk, G!Verifies, G!GrantOk, G!SessionGrantOk, G!IssuedInTime, G!Common, G!RefreshOk

\* Steps before the verdict, and time.
LEMMA GrantQuiet ==
  ASSUME GrantInv, G!TypeOK', ExchangeInv', UNCHANGED <<held, cache, accepted>>, time' >= time, time' \in Int,
         verdict # "none" => UNCHANGED <<ex, verdict, took>>,
         verdict = "none" => verdict' \in {"none", "noKey"}
  PROVE  GrantInv'
<1> USE GrantFacts
<1>1. LeaseInv'
  <2>1. cache # G!NoGrant => verdict # "none"
    BY DEF GrantInv, LeaseInv, ExchangeInv
  <2> QED BY <2>1 DEF GrantInv, LeaseInv, Bounded, Granted, G!NoGrant
<1>2. NeutralInv'
  <2> SUFFICES ASSUME verdict' = "accepted", ex'.claims.offline, G!Honest(ex)'
               PROVE  /\ (ex'.installed => cache' = Granted') /\ ex'.claims.mine
                      /\ \/ held'.claims = ex'.claims /\ held'.server - held'.at = ex'.stamp - ex'.started
                         \/ held' = G!NoGrant /\ ex'.stamp + (time' - ex'.started) >= ex'.claims.exp
    BY DEF NeutralInv, G!NoGrant
  <2>1. UNCHANGED <<ex, verdict, took>>
    OBVIOUS
  <2>2. verdict = "accepted" /\ ex.claims.offline /\ G!Honest(ex)
    BY <2>1, HonestSame
  <2>3. /\ (ex.installed => cache = Granted) /\ ex.claims.mine
        /\ \/ held.claims = ex.claims /\ held.server - held.at = ex.stamp - ex.started
           \/ held = G!NoGrant /\ ex.stamp + (time - ex.started) >= ex.claims.exp
    BY <2>2 DEF GrantInv, NeutralInv
  <2> QED BY <2>1, <2>3 DEF Granted
<1>3. G!HonestReplyIsAccepted'
  <2> SUFFICES ASSUME verdict' = "rejected", G!Honest(ex)'
               PROVE  took' > Skew \/ ex'.claims.exp <= ex'.stamp + took'
    BY DEF G!HonestReplyIsAccepted
  <2>1. UNCHANGED <<ex, verdict, took>>
    OBVIOUS
  <2>2. verdict = "rejected" /\ G!Honest(ex)
    BY <2>1, HonestSame
  <2> QED BY <2>1, <2>2 DEF GrantInv, G!HonestReplyIsAccepted
<1> QED BY <1>1, <1>2, <1>3 DEF GrantInv

LEMMA PublishedKeys ==
  ASSUME signing \in G!Key
  PROVE  \E a, b \in G!Key : G!Fetched \subseteq {a, b}
<1>1. G!Fetched = {signing} \cup (G!Key \cap {signing - 1})
  BY DEF G!Fetched, G!Published
<1>2. CASE signing - 1 \in G!Key
  BY <1>1, <1>2
<1>3. CASE signing - 1 \notin G!Key
  BY <1>1, <1>3
<1> QED BY <1>2, <1>3

LEMMA GrantQuietSteps ==
  ASSUME GrantInv,
         \/ G!Tick \/ G!Rotate \/ G!NeedsKeys \/ G!FetchKeys \/ G!FetchMisses \/ UNCHANGED G!vars
         \/ \E kind \in G!Kinds, installed \in BOOLEAN, saved \in {G!Absent, G!None, CredentialLife} :
              G!Ask(kind, installed, saved)
  PROVE  GrantInv'
<1> USE GrantFacts
<1>0. G!TypeOK /\ ExchangeInv /\ MaxKey \in Nat
  BY ConstantsAssumption DEF GrantInv, G!ConstantsOK
<1>1. CASE G!Tick
  <2>1. time' = time + 1 /\ time < MaxTime /\ UNCHANGED <<signing, keys, ex, held, cache, verdict, took, accepted>>
    BY <1>1 DEF G!Tick
  <2>2. G!TypeOK' /\ ExchangeInv'
    BY <1>0, <2>1 DEF G!TypeOK, ExchangeInv
  <2> QED BY <2>1, <2>2, GrantQuiet
<1>2. CASE G!Rotate
  <2>1. signing' = signing + 1 /\ signing < MaxKey /\ UNCHANGED <<time, keys, ex, held, cache, verdict, took, accepted>>
    BY <1>2 DEF G!Rotate
  <2>2. G!TypeOK' /\ ExchangeInv'
    <3>1. signing' \in G!Key
      BY <1>0, <2>1 DEF G!TypeOK, G!Key
    <3> QED BY <1>0, <2>1, <3>1 DEF G!TypeOK, ExchangeInv
  <2> QED BY <2>1, <2>2, GrantQuiet
<1>3. CASE G!NeedsKeys \/ G!FetchKeys \/ G!FetchMisses
  <2>1. /\ ex.pc \in {"answered", "fetching"}
        /\ \E p \in {"fetching", "fetched", "done"} :
             /\ ex' = [ex EXCEPT !.pc = p]
             /\ p = "done" <=> verdict' # "none"
             /\ p = "fetched" => ex.claims.kid \in keys'
        /\ keys' \in {keys, G!Fetched} /\ verdict' \in {verdict, "noKey"}
        /\ took' \in {took, time - ex.started} /\ UNCHANGED <<time, signing, held, cache, accepted>>
    <3>1. ex.pc \in {"answered", "fetching"} => verdict = "none"
      BY <1>0 DEF ExchangeInv
    <3> QED BY <1>3, <3>1 DEF G!NeedsKeys, G!Receives, G!FetchKeys, G!FetchMisses, G!Fetched
  <2>2. verdict = "none"
    BY <1>0, <2>1 DEF ExchangeInv
  <2>3. /\ ex' \in Exchanges /\ ex'.claims = ex.claims /\ ex'.started = ex.started /\ ex'.kind = ex.kind
        /\ ex'.limit = ex.limit /\ (ex'.pc = "done" <=> verdict' # "none")
        /\ (ex'.pc = "fetched" => ex'.claims.kid \in keys')
    BY <2>1 DEF Exchanges
  <2>4. ExchangeInv'
    BY <1>0, <2>1, <2>3 DEF ExchangeInv
  <2>5. (\E a, b \in G!Key : keys' \subseteq {a, b}) /\ took' \in 0..MaxTime
    BY <1>0, <2>1, PublishedKeys DEF G!TypeOK
  <2>6. G!TypeOK'
    BY <1>0, <2>1, <2>2, <2>3, <2>5 DEF G!TypeOK, Exchanges
  <2> QED BY <2>1, <2>2, <2>4, <2>6, GrantQuiet
<1>4. ASSUME NEW kind \in G!Kinds, NEW installed \in BOOLEAN, NEW saved \in {G!Absent, G!None, CredentialLife},
             G!Ask(kind, installed, saved)
      PROVE  GrantInv'
  <2>1. /\ ex.pc = "idle"
        /\ ex' = [G!NoExchange EXCEPT !.pc = "asked", !.kind = kind, !.installed = installed, !.saved = saved,
                                      !.started = time]
        /\ UNCHANGED <<time, signing, keys, held, cache, verdict, took, accepted>>
    BY <1>4 DEF G!Ask
  <2>2. ex' \in Exchanges /\ ex'.pc = "asked" /\ ex'.started = time /\ ex'.claims \in G!Claims
    <3>1. ex' = [pc |-> "asked", kind |-> kind, installed |-> installed, saved |-> saved, started |-> time,
                 stamp |-> 0, limit |-> -1, ends |-> -1, claims |-> G!NoClaims]
      BY <2>1 DEF G!NoExchange, G!None
    <3>2. saved \in Int
      BY ConstantsAssumption DEF G!ConstantsOK, G!None, G!Absent
    <3> QED BY <3>1, <3>2, NoClaimsType DEF Exchanges
  <2>3. verdict = "none"
    BY <1>0, <2>1 DEF ExchangeInv
  <2>4. G!TypeOK' /\ ExchangeInv'
    BY <1>0, <2>1, <2>2, <2>3 DEF G!TypeOK, ExchangeInv
  <2> QED BY <2>1, <2>3, <2>4, GrantQuiet
<1>5. CASE UNCHANGED G!vars
  <2>1. UNCHANGED <<time, signing, keys, ex, held, cache, verdict, took, accepted>>
    BY <1>5 DEF G!vars
  <2>2. G!TypeOK' /\ ExchangeInv'
    BY <1>0, <2>1 DEF G!TypeOK, ExchangeInv
  <2>3. verdict = "none" => verdict' \in {"none", "noKey"}
    BY <2>1
  <2> QED BY <2>1, <2>2, <2>3, GrantQuiet
<1> QED BY <1>1, <1>2, <1>3, <1>4, <1>5

LEMMA GrantAnswers ==
  ASSUME GrantInv, G!ServerAnswers
  PROVE  GrantInv'
<1> USE GrantFacts
<1>0. G!TypeOK /\ ExchangeInv /\ ex.pc = "asked" /\ verdict = "none"
      /\ UNCHANGED <<time, signing, keys, held, cache, verdict, took, accepted>>
  BY DEF GrantInv, ExchangeInv, G!ServerAnswers
<1>1. PICK d \in -Disorder..Disorder, life \in 0..(Offline + 1), refresh \in 0..(OfflineRefreshMax + 1),
           offline \in BOOLEAN, mine \in BOOLEAN, limit \in {G!None, time + 2},
           ends \in IF ex.kind = "session" THEN {ex.saved}
                   ELSE {G!None, CredentialLife, time + CredentialLife + 1} :
        LET c == [kind |-> ex.kind, kid |-> signing, iat |-> time + d, exp |-> time + d + life,
                  refresh |-> time + d + refresh, offline |-> offline, limit |-> limit, mine |-> mine]
            e == [ex EXCEPT !.pc = "answered", !.stamp = time, !.claims = c, !.limit = limit, !.ends = ends]
        IN /\ refresh <= life
           /\ d # 0 \/ ~mine => limit = G!None /\ (ex.kind = "access" => ex.saved = G!Absent)
           /\ ~mine \/ ~G!CredentialOk(e, time) => d = 0 /\ limit = G!None /\ ~offline
           /\ ex' = e
  BY Zenon DEF G!ServerAnswers
<1> DEFINE c == [kind |-> ex.kind, kid |-> signing, iat |-> time + d, exp |-> time + d + life,
                 refresh |-> time + d + refresh, offline |-> offline, limit |-> limit, mine |-> mine]
<1>2. Disorder \in Nat /\ OfflineRefreshMax \in Nat /\ CredentialLife \in Nat
  BY ConstantsAssumption DEF G!ConstantsOK
<1>3. c \in G!Claims /\ c.kind = ex.kind /\ c.limit = limit /\ limit \in Int
  <2>1. d \in Int /\ life \in Int /\ refresh \in Int /\ limit \in Int /\ ex.kind \in G!Kinds /\ signing \in G!Key
    BY <1>0, <1>2 DEF G!None, Exchanges, G!TypeOK
  <2> QED BY <2>1 DEF G!Claims
<1> HIDE DEF c
<1>E. ends \in Int
  BY <1>2 DEF G!None, Exchanges
<1>4. ex' = [ex EXCEPT !.pc = "answered", !.stamp = time, !.claims = c, !.limit = limit, !.ends = ends]
  BY <1>1 DEF c
<1>5. /\ ex' \in Exchanges /\ ex'.pc = "answered" /\ ex'.claims = c /\ ex'.limit = limit
      /\ ex'.kind = ex.kind /\ ex'.started = ex.started
  BY <1>3, <1>4, <1>E DEF Exchanges
<1>6. G!TypeOK' /\ ExchangeInv'
  BY <1>0, <1>3, <1>5 DEF G!TypeOK, ExchangeInv
<1> QED BY <1>0, <1>6, GrantQuiet

\* A token that passes the checks is for this client and ends within the
\* longest lease.
LEMMA VerifiesIs ==
  ASSUME NEW c \in G!Claims, NEW kind \in G!Kinds, NEW now \in Int, NEW limit, NEW ends,
         G!Verifies(c, kind, now, limit, ends)
  PROVE  /\ c.mine /\ c.exp =< now + Skew + Offline /\ c.exp > now
         /\ c.offline => kind = "access"
         /\ \A end \in {c.limit, ends} \ {G!None} : c.exp =< end
<1>0. /\ Skew \in Nat /\ Online \in Nat /\ Offline \in Nat /\ SessionLife \in Nat
      /\ Online =< Offline /\ SessionLife =< Online /\ c.exp \in Int /\ c.iat \in Int
  BY ConstantsAssumption DEF G!ConstantsOK, G!Claims
<1>1. CASE kind = "access"
  BY <1>0, <1>1 DEF G!Verifies, G!GrantOk, G!Common, G!IssuedInTime
<1>2. CASE kind = "session"
  BY <1>0, <1>2 DEF G!Verifies, G!SessionGrantOk, G!Common
<1> QED BY <1>1, <1>2 DEF G!Kinds

\* An honest answer that came within the skew passes the checks until it ends.
LEMMA HonestVerifies ==
  ASSUME NEW e \in Exchanges, NEW late \in Nat,
         G!Honest(e), late =< Skew, e.claims.exp > e.stamp + late
  PROVE  G!Verifies(e.claims, e.claims.kind, e.stamp + late, e.claims.limit, e.ends)
<1> DEFINE c == e.claims
           stamp == e.stamp
<1>0. Skew \in Nat /\ c.exp \in Int /\ c.iat = stamp /\ c.kind \in {"access", "session"} /\ stamp \in Nat
  BY ConstantsAssumption DEF G!ConstantsOK, Exchanges, G!Claims, G!Honest, G!Kinds
<1>1. CASE c.kind = "access"
  BY <1>0, <1>1 DEF G!Honest, G!Verifies, G!GrantOk, G!Common, G!IssuedInTime
<1>2. CASE c.kind = "session"
  BY <1>0, <1>2 DEF G!Honest, G!Verifies, G!SessionGrantOk, G!Common
<1> QED BY <1>0, <1>1, <1>2

\* A credential that an honest answer brought is refused only once it ended,
\* and the grant does not outlast it.
LEMMA GrantRefuses ==
  ASSUME GrantInv, G!RefusesCredential
  PROVE  GrantInv'
<1> USE GrantFacts
<1> DEFINE now == ex.stamp + (time - ex.started)
<1>0. /\ G!TypeOK /\ ExchangeInv /\ LeaseInv /\ ex.pc = "answered" /\ ~G!CredentialOk(ex, now)
      /\ ex' = [ex EXCEPT !.pc = "done"] /\ verdict' = "rejected" /\ took' = time - ex.started
      /\ UNCHANGED <<time, signing, keys, held, cache, accepted>>
  BY DEF GrantInv, G!RefusesCredential, G!Believed
<1>1. /\ ex' \in Exchanges /\ ex'.claims = ex.claims /\ ex'.stamp = ex.stamp /\ ex'.started = ex.started
      /\ ex'.kind = ex.kind /\ ex'.limit = ex.limit /\ ex'.ends = ex.ends /\ ex'.saved = ex.saved
      /\ ex'.installed = ex.installed /\ ex'.pc = "done"
  BY <1>0 DEF Exchanges
<1>2. cache = G!NoGrant /\ time - ex.started \in 0..MaxTime /\ G!NoGrant' = G!NoGrant
  BY <1>0 DEF LeaseInv, G!TypeOK, G!NoGrant
<1>3. G!TypeOK' /\ ExchangeInv'
  BY <1>0, <1>1, <1>2 DEF G!TypeOK, ExchangeInv
<1>4. LeaseInv' /\ NeutralInv'
  BY <1>0, <1>1, <1>2 DEF LeaseInv, NeutralInv, Bounded
<1>5. G!HonestReplyIsAccepted'
  <2> SUFFICES ASSUME G!Honest(ex)' PROVE ex'.claims.exp <= ex'.stamp + took'
    BY DEF G!HonestReplyIsAccepted
  <2>1. G!Honest(ex)
    BY <1>1, HonestSame
  <2>2. ex.ends # G!None /\ ex.ends =< now
    <3>1. G!CredentialOk(ex, ex.stamp) /\ CredentialLife \in Nat /\ time - ex.started \in Nat
      BY <1>2, <2>1, ConstantsAssumption DEF G!Honest, G!ConstantsOK
    <3> QED BY <1>0, <3>1 DEF G!CredentialOk
  <2>3. ex.claims.exp =< ex.ends
    BY <2>1, <2>2 DEF G!Honest, G!Verifies, G!GrantOk, G!SessionGrantOk, G!Common
  <2> QED BY <1>0, <1>1, <2>2, <2>3
<1> QED BY <1>3, <1>4, <1>5 DEF GrantInv

LEMMA GrantVerifies ==
  ASSUME GrantInv, G!Verify
  PROVE  GrantInv'
<1> USE GrantFacts
<1> DEFINE now == ex.stamp + (time - ex.started)
           ok == ex.claims.kid \in keys /\ G!Verifies(ex.claims, ex.kind, now, ex.limit, ex.ends)
<1>0. /\ G!TypeOK /\ ExchangeInv /\ LeaseInv /\ ex.pc \in {"answered", "fetched"} /\ ex.claims.kid \in keys
      /\ ex' = [ex EXCEPT !.pc = "done"] /\ took' = time - ex.started
      /\ IF ok THEN /\ held' = Granted /\ accepted' = time /\ verdict' = "accepted"
                    /\ cache' = IF ex.kind = "access" /\ ex.installed THEN Granted ELSE cache
         ELSE verdict' = "rejected" /\ UNCHANGED <<held, cache, accepted>>
      /\ UNCHANGED <<time, signing, keys>>
  BY DEF GrantInv, ExchangeInv, G!Verify, G!Receives, G!LacksKey, G!Believed, Granted
<1>1. /\ ex' \in Exchanges /\ ex'.claims = ex.claims /\ ex'.stamp = ex.stamp /\ ex'.started = ex.started
      /\ ex'.kind = ex.kind /\ ex'.limit = ex.limit /\ ex'.ends = ex.ends /\ ex'.saved = ex.saved
      /\ ex'.installed = ex.installed /\ ex'.pc = "done"
  BY <1>0 DEF Exchanges
<1>2. Granted' = Granted /\ ex.claims.kind = ex.kind /\ ex.claims.limit = ex.limit /\ ex.kind \in G!Kinds
      /\ now \in Nat /\ verdict = "none" /\ cache = G!NoGrant /\ time - ex.started \in 0..MaxTime
  <2>1. Granted' = Granted
    BY <1>1 DEF Granted
  <2>2. ex.claims.kind = ex.kind /\ ex.claims.limit = ex.limit /\ ex.kind \in G!Kinds /\ verdict = "none"
    BY <1>0 DEF ExchangeInv, Exchanges
  <2>3. cache = G!NoGrant
    BY <1>0 DEF LeaseInv
  <2> QED BY <1>0, <2>1, <2>2, <2>3 DEF G!TypeOK
<1>3. ExchangeInv'
  BY <1>0, <1>1, <1>2 DEF ExchangeInv
<1>N. G!NoGrant' = G!NoGrant /\ G!NoGrant \in Leases /\ G!NoGrant.claims.mine = FALSE
  BY NoClaimsType DEF G!NoGrant
<1>4. CASE ok
  <2>1. /\ ex.claims.mine /\ ex.claims.exp =< now + Skew + Offline /\ ex.claims.exp > now
        /\ ex.claims.offline => ex.kind = "access"
        /\ \A end \in {ex.claims.limit, ex.ends} \ {G!None} : ex.claims.exp =< end
    BY <1>2, <1>4, VerifiesIs
  <2>2. /\ held' = Granted /\ accepted' = time /\ verdict' = "accepted"
        /\ cache' = IF ex.kind = "access" /\ ex.installed THEN Granted ELSE cache
    BY <1>0, <1>4
  <2>3. /\ Granted.claims = ex.claims /\ Granted.server = ex.stamp /\ Granted.at = ex.started
        /\ Granted.ends = ex.ends
    BY DEF Granted
  <2> HIDE DEF ok
  <2>4. G!TypeOK'
    BY <1>0, <1>1, <1>2, <2>2, <2>3 DEF G!TypeOK
  <2>5. LeaseInv'
    <3>1. Bounded(held)' /\ held'.claims.mine /\ held' \in Leases
      BY <1>1, <2>1, <2>2, <2>3 DEF Bounded
    <3>2. cache' \in Leases /\ (cache' # G!NoGrant => cache' = Granted /\ ex.installed)
      BY <1>2, <2>2
    <3> QED BY <1>1, <1>2, <1>N, <2>2, <3>1, <3>2 DEF LeaseInv, Bounded
  <2>6. NeutralInv'
    <3>1. held'.claims = ex'.claims /\ held'.server - held'.at = ex'.stamp - ex'.started
      BY <1>1, <2>2, <2>3
    <3>2. ex'.claims.offline => (ex'.installed => cache' = Granted') /\ ex'.claims.mine
      BY <1>1, <1>2, <2>1, <2>2
    <3> QED BY <3>1, <3>2 DEF NeutralInv
  <2>7. G!HonestReplyIsAccepted'
    BY <2>2 DEF G!HonestReplyIsAccepted
  <2> QED BY <1>3, <2>4, <2>5, <2>6, <2>7 DEF GrantInv
<1>5. CASE ~ok
  <2>1. verdict' = "rejected" /\ UNCHANGED <<held, cache, accepted>>
    BY <1>0, <1>5
  <2>2. ~G!Verifies(ex.claims, ex.kind, now, ex.limit, ex.ends)
    BY <1>0, <1>5
  <2>3. G!HonestReplyIsAccepted'
    <3> SUFFICES ASSUME G!Honest(ex)', ~(took' > Skew), ~(ex'.claims.exp <= ex'.stamp + took')
                 PROVE  FALSE
      BY DEF G!HonestReplyIsAccepted
    <3>1. G!Honest(ex)
      BY <1>1, HonestSame
    <3>2. time - ex.started \in Nat /\ time - ex.started =< Skew /\ ex.claims.exp > ex.stamp + (time - ex.started)
      BY <1>0, <1>1
    <3>3. G!Verifies(ex.claims, ex.claims.kind, ex.stamp + (time - ex.started), ex.claims.limit, ex.ends)
      BY <3>1, <3>2, HonestVerifies
    <3> QED BY <1>2, <2>2, <3>3
  <2> HIDE DEF ok
  <2>4. G!TypeOK'
    BY <1>0, <1>1, <1>2, <2>1 DEF G!TypeOK
  <2>5. LeaseInv' /\ NeutralInv'
    BY <1>0, <1>1, <1>2, <1>N, <2>1 DEF LeaseInv, NeutralInv, Bounded
  <2> QED BY <1>3, <2>3, <2>4, <2>5 DEF GrantInv
<1> QED BY <1>4, <1>5

LEMMA GrantRestarts ==
  ASSUME GrantInv, G!Restart
  PROVE  GrantInv'
<1> USE GrantFacts
<1> DEFINE now == cache.server + (time - cache.at)
           ok == G!RestoredAsReceived(cache)
           again == [cache EXCEPT !.server = now, !.at = time]
<1>0. /\ G!TypeOK /\ ExchangeInv /\ LeaseInv /\ ex.pc = "done" /\ cache # G!NoGrant
      /\ cache' = IF ok THEN cache ELSE G!NoGrant
      /\ held' = IF /\ ok /\ cache.claims.offline
                    /\ now >= cache.claims.iat /\ now < cache.claims.exp
                 THEN again ELSE G!NoGrant
      /\ keys' = IF ok THEN {cache.claims.kid} ELSE {}
      /\ UNCHANGED <<time, signing, ex, verdict, took, accepted>>
  BY DEF GrantInv, G!Restart, G!Believed
<1>1. /\ cache = Granted /\ cache.claims = ex.claims /\ cache.server = ex.stamp /\ cache.at = ex.started
      /\ ex.claims.mine /\ Bounded(cache) /\ Granted' = Granted /\ ex.installed /\ cache.ends = ex.ends
  BY <1>0 DEF LeaseInv, Granted
<1>2. /\ again \in Leases /\ again.claims = cache.claims /\ again.ends = cache.ends /\ again.server - again.at = cache.server - cache.at
      /\ now \in Int /\ again.server \in Int /\ again.at \in Int
  <2>1. now \in Int /\ time \in Int /\ cache \in Leases
    OBVIOUS
  <2>2. again \in Leases /\ again.claims = cache.claims /\ again.ends = cache.ends /\ again.server = now /\ again.at = time
    <3> HIDE DEF now
    <3> QED BY <2>1 DEF Leases
  <2> QED BY <2>1, <2>2
<1>N. G!NoGrant' = G!NoGrant /\ G!NoGrant \in Leases /\ G!NoGrant.claims = G!NoClaims /\ G!NoClaims \in G!Claims
  BY NoClaimsType DEF G!NoGrant
<1> HIDE DEF now, ok, again
<1>3. held' \in {again, G!NoGrant} /\ cache' \in {cache, G!NoGrant}
  BY <1>0
<1>4. G!TypeOK'
  <2>1. \E a, b \in G!Key : keys' \subseteq {a, b}
    <3>1. cache.claims.kid \in G!Key /\ (keys' = {cache.claims.kid} \/ keys' = {})
      BY <1>0 DEF G!Claims
    <3> QED BY <3>1
  <2>2. held'.claims \in G!Claims /\ cache'.claims \in G!Claims
    BY <1>2, <1>3, <1>N
  <2> QED BY <1>0, <2>1, <2>2 DEF G!TypeOK
<1>5. ExchangeInv'
  BY <1>0 DEF ExchangeInv
<1>6. LeaseInv'
  <2>1. held' \in Leases /\ cache' \in Leases
    BY <1>2, <1>3, <1>N
  <2>2. held' # G!NoGrant => held' = again
    BY <1>3
  <2>3. Bounded(again)
    BY <1>1, <1>2 DEF Bounded
  <2>4. held' # G!NoGrant => Bounded(held)' /\ held'.claims.mine
    BY <1>0, <1>1, <1>2, <2>2, <2>3 DEF Bounded
  <2>5. cache' # G!NoGrant => cache' = cache
    BY <1>3
  <2> QED BY <1>0, <1>1, <1>N, <2>1, <2>4, <2>5 DEF LeaseInv, Bounded
<1>7. NeutralInv'
  <2> SUFFICES ASSUME verdict = "accepted", ex.claims.offline, G!Honest(ex)'
               PROVE  /\ cache' = Granted
                      /\ \/ held'.claims = ex.claims /\ held'.server - held'.at = ex.stamp - ex.started
                         \/ held' = G!NoGrant /\ ex.stamp + (time - ex.started) >= ex.claims.exp
    BY <1>0, <1>1, <1>N DEF NeutralInv
  <2>1. G!Honest(ex)
    BY <1>0, HonestSame
  <2>2. ex.claims.kind = "access"
    <3>1. ex.claims.kind \in {"access", "session"}
      BY DEF G!Claims, G!Kinds
    <3> QED BY <2>1, <3>1 DEF G!Honest, G!Verifies, G!SessionGrantOk
  <2>3. ok
    BY <1>1, <2>1, <2>2 DEF ok, G!RestoredAsReceived, G!Honest, G!Verifies
  <2>4. now = ex.stamp + (time - ex.started) /\ ex.claims.iat = ex.stamp /\ now >= cache.claims.iat
    BY <1>1, <2>1 DEF now, G!Honest
  <2>5. CASE now < cache.claims.exp
    BY <1>0, <1>1, <1>2, <2>3, <2>4, <2>5
  <2>6. CASE ~(now < cache.claims.exp)
    BY <1>0, <1>1, <1>2, <2>3, <2>4, <2>6
  <2> QED BY <2>5, <2>6
<1>8. G!HonestReplyIsAccepted'
  BY <1>0, HonestSame DEF GrantInv, G!HonestReplyIsAccepted
<1> QED BY <1>4, <1>5, <1>6, <1>7, <1>8 DEF GrantInv

LEMMA GrantNext ==
  ASSUME GrantInv, G!Next \/ UNCHANGED G!vars
  PROVE  GrantInv'
BY GrantQuietSteps, GrantAnswers, GrantRefuses, GrantVerifies, GrantRestarts DEF G!Next

LEMMA GrantSound ==
  ASSUME GrantInv
  PROVE  G!HonestReplyIsAccepted /\ G!LeaseIsBounded /\ G!RestartIsNeutral
<1> USE GrantFacts
<1>1. G!LeaseIsBounded
  <2> SUFFICES ASSUME G!Usable
               PROVE  /\ time - accepted < Skew + Offline
                      /\ \A end \in {held.claims.limit, held.ends} \ {G!None} :
                           held.server + (time - held.at) < end
    BY DEF G!LeaseIsBounded, G!Believed
  <2>1. Bounded(held) /\ held.server + (time - held.at) < held.claims.exp
    BY DEF GrantInv, LeaseInv, G!Usable, G!Believed
  <2>2. time - accepted < Skew + Offline
    BY <2>1 DEF Bounded
  <2>3. held.claims.limit \in Int /\ held.ends \in Int
    BY DEF Leases, G!Claims
  <2>4. ASSUME NEW end \in {held.claims.limit, held.ends} \ {G!None}
        PROVE  held.server + (time - held.at) < end
    BY <2>1, <2>3, <2>4 DEF Bounded
  <2> QED BY <2>2, <2>4
<1>2. G!RestartIsNeutral
  <2> SUFFICES ASSUME verdict = "accepted", ex.claims.offline, G!Honest(ex)
               PROVE  G!Usable <=> G!Believed(ex.stamp, ex.started) < ex.claims.exp
    BY DEF G!RestartIsNeutral
  <2>1. /\ ex.claims.mine
        /\ \/ held.claims = ex.claims /\ held.server - held.at = ex.stamp - ex.started
           \/ held = G!NoGrant /\ ex.stamp + (time - ex.started) >= ex.claims.exp
    BY DEF GrantInv, NeutralInv
  <2>2. held.claims = ex.claims => held # G!NoGrant
    BY <2>1, NoClaimsType DEF G!NoGrant
  <2> QED BY <2>1, <2>2 DEF G!Usable, G!Believed
<1> QED BY <1>1, <1>2 DEF GrantInv

(***************************************************************************)
(* Offline files: the inductive invariant                                  *)
(***************************************************************************)

\* A record that a later process will open: what OwnRecordOpens says of rec.
Good(r) ==
  /\ r \in O!Records /\ O!Validate(r)
  /\ r.off.id = NoFile => r.off = O!NoOffline
  /\ r.off.file # NoFile =>
       /\ O!Verify(r.off.file, r.inst, r.off.verifiedAt, r.off.seq)
       /\ r.off.file.seq = r.off.seq /\ r.off.file = r.off.id
       /\ r.off.verifiedAt >= r.off.file.iat - FileTolerance

\* The record has the newest file that was accepted, or at least its sequence
\* and id, and the highest floor, which covers the time processes ran.
RecordInv ==
  /\ Good(rec)
  /\ seen = rec.off.floor /\ paid =< rec.off.floor
  /\ \A a \in accepted :
       /\ a[1] =< rec.inst
       /\ a[1] = rec.inst => a[2].seq =< rec.off.seq /\ (a[2].seq = rec.off.seq => a[2] = rec.off.id)

\* Memory m shows the file of the record r, with floors that are no lower.
Matches(m, r) ==
  /\ r.off.file = m.file /\ r.off.file # NoFile /\ m.off.file = m.file
  /\ r.off.seq = m.off.seq /\ r.off.id = m.off.id /\ r.off.verifiedAt = m.off.verifiedAt
  /\ r.off.floor =< m.off.floor /\ r.off.wall =< m.off.wall

\* The anchor of a runtime covers the time that is owed and its own floor.
RuntimeInv ==
  /\ O!Anchored => /\ mem.anchor.elapsed =< time
                   /\ mem.anchor.server + (time - mem.anchor.elapsed) >= owed + (time - since)
  /\ mem.authorized => /\ O!Anchored
                       /\ mem.off.floor =< mem.anchor.server + (time - mem.anchor.elapsed)
  /\ mem.authorized /\ ~poisoned => Matches(mem, rec)

\* Between the commit of an import and its last check.
ImportInv ==
  pc = "importing" =>
    /\ ~mem.authorized
    /\ next.file = rec.off.file /\ next.file # NoFile /\ next.off = rec.off
    /\ next.anchor.elapsed =< time /\ 0 < next.anchor.elapsed /\ rec.off.floor =< next.anchor.server

OfflineInv ==
  O!TypeOK /\ since =< time /\ RecordInv /\ RuntimeInv /\ ImportInv

(***************************************************************************)
(* Offline files: what holds of clocks and records                         *)
(***************************************************************************)

OffRecords == [seq : Nat, id : Files \cup {NoFile}, verifiedAt : Nat, floor : Nat, wall : Nat,
               file : Files \cup {NoFile}]
OffMemories == {O!NoOffline} \cup [seq : Nat, id : Files, verifiedAt : Nat, floor : Nat, wall : Nat,
                                   file : Files \cup {NoFile}]

LEMMA OffConstants ==
  /\ NoFile \notin Files /\ FileTolerance \in Nat /\ MaxTime \in Nat /\ FileStart \in Nat /\ MaxInst \in Nat
  /\ 0 < FileStart /\ FileStart =< MaxTime /\ 1 =< MaxInst /\ 0 \in FileSkews
  /\ \A s \in FileSkews : s \in Int /\ FileStart + s >= 0
  /\ \A f \in Files : f.inst \in Nat /\ f.seq \in Nat /\ f.iat \in Nat /\ f.exp \in Nat
BY ConstantsAssumption DEF O!ConstantsOK

LEMMA OffNone ==
  /\ O!NoOffline \in OffRecords /\ O!NoOffline.floor = 0 /\ O!NoOffline.seq = 0 /\ O!NoOffline.id = NoFile
  /\ O!NoOffline.file = NoFile /\ O!NoOffline.verifiedAt = 0 /\ O!NoOffline.wall = 0
  /\ O!NoRuntime \in O!Runtimes /\ O!NoRuntime.authorized = FALSE /\ O!NoRuntime.anchor = O!NoAnchor
  /\ O!NoRuntime.file = NoFile /\ O!NoRuntime.off = O!NoOffline
<1>1. O!NoAnchor \in O!Anchors
  BY DEF O!NoAnchor, O!Anchors
<1>2. O!NoOffline \in OffRecords
  BY DEF O!NoOffline, OffRecords
<1>3. O!NoRuntime \in O!Runtimes
  BY <1>1 DEF O!NoRuntime, O!Runtimes
<1> QED BY <1>2, <1>3 DEF O!NoRuntime, O!NoOffline

LEMMA OffFacts ==
  ASSUME O!TypeOK
  PROVE  /\ time \in Nat /\ FileStart =< time /\ time =< MaxTime /\ skew \in Int /\ O!Wall \in Nat
         /\ seen \in Nat /\ owed \in Nat /\ paid \in Nat /\ since \in Nat
         /\ rec \in O!Records /\ rec.off \in OffRecords /\ rec.inst \in Nat
         /\ rec.off.seq \in Nat /\ rec.off.verifiedAt \in Nat /\ rec.off.floor \in Nat /\ rec.off.wall \in Nat
         /\ mem \in O!Runtimes /\ mem.anchor \in O!Anchors /\ mem.off \in OffMemories
         /\ mem.anchor.server \in Nat /\ mem.anchor.elapsed \in Nat /\ mem.anchor.wall \in Nat
         /\ mem.off.seq \in Nat /\ mem.off.verifiedAt \in Nat /\ mem.off.floor \in Nat /\ mem.off.wall \in Nat
         /\ next \in O!Runtimes /\ next.anchor \in O!Anchors /\ next.anchor.server \in Nat
         /\ next.anchor.elapsed \in Nat /\ next.off \in OffMemories
<1> USE OffConstants, OffNone
<1>1. time \in Nat /\ FileStart =< time /\ time =< MaxTime /\ skew \in Int /\ O!Wall \in Nat
  BY DEF O!TypeOK, O!Wall
<1>2. /\ rec \in O!Records /\ rec.off \in OffRecords /\ rec.inst \in Nat
      /\ rec.off.seq \in Nat /\ rec.off.verifiedAt \in Nat /\ rec.off.floor \in Nat /\ rec.off.wall \in Nat
  BY DEF O!TypeOK, O!Records, OffRecords
<1>3. ASSUME NEW m \in O!Runtimes
      PROVE  /\ m.anchor \in O!Anchors /\ m.off \in OffMemories
             /\ m.anchor.server \in Nat /\ m.anchor.elapsed \in Nat /\ m.anchor.wall \in Nat
             /\ m.off.seq \in Nat /\ m.off.verifiedAt \in Nat /\ m.off.floor \in Nat /\ m.off.wall \in Nat
  <2>1. m.anchor \in O!Anchors /\ m.off \in OffMemories
    BY <1>3 DEF O!Runtimes, OffMemories
  <2> QED BY <2>1 DEF O!Anchors, OffMemories, OffRecords
<1> QED BY <1>1, <1>2, <1>3 DEF O!TypeOK

LEMMA OffNow ==
  ASSUME NEW anchor \in O!Anchors, NEW t \in Nat, NEW w \in Nat
  PROVE  O!Now(anchor, t, w) # O!Uncertain =>
           /\ anchor.elapsed =< t
           /\ O!Now(anchor, t, w) = anchor.server + (t - anchor.elapsed)
           /\ O!Now(anchor, t, w) \in Nat
<1>1. anchor.server \in Nat /\ anchor.elapsed \in Nat
  BY DEF O!Anchors
<1>2. (t - anchor.elapsed) \div 1 = t - anchor.elapsed
  BY <1>1
<1> QED BY <1>1, <1>2 DEF O!Now, O!Seconds, O!Uncertain

LEMMA OffLater ==
  ASSUME NEW a \in Nat, NEW b \in Nat
  PROVE  O!Later(a, b) \in Nat /\ O!Later(a, b) >= a /\ O!Later(a, b) >= b /\ O!Later(a, b) \in {a, b}
BY DEF O!Later

\* The fields of a runtime after the changes the code makes to one.
LEMMA OffRuntimes ==
  ASSUME NEW m \in O!Runtimes
  PROVE  /\ O!Deauthorized(m) \in O!Runtimes /\ O!Deauthorized(m).authorized = FALSE
         /\ O!Deauthorized(m).anchor = m.anchor /\ O!Deauthorized(m).off = m.off
         /\ O!Deauthorized(m).file = m.file
         /\ \A b \in BOOLEAN : /\ [m EXCEPT !.uncertain = b] \in O!Runtimes
                               /\ [m EXCEPT !.uncertain = b].authorized = m.authorized
                               /\ [m EXCEPT !.uncertain = b].anchor = m.anchor
                               /\ [m EXCEPT !.uncertain = b].off = m.off
                               /\ [m EXCEPT !.uncertain = b].file = m.file
BY DEF O!Deauthorized, O!Runtimes

LEMMA OfflineInit ==
  ASSUME O!Init
  PROVE  OfflineInv
<1> USE OffConstants, OffNone
<1>1. /\ rec \in O!Records /\ rec.off = O!NoOffline /\ rec.inst = 1 /\ rec.cred = FALSE /\ rec.pend = FALSE
  <2>1. 1 \in 1..MaxInst
    OBVIOUS
  <2> QED BY <2>1 DEF O!Init, O!Records, OffRecords
<1>2. O!TypeOK
  <2>1. time \in FileStart..MaxTime /\ skew \in FileSkews /\ {seen, owed, paid, since} \subseteq Nat
    BY DEF O!Init
  <2>2. mem \in O!Runtimes /\ next \in O!Runtimes /\ poisoned \in BOOLEAN /\ pc = "closed" /\ accepted = {}
    BY DEF O!Init
  <2> QED BY <1>1, <2>1, <2>2 DEF O!TypeOK
<1>3. O!Validate(rec)
  BY <1>1 DEF O!Validate
<1>4. RecordInv
  BY <1>1, <1>3 DEF RecordInv, Good, O!Init
<1>5. RuntimeInv /\ ImportInv
  BY DEF O!Init, RuntimeInv, ImportInv, O!Anchored
<1> QED BY <1>2, <1>4, <1>5 DEF OfflineInv, O!Init

(***************************************************************************)
(* Offline files: what becomes of the record                               *)
(***************************************************************************)

\* r is rec, with its floors moved up or without its file.
Grows(r) ==
  /\ r \in O!Records /\ r.inst = rec.inst
  /\ r.off.seq = rec.off.seq /\ r.off.id = rec.off.id /\ r.off.verifiedAt = rec.off.verifiedAt
  /\ rec.off.floor =< r.off.floor /\ rec.off.wall =< r.off.wall
  /\ r.off.file \in {rec.off.file, NoFile}
  /\ r.off.file # NoFile => r.cred = rec.cred /\ r.pend = rec.pend
  /\ rec.off.file = NoFile => r.off.floor = rec.off.floor /\ r.off.wall = rec.off.wall

LEMMA GrowsGood ==
  ASSUME O!TypeOK, Good(rec), NEW r, Grows(r)
  PROVE  Good(r)
<1> USE OffConstants, OffNone, OffFacts
<1>0. r.off \in OffRecords /\ rec.off \in OffRecords /\ r.off.floor \in Nat
  BY DEF Grows, O!Records, OffRecords
<1>1. O!Validate(r)
  BY <1>0 DEF Good, Grows, O!Validate
<1>2. ASSUME r.off.id = NoFile PROVE r.off = O!NoOffline
  <2>1. rec.off = O!NoOffline
    BY <1>2 DEF Good, Grows
  <2>2. /\ r.off.seq = 0 /\ r.off.id = NoFile /\ r.off.verifiedAt = 0 /\ r.off.floor = 0 /\ r.off.wall = 0
        /\ r.off.file = NoFile
    BY <2>1 DEF Grows
  <2> QED BY <1>0, <2>2 DEF OffRecords, O!NoOffline
<1>3. ASSUME r.off.file # NoFile
      PROVE  /\ O!Verify(r.off.file, r.inst, r.off.verifiedAt, r.off.seq)
             /\ r.off.file.seq = r.off.seq /\ r.off.file = r.off.id
             /\ r.off.verifiedAt >= r.off.file.iat - FileTolerance
  BY <1>3 DEF Good, Grows
<1> QED BY <1>1, <1>2, <1>3 DEF Good, Grows

LEMMA GrowsTrans ==
  ASSUME O!TypeOK, Good(rec), NEW r, Grows(r), NEW q \in O!Records, q.inst = r.inst,
         q.off = [r.off EXCEPT !.file = NoFile]
  PROVE  Grows(q)
<1>1. r.off \in OffRecords
  BY DEF Grows, O!Records, OffRecords
<1>2. /\ q.off.seq = r.off.seq /\ q.off.id = r.off.id /\ q.off.verifiedAt = r.off.verifiedAt
      /\ q.off.floor = r.off.floor /\ q.off.wall = r.off.wall /\ q.off.file = NoFile
  BY <1>1 DEF OffRecords
<1> QED BY <1>2 DEF Grows

\* The history follows the record.
LEMMA RecordGrows ==
  ASSUME OfflineInv, Grows(rec'), seen' = rec'.off.floor, paid' =< rec'.off.floor, accepted' = accepted
  PROVE  RecordInv'
<1>1. Good(rec')
  BY GrowsGood DEF OfflineInv, RecordInv
<1>2. Good(rec)'
  BY <1>1 DEF Good, O!Validate, O!Verify, O!NoOffline, O!Records
<1> QED BY <1>2 DEF OfflineInv, RecordInv, Grows

(***************************************************************************)
(* Offline files: every step keeps the invariant                           *)
(***************************************************************************)

\* What the anchor of memory says, if the clocks agree.
OffReckoned == mem.anchor.server + (time - mem.anchor.elapsed)

LEMMA OffBelieved ==
  ASSUME OfflineInv
  PROVE  /\ O!Believed # O!Uncertain => O!Believed = OffReckoned /\ O!Believed \in Nat
         /\ O!Uncertain \notin Nat
<1>1. O!TypeOK
  BY DEF OfflineInv
<1> QED BY <1>1, OffFacts, OffNow DEF O!Believed, OffReckoned, O!Uncertain

\* A step that commits nothing: the clocks, and what memory knows of them.
LEMMA OffQuiet ==
  ASSUME OfflineInv, time' >= time, time' \in FileStart..MaxTime, skew' \in FileSkews,
         UNCHANGED <<rec, accepted, seen, owed, paid, since, next>>, poisoned' \in BOOLEAN,
         pc' \in {"closed", "open", "importing"}, pc' = "importing" => pc = "importing",
         mem' \in O!Runtimes,
         \/ mem' = O!NoRuntime
         \/ /\ mem'.anchor = mem.anchor /\ (mem'.authorized => mem.authorized)
            /\ mem'.authorized => mem'.off = mem.off /\ mem'.file = mem.file
            /\ ~poisoned' => ~poisoned
  PROVE  OfflineInv'
<1> USE OffConstants, OffNone
<1>0. O!TypeOK /\ time \in Nat /\ time' \in Nat /\ since \in Nat /\ owed \in Nat
      /\ mem.anchor.server \in Nat /\ mem.anchor.elapsed \in Nat /\ since =< time /\ mem.off.floor \in Nat
  BY OffFacts DEF OfflineInv
<1>1. O!TypeOK'
  BY <1>0 DEF O!TypeOK
<1>2. RecordInv'
  BY DEF OfflineInv, RecordInv, Good, O!Validate, O!Verify, O!NoOffline, O!Records
<1>3. RuntimeInv'
  <2>1. CASE mem' = O!NoRuntime
    BY <2>1 DEF RuntimeInv, O!Anchored, O!NoAnchor
  <2>2. CASE mem' # O!NoRuntime
    <3>1. O!Anchored' <=> O!Anchored
      BY <2>2 DEF O!Anchored, O!NoAnchor
    <3>2. mem'.authorized /\ ~poisoned' => Matches(mem, rec)'
      BY <2>2 DEF OfflineInv, RuntimeInv, Matches
    <3> QED BY <1>0, <2>2, <3>1, <3>2 DEF OfflineInv, RuntimeInv
  <2> QED BY <2>1, <2>2
<1>4. ImportInv'
  <2>1. pc = "importing" => next.anchor.elapsed \in Nat
    BY <1>0, OffFacts
  <2> QED BY <1>0, <2>1 DEF OfflineInv, ImportInv
<1> QED BY <1>0, <1>1, <1>2, <1>3, <1>4 DEF OfflineInv

\* The outcomes of a commit.
LEMMA OffCommit ==
  ASSUME NEW old, NEW bad \in BOOLEAN, NEW new, NEW p \in O!CommitOver(old, bad, new)
  PROVE  /\ p.rec \in {old, new} /\ p.poisoned \in BOOLEAN /\ p.ok \in BOOLEAN
         /\ (bad => p.poisoned)
         /\ p.ok => p.rec = new /\ ~bad /\ ~p.poisoned
         /\ ~p.ok => p.poisoned
<1>1. CASE bad
  <2>1. p = [rec |-> old, poisoned |-> TRUE, ok |-> FALSE]
    BY <1>1 DEF O!CommitOver
  <2> QED BY <1>1, <2>1
<1>2. CASE ~bad
  <2>1. \/ p = [rec |-> new, poisoned |-> FALSE, ok |-> TRUE]
        \/ p = [rec |-> old, poisoned |-> TRUE, ok |-> FALSE]
        \/ p = [rec |-> new, poisoned |-> TRUE, ok |-> FALSE]
    BY <1>2 DEF O!CommitOver
  <2>2. CASE p = [rec |-> new, poisoned |-> FALSE, ok |-> TRUE]
    BY <1>2, <2>2
  <2>3. CASE p = [rec |-> old, poisoned |-> TRUE, ok |-> FALSE]
    BY <1>2, <2>3
  <2>4. CASE p = [rec |-> new, poisoned |-> TRUE, ok |-> FALSE]
    BY <1>2, <2>4
  <2> QED BY <2>1, <2>2, <2>3, <2>4
<1> QED BY <1>1, <1>2

\* The outcomes of checkpoint_offline.
CheckpointOutcome(o) ==
  /\ Grows(o.rec) /\ o.rec.off.file = rec.off.file /\ o.rec.cred = rec.cred /\ o.rec.pend = rec.pend
  /\ o.poisoned \in BOOLEAN /\ (poisoned => o.poisoned)
  /\ rec.off.floor < o.rec.off.floor => mem.authorized /\ o.rec.off.floor = OffReckoned
  /\ o.mem \in O!Runtimes /\ o.mem.anchor = mem.anchor /\ (o.mem.authorized => mem.authorized)
  /\ o.mem.authorized => o.mem.off.floor =< OffReckoned
  /\ o.mem.authorized /\ ~o.poisoned => Matches(o.mem, o.rec)

LEMMA GrowsSame == ASSUME O!TypeOK PROVE Grows(rec)
BY OffFacts DEF Grows

LEMMA OffCheckpoint ==
  ASSUME OfflineInv, NEW o \in O!CheckpointOffline
  PROVE  CheckpointOutcome(o)
<1> USE OffConstants, OffNone, OffFacts, OffBelieved, GrowsSame
<1>0. O!TypeOK /\ RuntimeInv /\ RecordInv /\ poisoned \in BOOLEAN /\ OffReckoned \in Int
  BY DEF OfflineInv, O!TypeOK, OffReckoned
<1>1. CASE ~mem.authorized
  <2>1. o = [rec |-> rec, poisoned |-> poisoned, ok |-> TRUE, mem |-> mem]
    BY <1>1 DEF O!CheckpointOffline
  <2> QED BY <1>0, <1>1, <2>1 DEF CheckpointOutcome
<1>2. CASE /\ mem.authorized
           /\ O!Believed = O!Uncertain \/ O!Wall + FileTolerance < mem.off.wall \/ O!Believed < mem.off.floor
  <2>1. o = [rec |-> rec, poisoned |-> poisoned, ok |-> FALSE, mem |-> [mem EXCEPT !.uncertain = TRUE]]
    BY <1>2 DEF O!CheckpointOffline
  <2>2. /\ o.mem \in O!Runtimes /\ o.mem.anchor = mem.anchor /\ o.mem.off = mem.off /\ o.mem.file = mem.file
        /\ o.mem.authorized = mem.authorized /\ o.rec = rec /\ o.poisoned = poisoned
    BY <1>0, <2>1, OffRuntimes
  <2> QED BY <1>0, <1>2, <2>2 DEF CheckpointOutcome, RuntimeInv, Matches, OffReckoned
<1>3. CASE /\ mem.authorized /\ O!Believed # O!Uncertain /\ ~(O!Wall + FileTolerance < mem.off.wall)
           /\ ~(O!Believed < mem.off.floor)
  <2> DEFINE off == O!Raised(O!Believed)
  <2>1. PICK p \in O!Persist(off) :
             o = [rec |-> p.rec, poisoned |-> p.poisoned, ok |-> p.ok,
                  mem |-> IF p.ok THEN [mem EXCEPT !.off = off, !.uncertain = FALSE] ELSE O!Deauthorized(mem)]
    BY <1>3 DEF O!CheckpointOffline
  <2>2. O!Believed = OffReckoned /\ O!Believed \in Nat /\ mem.off.floor =< O!Believed
    BY <1>0, <1>3
  <2>3. /\ off \in OffMemories \/ mem.off = O!NoOffline
        /\ off \in OffRecords /\ off.floor = O!Believed /\ mem.off.wall =< off.wall
        /\ off.seq = mem.off.seq /\ off.id = mem.off.id /\ off.verifiedAt = mem.off.verifiedAt
        /\ off.file = mem.off.file
    <3>1. /\ O!Later(mem.off.floor, O!Believed) = O!Believed
          /\ O!Later(mem.off.wall, O!Wall) \in Nat /\ mem.off.wall =< O!Later(mem.off.wall, O!Wall)
      BY <1>0, <2>2 DEF O!Later
    <3>2. off = [mem.off EXCEPT !.floor = O!Believed, !.wall = O!Later(mem.off.wall, O!Wall)]
      BY <3>1 DEF O!Raised
    <3>3. mem.off \in OffRecords
      BY <1>0 DEF OffMemories, OffRecords
    <3> HIDE DEF off
    <3> QED BY <1>0, <2>2, <3>1, <3>2, <3>3 DEF OffMemories, OffRecords
  <2> HIDE DEF off
  <2>4. CASE \/ rec.off.file = NoFile
             \/ off.file # rec.off.file \/ off.seq # rec.off.seq \/ off.id # rec.off.id
             \/ off.verifiedAt # rec.off.verifiedAt
             \/ off.floor < rec.off.floor \/ off.wall < rec.off.wall
    <3>1. p = [rec |-> rec, poisoned |-> poisoned, ok |-> FALSE]
      BY <2>1, <2>4 DEF O!Persist
    <3>2. o.rec = rec /\ o.poisoned = poisoned /\ o.mem = O!Deauthorized(mem)
      BY <2>1, <3>1
    <3>3. o.mem \in O!Runtimes /\ o.mem.anchor = mem.anchor /\ o.mem.authorized = FALSE
      <4>1. mem \in O!Runtimes
        BY <1>0
      <4> QED BY ONLY <3>2, <4>1, OffRuntimes
    <3> QED BY <1>0, <3>2, <3>3 DEF CheckpointOutcome
  <2>5. CASE ~(\/ rec.off.file = NoFile
               \/ off.file # rec.off.file \/ off.seq # rec.off.seq \/ off.id # rec.off.id
               \/ off.verifiedAt # rec.off.verifiedAt
               \/ off.floor < rec.off.floor \/ off.wall < rec.off.wall)
    <3> DEFINE r == [rec EXCEPT !.off = off]
    <3>1. p \in O!CommitOver(rec, poisoned, r)
      BY <2>1, <2>5 DEF O!Persist, O!Commit
    <3>2. /\ p.rec \in {rec, r} /\ p.poisoned \in BOOLEAN /\ (poisoned => p.poisoned)
          /\ p.ok => p.rec = r /\ ~poisoned
      <4> HIDE DEF r
      <4> QED BY <1>0, <3>1, OffCommit
    <3>3. r \in O!Records /\ r.off = off /\ r.inst = rec.inst /\ r.cred = rec.cred /\ r.pend = rec.pend
      BY <1>0, <2>3 DEF O!Records, OffRecords
    <3> HIDE DEF r
    <3>4. off.floor \in Nat /\ off.wall \in Nat
      BY <2>3 DEF OffRecords
    <3>5. Grows(r) /\ r.off.file = rec.off.file
      BY <1>0, <2>5, <3>3, <3>4 DEF Grows
    <3>6. CASE p.ok
      <4>1. o.rec = r /\ o.poisoned = p.poisoned /\ o.mem = [mem EXCEPT !.off = off, !.uncertain = FALSE]
        BY <2>1, <3>2, <3>6
      <4>2. mem.off # O!NoOffline
        <5>1. off.id = rec.off.id /\ rec.off.file # NoFile
          BY <2>5
        <5>2. rec.off.id # NoFile
          BY <1>0, <5>1 DEF RecordInv, Good
        <5> QED BY <2>3, <5>1, <5>2
      <4>3. off \in OffMemories
        BY <2>3, <4>2
      <4>4. /\ o.mem \in O!Runtimes /\ o.mem.anchor = mem.anchor /\ o.mem.off = off /\ o.mem.file = mem.file
            /\ o.mem.authorized = mem.authorized
        BY <1>0, <4>1, <4>3 DEF O!Runtimes, OffMemories
      <4>5. poisoned => FALSE
        BY <3>2, <3>6
      <4>6. Matches(o.mem, o.rec)
        <5>1. Matches(mem, rec)
          BY <1>0, <1>3, <4>5 DEF RuntimeInv
        <5>2. off.file = mem.file
          BY <2>3, <5>1 DEF Matches
        <5> QED BY <2>5, <3>3, <3>4, <4>1, <4>4, <5>1, <5>2 DEF Matches
      <4> QED BY <1>0, <1>3, <2>2, <2>3, <3>2, <3>3, <3>5, <4>1, <4>4, <4>6 DEF CheckpointOutcome
    <3>7. CASE ~p.ok
      <4>1. o.rec = p.rec /\ o.poisoned = p.poisoned /\ o.mem = O!Deauthorized(mem)
        BY <2>1, <3>7
      <4>2. o.mem \in O!Runtimes /\ o.mem.anchor = mem.anchor /\ o.mem.authorized = FALSE
        <5>1. mem \in O!Runtimes
          BY <1>0
        <5> QED BY ONLY <4>1, <5>1, OffRuntimes
      <4> QED BY <1>0, <1>3, <2>2, <2>3, <3>2, <3>3, <3>5, <4>1, <4>2 DEF CheckpointOutcome
    <3> QED BY <3>6, <3>7
  <2> QED BY <2>4, <2>5
<1> QED BY <1>1, <1>2, <1>3

\* A step after which the record is the same, or has grown, and memory no more than it was.
LEMMA OffGrowing ==
  ASSUME OfflineInv, UNCHANGED <<time, skew, accepted, owed, since>>,
         Grows(rec'), poisoned' \in BOOLEAN, pc' \in {"closed", "open"}, next' \in O!Runtimes,
         seen' = rec'.off.floor, paid' \in Nat, paid' =< rec'.off.floor, mem' \in O!Runtimes,
         \/ mem' = O!NoRuntime
         \/ /\ mem'.anchor = mem.anchor /\ (mem'.authorized => mem.authorized)
            /\ mem'.authorized => mem'.off.floor =< OffReckoned
            /\ mem'.authorized /\ ~poisoned' => Matches(mem', rec')
  PROVE  OfflineInv'
<1> USE OffConstants, OffNone
<1>0. O!TypeOK /\ time \in Nat /\ since \in Nat /\ owed \in Nat /\ since =< time
  BY OffFacts DEF OfflineInv
<1>1. rec' \in O!Records /\ rec'.off.floor \in Nat
  BY DEF Grows, O!Records
<1>2. O!TypeOK'
  BY <1>0, <1>1 DEF O!TypeOK, O!Records, O!Runtimes, O!Anchors, O!NoOffline
<1>3. RecordInv'
  BY RecordGrows
<1>4. RuntimeInv'
  <2>1. CASE mem' = O!NoRuntime
    BY <2>1 DEF RuntimeInv, O!Anchored, O!NoAnchor
  <2>2. CASE mem' # O!NoRuntime
    <3>1. O!Anchored' <=> O!Anchored
      BY <2>2 DEF O!Anchored, O!NoAnchor
    <3>2. mem'.authorized /\ ~poisoned' => Matches(mem, rec)'
      BY <2>2 DEF Matches
    <3> QED BY <1>0, <2>2, <3>1, <3>2 DEF OfflineInv, RuntimeInv, OffReckoned
  <2> QED BY <2>1, <2>2
<1>5. ImportInv'
  BY DEF ImportInv
<1> QED BY <1>0, <1>2, <1>3, <1>4, <1>5 DEF OfflineInv

\* What the history remembers of a checkpoint: the floor, and time that it covers.
LEMMA OffRemembers ==
  ASSUME OfflineInv, NEW o, CheckpointOutcome(o), Grows(rec'),
         rec'.off.floor \in {rec.off.floor, o.rec.off.floor}, O!Remember
  PROVE  seen' = rec'.off.floor /\ paid' \in Nat /\ paid' =< rec'.off.floor
<1>0. O!TypeOK /\ RecordInv /\ RuntimeInv /\ since =< time
  BY DEF OfflineInv
<1>1. rec'.off.floor \in Nat /\ rec.off.floor =< rec'.off.floor
  BY DEF Grows, O!Records
<1>2. seen = rec.off.floor /\ paid =< rec.off.floor /\ rec.off.floor \in Nat /\ seen \in Nat /\ paid \in Nat
      /\ owed \in Nat /\ time \in Nat /\ since \in Nat
  BY <1>0, OffFacts DEF RecordInv
<1>3. seen' = rec'.off.floor
  BY <1>1, <1>2 DEF O!Remember, O!Later
<1>4. CASE rec.off.floor < rec'.off.floor
  <2>1. mem.authorized /\ rec'.off.floor = OffReckoned
    BY <1>2, <1>4 DEF CheckpointOutcome
  <2>2. O!Anchored /\ owed + (time - since) =< OffReckoned
    BY <1>0, <2>1 DEF RuntimeInv, OffReckoned
  <2>3. paid' = owed + (time - since)
    BY <1>1, <1>2, <1>4, <2>2 DEF O!Remember
  <2> QED BY <1>0, <1>2, <1>3, <2>1, <2>2, <2>3
<1>5. CASE ~(rec.off.floor < rec'.off.floor)
  <2>1. paid' = paid
    BY <1>1, <1>2, <1>5 DEF O!Remember
  <2> QED BY <1>1, <1>2, <1>3, <2>1
<1> QED BY <1>4, <1>5

\* clear_offline_authority, as the commits of logout, activate and the rest use it.
LEMMA OffCleared ==
  ASSUME OfflineInv, NEW r, Grows(r)
  PROVE  /\ Grows([O!ClearAuthority(r) EXCEPT !.pend = FALSE, !.cred = FALSE])
         /\ Grows([O!ClearAuthority(r) EXCEPT !.pend = FALSE, !.cred = TRUE])
         /\ Grows([O!ClearAuthority(r) EXCEPT !.pend = TRUE])
         /\ Grows([O!ClearAuthority(r) EXCEPT !.pend = FALSE, !.cred = @ /\ ~FALSE])
         /\ [O!ClearAuthority(r) EXCEPT !.pend = FALSE, !.cred = FALSE].off.floor = r.off.floor
         /\ [O!ClearAuthority(r) EXCEPT !.pend = FALSE, !.cred = TRUE].off.floor = r.off.floor
         /\ [O!ClearAuthority(r) EXCEPT !.pend = TRUE].off.floor = r.off.floor
         /\ [O!ClearAuthority(r) EXCEPT !.pend = FALSE, !.cred = @ /\ ~FALSE].off.floor = r.off.floor
<1> DEFINE off == [r.off EXCEPT !.file = NoFile]
           c == O!ClearAuthority(r)
<1>1. r \in O!Records /\ r.off \in OffRecords
  BY DEF Grows, O!Records, OffRecords
<1>2. off \in OffRecords /\ off.floor = r.off.floor
  BY <1>1 DEF OffRecords
<1>3. c = [r EXCEPT !.off = off]
  BY DEF O!ClearAuthority
<1> HIDE DEF off
<1>4. c \in O!Records /\ c.inst = r.inst /\ c.off = off
  BY <1>1, <1>2, <1>3 DEF O!Records, OffRecords
<1> HIDE DEF c
<1>5. O!TypeOK /\ Good(rec)
  BY DEF OfflineInv, RecordInv
<1>6. ASSUME NEW q \in O!Records, q.inst = c.inst, q.off = c.off
      PROVE  Grows(q) /\ q.off.floor = r.off.floor
  <2>1. q.inst = r.inst /\ q.off = [r.off EXCEPT !.file = NoFile]
    BY <1>4, <1>6 DEF off
  <2> QED BY <1>2, <1>4, <1>5, <1>6, <2>1, GrowsTrans
<1>7. ASSUME NEW q, q \in {[c EXCEPT !.pend = FALSE, !.cred = FALSE], [c EXCEPT !.pend = FALSE, !.cred = TRUE],
                           [c EXCEPT !.pend = TRUE], [c EXCEPT !.pend = FALSE, !.cred = @ /\ ~FALSE]}
      PROVE  Grows(q) /\ q.off.floor = r.off.floor
  <2>1. q \in O!Records /\ q.inst = c.inst /\ q.off = c.off
    BY <1>4, <1>7 DEF O!Records
  <2> QED BY <1>6, <2>1
<1> QED BY <1>7 DEF c

LEMMA OffChecks ==
  ASSUME OfflineInv, O!WorkerCheckpoint
  PROVE  OfflineInv'
<1>1. PICK o \in O!CheckpointOffline : O!Applied(o) /\ mem' = o.mem
  BY DEF O!WorkerCheckpoint
<1>2. CheckpointOutcome(o)
  BY OffCheckpoint
<1>3. rec' = o.rec /\ poisoned' = o.poisoned /\ mem' = o.mem
  BY <1>1 DEF O!Applied
<1>4. Grows(rec') /\ rec'.off.floor \in {rec.off.floor, o.rec.off.floor}
  BY <1>2, <1>3 DEF CheckpointOutcome
<1>5. O!Remember
  BY DEF O!WorkerCheckpoint
<1>6. seen' = rec'.off.floor /\ paid' \in Nat /\ paid' =< rec'.off.floor
  BY <1>2, <1>4, <1>5, OffRemembers
<1>7. /\ mem' \in O!Runtimes /\ poisoned' \in BOOLEAN
      /\ mem'.anchor = mem.anchor /\ (mem'.authorized => mem.authorized)
      /\ mem'.authorized => mem'.off.floor =< OffReckoned
      /\ mem'.authorized /\ ~poisoned' => Matches(mem', rec')
  BY <1>2, <1>3 DEF CheckpointOutcome
<1>8. /\ UNCHANGED <<time, skew, accepted, owed, since>> /\ pc' \in {"closed", "open"}
      /\ next' \in O!Runtimes
  BY DEF O!WorkerCheckpoint, OfflineInv, O!TypeOK
<1> QED BY <1>4, <1>6, <1>7, <1>8, OffGrowing

LEMMA OffCloses ==
  ASSUME OfflineInv, O!Close
  PROVE  OfflineInv'
<1>1. PICK o \in O!CheckpointOffline : rec' = o.rec
  BY DEF O!Close
<1>2. CheckpointOutcome(o)
  BY OffCheckpoint
<1>4. Grows(rec') /\ rec'.off.floor \in {rec.off.floor, o.rec.off.floor}
  BY <1>1, <1>2 DEF CheckpointOutcome
<1>5. O!Remember
  BY DEF O!Close
<1>6. seen' = rec'.off.floor /\ paid' \in Nat /\ paid' =< rec'.off.floor
  BY <1>2, <1>4, <1>5, OffRemembers
<1>7. /\ UNCHANGED <<time, skew, accepted, owed, since>> /\ pc' \in {"closed", "open"}
      /\ next' = O!NoRuntime /\ mem' = O!NoRuntime /\ poisoned' \in BOOLEAN
  BY DEF O!Close
<1>8. next' \in O!Runtimes /\ mem' \in O!Runtimes
  BY <1>7, OffNone
<1> QED BY <1>4, <1>6, <1>7, <1>8, OffGrowing

LEMMA OffCrashes ==
  ASSUME OfflineInv, O!Crash
  PROVE  OfflineInv'
<1>1. O!TypeOK /\ RecordInv
  BY DEF OfflineInv
<1>2. Grows(rec)
  BY <1>1, GrowsSame
<1>3. /\ UNCHANGED <<time, skew, accepted, owed, since, rec, seen, paid>> /\ pc' \in {"closed", "open"}
      /\ next' = O!NoRuntime /\ mem' = O!NoRuntime /\ poisoned' \in BOOLEAN
  BY DEF O!Crash, O!history
<1>4. Grows(rec') /\ seen' = rec'.off.floor /\ paid' \in Nat /\ paid' =< rec'.off.floor
  BY <1>1, <1>2, <1>3, OffFacts DEF RecordInv
<1>5. next' \in O!Runtimes /\ mem' \in O!Runtimes
  BY <1>3, OffNone
<1> QED BY <1>3, <1>4, <1>5, OffGrowing

LEMMA OffLogsOut ==
  ASSUME OfflineInv, O!Logout
  PROVE  OfflineInv'
<1>1. PICK o \in O!CheckpointOffline :
        /\ mem' = O!Deauthorized(o.mem)
        /\ \E c \in O!CommitOver(o.rec, o.poisoned,
                 [O!ClearAuthority(o.rec) EXCEPT !.pend = FALSE, !.cred = FALSE]) : O!Applied(c)
  BY DEF O!Logout
<1>2. CheckpointOutcome(o)
  BY OffCheckpoint
<1> DEFINE q == [O!ClearAuthority(o.rec) EXCEPT !.pend = FALSE, !.cred = FALSE]
<1>3. PICK c \in O!CommitOver(o.rec, o.poisoned, q) : O!Applied(c)
  BY <1>1
<1>4. Grows(o.rec) /\ Grows(q) /\ q.off.floor = o.rec.off.floor /\ o.poisoned \in BOOLEAN
  BY <1>2, OffCleared DEF CheckpointOutcome
<1> HIDE DEF q
<1>5. c.rec \in {o.rec, q} /\ c.poisoned \in BOOLEAN
  BY <1>4, OffCommit
<1>6. Grows(rec') /\ rec'.off.floor \in {rec.off.floor, o.rec.off.floor} /\ poisoned' \in BOOLEAN
  BY <1>3, <1>4, <1>5 DEF O!Applied
<1>7. O!Remember
  BY DEF O!Logout
<1>8. seen' = rec'.off.floor /\ paid' \in Nat /\ paid' =< rec'.off.floor
  BY <1>2, <1>6, <1>7, OffRemembers
<1>9. mem' \in O!Runtimes /\ mem'.anchor = mem.anchor /\ mem'.authorized = FALSE
  BY <1>1, <1>2, OffRuntimes DEF CheckpointOutcome
<1>10. /\ UNCHANGED <<time, skew, accepted, owed, since>> /\ pc' \in {"closed", "open"}
       /\ next' \in O!Runtimes
  BY DEF O!Logout, OfflineInv, O!TypeOK
<1> QED BY <1>6, <1>8, <1>9, <1>10, OffGrowing

LEMMA OffActivates ==
  ASSUME OfflineInv, O!Activate
  PROVE  OfflineInv'
<1>1. PICK o \in O!CheckpointOffline :
        IF ~o.ok THEN O!Applied(o) /\ mem' = o.mem
        ELSE \E c \in O!CommitOver(o.rec, o.poisoned, [O!ClearAuthority(o.rec) EXCEPT !.pend = TRUE]) :
               /\ O!Applied(c)
               /\ mem' = IF c.ok THEN O!Deauthorized(o.mem) ELSE o.mem
  BY DEF O!Activate
<1>2. CheckpointOutcome(o)
  BY OffCheckpoint
<1> DEFINE q == [O!ClearAuthority(o.rec) EXCEPT !.pend = TRUE]
<1>3. Grows(o.rec) /\ Grows(q) /\ q.off.floor = o.rec.off.floor /\ o.poisoned \in BOOLEAN
      /\ o.mem \in O!Runtimes
  BY <1>2, OffCleared DEF CheckpointOutcome
<1>4. /\ rec' \in {o.rec, q} /\ poisoned' \in BOOLEAN /\ mem' \in {o.mem, O!Deauthorized(o.mem)}
      /\ mem' = O!Deauthorized(o.mem) \/ poisoned' \/ (rec' = o.rec /\ poisoned' = o.poisoned)
  <2>1. CASE ~o.ok
    BY <1>1, <1>3, <2>1 DEF O!Applied
  <2>2. CASE o.ok
    <3>1. PICK c \in O!CommitOver(o.rec, o.poisoned, q) :
             O!Applied(c) /\ mem' = IF c.ok THEN O!Deauthorized(o.mem) ELSE o.mem
      BY <1>1, <2>2
    <3> HIDE DEF q
    <3>2. c.rec \in {o.rec, q} /\ c.poisoned \in BOOLEAN /\ (~c.ok => c.poisoned)
      BY <1>3, OffCommit
    <3> QED BY <3>1, <3>2 DEF O!Applied
  <2> QED BY <2>1, <2>2
<1> HIDE DEF q
<1>5. Grows(rec') /\ rec'.off.floor \in {rec.off.floor, o.rec.off.floor} /\ poisoned' \in BOOLEAN
  BY <1>3, <1>4
<1>6. O!Remember
  BY DEF O!Activate
<1>7. seen' = rec'.off.floor /\ paid' \in Nat /\ paid' =< rec'.off.floor
  BY <1>2, <1>5, <1>6, OffRemembers
<1>8. /\ mem' \in O!Runtimes
      /\ mem'.anchor = mem.anchor /\ (mem'.authorized => mem.authorized)
      /\ mem'.authorized => mem'.off.floor =< OffReckoned
      /\ mem'.authorized /\ ~poisoned' => Matches(mem', rec')
  <2>1. /\ O!Deauthorized(o.mem) \in O!Runtimes /\ O!Deauthorized(o.mem).authorized = FALSE
        /\ O!Deauthorized(o.mem).anchor = mem.anchor
    BY <1>2, <1>3, OffRuntimes DEF CheckpointOutcome
  <2>2. CASE mem' = O!Deauthorized(o.mem)
    BY <2>1, <2>2
  <2>3. CASE mem' = o.mem /\ mem' # O!Deauthorized(o.mem)
    BY <1>2, <1>4, <2>3 DEF CheckpointOutcome
  <2> QED BY <1>4, <2>2, <2>3
<1>9. /\ UNCHANGED <<time, skew, accepted, owed, since>> /\ pc' \in {"closed", "open"}
      /\ next' \in O!Runtimes
  BY DEF O!Activate, OfflineInv, O!TypeOK
<1> QED BY <1>5, <1>7, <1>8, <1>9, OffGrowing

\* A record with a pending activation shows no file, and memory none either.
LEMMA OffPending ==
  ASSUME OfflineInv, ~poisoned, rec.pend
  PROVE  ~mem.authorized
BY OffNone DEF OfflineInv, RecordInv, RuntimeInv, Matches, Good, O!Validate

\* A step that takes the file off the record while memory has no authority.
LEMMA OffDrops ==
  ASSUME OfflineInv, ~mem.authorized, UNCHANGED <<time, skew, accepted, seen, paid, owed, since>>,
         pc' = "open", next' \in O!Runtimes, mem' \in O!Runtimes, mem'.anchor = mem.anchor, ~mem'.authorized,
         NEW q, Grows(q), q.off.floor = rec.off.floor,
         \E c \in O!Commit(q) : O!Applied(c)
  PROVE  OfflineInv'
<1>0. O!TypeOK /\ RecordInv /\ poisoned \in BOOLEAN
  BY DEF OfflineInv, O!TypeOK
<1>1. PICK c \in O!CommitOver(rec, poisoned, q) : O!Applied(c)
  BY DEF O!Commit
<1>2. c.rec \in {rec, q} /\ c.poisoned \in BOOLEAN
  BY <1>0, OffCommit
<1>3. Grows(rec') /\ rec'.off.floor = rec.off.floor /\ poisoned' \in BOOLEAN
  BY <1>0, <1>1, <1>2, GrowsSame DEF O!Applied
<1>4. seen' = rec'.off.floor /\ paid' \in Nat /\ paid' =< rec'.off.floor
  BY <1>0, <1>3, OffFacts DEF RecordInv
<1> QED BY <1>3, <1>4, OffGrowing

LEMMA OffOnline ==
  ASSUME OfflineInv, O!CommitAccess \/ O!ResolvePendingActivation \/ O!ImportDrops
  PROVE  OfflineInv'
<1>0. O!TypeOK /\ ImportInv /\ mem \in O!Runtimes /\ next \in O!Runtimes /\ O!NoRuntime \in O!Runtimes
  BY OffNone DEF OfflineInv, O!TypeOK
<1>1. Grows(rec)
  BY <1>0, GrowsSame
<1>2. CASE O!CommitAccess
  <2> DEFINE q == [O!ClearAuthority(rec) EXCEPT !.pend = FALSE, !.cred = TRUE]
  <2>1. Grows(q) /\ q.off.floor = rec.off.floor
    BY <1>1, OffCleared
  <2>2. ~mem.authorized
    BY <1>2, OffPending DEF O!CommitAccess
  <2>3. /\ UNCHANGED <<time, skew, accepted, seen, paid, owed, since, mem, next>> /\ pc' = "open"
        /\ \E c \in O!Commit(q) : O!Applied(c)
    BY <1>2 DEF O!CommitAccess, O!history
  <2> HIDE DEF q
  <2> QED BY <1>0, <2>1, <2>2, <2>3, OffDrops
<1>3. CASE O!ResolvePendingActivation
  <2> DEFINE q == [O!ClearAuthority(rec) EXCEPT !.pend = FALSE, !.cred = @ /\ ~FALSE]
  <2>1. Grows(q) /\ q.off.floor = rec.off.floor
    BY <1>1, OffCleared
  <2>2. ~mem.authorized
    BY <1>3, OffPending DEF O!ResolvePendingActivation
  <2>3. PICK c \in O!Commit(q) :
            O!Applied(c) /\ mem' = IF c.ok THEN O!Deauthorized([mem EXCEPT !.file = NoFile]) ELSE mem
    BY <1>3 DEF O!ResolvePendingActivation, O!ClearCached
  <2>4. UNCHANGED <<time, skew, accepted, seen, paid, owed, since, next>> /\ pc' = "open"
    BY <1>3 DEF O!ResolvePendingActivation, O!history
  <2>5. [mem EXCEPT !.file = NoFile] \in O!Runtimes /\ [mem EXCEPT !.file = NoFile].anchor = mem.anchor
    BY <1>0 DEF O!Runtimes
  <2>6. /\ O!Deauthorized([mem EXCEPT !.file = NoFile]) \in O!Runtimes
        /\ O!Deauthorized([mem EXCEPT !.file = NoFile]).anchor = mem.anchor
        /\ O!Deauthorized([mem EXCEPT !.file = NoFile]).authorized = FALSE
    BY <2>5, OffRuntimes
  <2>7. mem' \in O!Runtimes /\ mem'.anchor = mem.anchor /\ ~mem'.authorized
    BY <1>0, <2>2, <2>3, <2>6
  <2> HIDE DEF q
  <2> QED BY <1>0, <2>1, <2>2, <2>3, <2>4, <2>7, OffDrops
<1>4. CASE O!ImportDrops
  <2> DEFINE q == [O!ClearAuthority(rec) EXCEPT !.pend = FALSE, !.cred = @ /\ ~FALSE]
  <2>1. Grows(q) /\ q.off.floor = rec.off.floor
    BY <1>1, OffCleared
  <2>2. ~mem.authorized
    BY <1>0, <1>4 DEF O!ImportDrops, ImportInv
  <2>3. /\ UNCHANGED <<time, skew, accepted, seen, paid, owed, since, mem>> /\ pc' = "open"
        /\ next' = O!NoRuntime /\ \E c \in O!Commit(q) : O!Applied(c)
    BY <1>4 DEF O!ImportDrops, O!history, O!ClearCached
  <2> HIDE DEF q
  <2> QED BY <1>0, <2>1, <2>2, <2>3, OffDrops
<1> QED BY <1>2, <1>3, <1>4

LEMMA OffQuietSteps ==
  ASSUME OfflineInv,
         \/ O!Tick \/ (\E s \in FileSkews : O!SetWall(s))
         \/ O!ImportUncertain \/ O!Snapshot \/ O!StorageFails
  PROVE  OfflineInv'
<1> USE OffConstants
<1>0. /\ O!TypeOK /\ mem \in O!Runtimes /\ time \in FileStart..MaxTime /\ skew \in FileSkews /\ time \in Nat
      /\ poisoned \in BOOLEAN /\ pc \in {"closed", "open", "importing"}
  BY OffFacts DEF OfflineInv, O!TypeOK
<1>1. CASE O!Tick \/ \E s \in FileSkews : O!SetWall(s)
  <2>1. /\ time' >= time /\ time' \in FileStart..MaxTime /\ skew' \in FileSkews
        /\ UNCHANGED <<rec, accepted, seen, owed, paid, since, next, poisoned, pc, mem>>
    BY <1>0, <1>1 DEF O!Tick, O!SetWall, O!history, O!storage
  <2> QED BY <1>0, <2>1, OffQuiet
<1>2. CASE O!ImportUncertain \/ O!Snapshot \/ O!StorageFails
  <2>1. UNCHANGED <<time, skew, rec, accepted, seen, owed, paid, since, next, poisoned, pc>>
    BY <1>2 DEF O!ImportUncertain, O!Snapshot, O!StorageFails, O!history, O!storage
  <2>2. \/ mem' = mem \/ mem' = O!Deauthorized(mem)
        \/ \E b \in BOOLEAN : mem' = [mem EXCEPT !.uncertain = b]
    BY <1>2 DEF O!ImportUncertain, O!Snapshot, O!StorageFails
  <2>3. /\ mem' \in O!Runtimes /\ mem'.anchor = mem.anchor /\ (mem'.authorized => mem.authorized)
        /\ mem'.off = mem.off /\ mem'.file = mem.file
    <3>1. CASE mem' = mem
      BY <1>0, <3>1
    <3>2. CASE mem' = O!Deauthorized(mem)
      BY <1>0, <3>2, OffRuntimes
    <3>3. CASE \E b \in BOOLEAN : mem' = [mem EXCEPT !.uncertain = b]
      <4>1. PICK b \in BOOLEAN : mem' = [mem EXCEPT !.uncertain = b]
        BY <3>3
      <4>2. mem \in O!Runtimes
        BY <1>0
      <4>3. /\ [mem EXCEPT !.uncertain = b] \in O!Runtimes
            /\ [mem EXCEPT !.uncertain = b].authorized = mem.authorized
            /\ [mem EXCEPT !.uncertain = b].anchor = mem.anchor
            /\ [mem EXCEPT !.uncertain = b].off = mem.off
            /\ [mem EXCEPT !.uncertain = b].file = mem.file
        BY ONLY <4>2, OffRuntimes, b \in BOOLEAN
      <4> QED BY ONLY <4>1, <4>3
    <3> QED BY <2>2, <3>1, <3>2, <3>3
  <2> QED BY <1>0, <2>1, <2>3, OffQuiet
<1> QED BY <1>1, <1>2

\* The record of an accepted file is one that memory may hold.
LEMMA OffHeld ==
  ASSUME O!TypeOK, Good(rec)
  PROVE  rec.off \in OffMemories
<1>1. rec.off \in OffRecords
  BY OffFacts
<1>2. CASE rec.off.id = NoFile
  BY <1>2 DEF Good, OffMemories
<1>3. CASE rec.off.id # NoFile
  BY <1>1, <1>3 DEF OffMemories, OffRecords
<1> QED BY <1>2, <1>3

LEMMA OffOpens ==
  ASSUME OfflineInv, O!Open
  PROVE  OfflineInv'
<1> USE OffConstants, OffNone
<1>0. /\ O!TypeOK /\ RecordInv /\ Good(rec) /\ rec.off \in OffMemories /\ since =< time
      /\ paid =< rec.off.floor
  BY OffHeld DEF OfflineInv, RecordInv
<1>1. /\ time \in Nat /\ FileStart =< time /\ O!Wall \in Nat /\ rec.off.floor \in Nat /\ rec.off.wall \in Nat
      /\ paid \in Nat /\ owed \in Nat /\ since \in Nat /\ rec.off \in OffRecords
  BY <1>0, OffFacts
<1>2. UNCHANGED <<time, skew, next, rec, poisoned, accepted, seen, paid>> /\ pc' = "open"
  BY DEF O!Open, O!storage
<1>3. RecordInv'
  BY <1>0, <1>2 DEF RecordInv, Good, O!Validate, O!Verify, O!NoOffline, O!Records
<1>4. ImportInv'
  BY <1>2 DEF ImportInv
<1>5. CASE rec.off.file = NoFile
  <2>1. mem' = [O!NoRuntime EXCEPT !.off = rec.off] /\ UNCHANGED <<owed, since>>
    BY <1>5 DEF O!Open
  <2>2. mem' \in O!Runtimes /\ mem'.authorized = FALSE /\ mem'.anchor = O!NoAnchor
    BY <1>0, <2>1 DEF O!Runtimes, OffMemories
  <2>3. O!TypeOK'
    BY <1>0, <1>1, <1>2, <2>1, <2>2 DEF O!TypeOK
  <2>4. RuntimeInv'
    BY <2>2 DEF RuntimeInv, O!Anchored, O!NoAnchor
  <2> QED BY <1>0, <1>2, <1>3, <1>4, <2>1, <2>3, <2>4 DEF OfflineInv
<1>6. CASE rec.off.file # NoFile
  <2>1. /\ mem' = [file |-> rec.off.file, anchor |-> O!RestoredAnchor(rec.off), off |-> rec.off,
                   authorized |-> TRUE, uncertain |-> O!Wall + FileTolerance < rec.off.wall]
        /\ owed' = paid /\ since' = time
    BY <1>6 DEF O!Open
  <2>2. /\ O!RestoredAnchor(rec.off) \in O!Anchors /\ O!RestoredAnchor(rec.off).elapsed = time
        /\ O!RestoredAnchor(rec.off).server >= rec.off.floor /\ O!RestoredAnchor(rec.off).server \in Nat
    BY <1>1, OffLater DEF O!RestoredAnchor, O!Anchors
  <2>3. (O!Wall + FileTolerance < rec.off.wall) \in BOOLEAN /\ rec.off.file \in Files \cup {NoFile}
    BY <1>1 DEF OffRecords
  <2>4. /\ mem' \in O!Runtimes /\ mem'.anchor = O!RestoredAnchor(rec.off) /\ mem'.off = rec.off
        /\ mem'.file = rec.off.file
    BY <1>0, <2>1, <2>2, <2>3 DEF O!Runtimes, OffMemories
  <2>5. O!TypeOK'
    BY <1>0, <1>1, <1>2, <2>1, <2>4 DEF O!TypeOK
  <2>6. O!Anchored'
    BY <1>1, <2>2, <2>4 DEF O!Anchored, O!NoAnchor
  <2>7. Matches(mem, rec)'
    BY <1>1, <1>2, <1>6, <2>4 DEF Matches
  <2>8. RuntimeInv'
    BY <1>0, <1>1, <1>2, <2>1, <2>2, <2>4, <2>6, <2>7 DEF RuntimeInv
  <2> QED BY <1>1, <1>2, <1>3, <1>4, <2>1, <2>5, <2>8 DEF OfflineInv
<1> QED BY <1>5, <1>6

LEMMA OffRebinds ==
  ASSUME OfflineInv, O!OpenRebound
  PROVE  OfflineInv'
<1> USE OffConstants, OffNone
<1>0. O!TypeOK /\ RecordInv /\ time \in Nat
  BY OffFacts DEF OfflineInv
<1>1. /\ rec' = [inst |-> rec.inst + 1, off |-> O!NoOffline, cred |-> FALSE, pend |-> FALSE]
      /\ pc' = "open" /\ mem' = O!NoRuntime /\ seen' = 0 /\ owed' = 0 /\ paid' = 0 /\ since' = 0
      /\ UNCHANGED <<time, skew, next, poisoned, accepted>>
  BY DEF O!OpenRebound
<1>2. rec.inst + 1 \in 1..MaxInst /\ rec.inst \in Nat
  BY <1>0 DEF O!OpenRebound, O!TypeOK, O!Records
<1>3. /\ rec' \in O!Records /\ rec'.off = O!NoOffline /\ rec'.inst = rec.inst + 1
      /\ rec'.cred = FALSE /\ rec'.pend = FALSE
  BY <1>1, <1>2 DEF O!Records, OffRecords
<1>4. O!TypeOK'
  BY <1>0, <1>1, <1>3 DEF O!TypeOK, O!Records
<1>5. Good(rec)'
  BY <1>3 DEF Good, O!Validate, O!Records, O!NoOffline
<1>6. \A a \in accepted : a[1] \in Nat /\ a[1] =< rec.inst
  BY <1>0 DEF RecordInv, O!TypeOK
<1>7. RecordInv'
  BY <1>1, <1>2, <1>3, <1>5, <1>6 DEF RecordInv
<1>8. RuntimeInv' /\ ImportInv'
  BY <1>1 DEF RuntimeInv, ImportInv, O!Anchored, O!NoAnchor
<1> QED BY <1>0, <1>1, <1>4, <1>7, <1>8 DEF OfflineInv

LEMMA OffFinishes ==
  ASSUME OfflineInv, O!ImportFinishes
  PROVE  OfflineInv'
<1> USE OffConstants, OffNone
<1> DEFINE off == [next.off EXCEPT !.wall = O!Later(next.off.wall, O!Wall)]
<1>0. /\ O!TypeOK /\ RecordInv /\ ImportInv /\ Good(rec) /\ pc = "importing" /\ paid =< rec.off.floor
  BY DEF OfflineInv, RecordInv, O!ImportFinishes
<1>1. /\ time \in Nat /\ O!Wall \in Nat /\ rec.off.floor \in Nat /\ rec.off.wall \in Nat
      /\ paid \in Nat /\ rec.off \in OffRecords /\ next \in O!Runtimes /\ next.anchor \in O!Anchors
      /\ next.anchor.server \in Nat /\ next.anchor.elapsed \in Nat
  BY <1>0, OffFacts
<1>2. /\ mem' = [next EXCEPT !.off = off] /\ next' = O!NoRuntime /\ pc' = "open"
      /\ owed' = paid /\ since' = next.anchor.elapsed
      /\ UNCHANGED <<time, skew, rec, poisoned, accepted, seen, paid>>
  BY DEF O!ImportFinishes, O!storage
<1>3. /\ next.file = rec.off.file /\ next.file # NoFile /\ next.off = rec.off
      /\ next.anchor.elapsed =< time /\ 0 < next.anchor.elapsed /\ rec.off.floor =< next.anchor.server
  BY <1>0 DEF ImportInv
<1>4. O!Later(next.off.wall, O!Wall) \in Nat /\ O!Later(next.off.wall, O!Wall) >= rec.off.wall
  BY <1>1, <1>3, OffLater
<1>5. rec.off.id \in Files
  BY <1>0, <1>1, <1>3 DEF Good, OffRecords
<1>6. /\ off \in OffMemories /\ off.floor = rec.off.floor /\ off.wall >= rec.off.wall
      /\ off.seq = rec.off.seq /\ off.id = rec.off.id /\ off.verifiedAt = rec.off.verifiedAt
      /\ off.file = rec.off.file
  BY <1>1, <1>3, <1>4, <1>5 DEF OffMemories, OffRecords
<1> HIDE DEF off
<1>7. /\ mem' \in O!Runtimes /\ mem'.anchor = next.anchor /\ mem'.off = off
      /\ mem'.file = next.file
  BY <1>1, <1>2, <1>6 DEF O!Runtimes, OffMemories
<1>8. O!TypeOK'
  BY <1>0, <1>1, <1>2, <1>7 DEF O!TypeOK
<1>9. RecordInv'
  BY <1>0, <1>2 DEF RecordInv, Good, O!Validate, O!Verify, O!NoOffline, O!Records
<1>10. ImportInv'
  BY <1>2 DEF ImportInv
<1>11. O!Anchored'
  BY <1>1, <1>3, <1>7 DEF O!Anchored, O!NoAnchor
<1>12. Matches(mem, rec)'
  BY <1>1, <1>2, <1>3, <1>6, <1>7 DEF Matches
<1>13. RuntimeInv'
  BY <1>0, <1>1, <1>2, <1>3, <1>6, <1>7, <1>11, <1>12 DEF RuntimeInv
<1> QED BY <1>1, <1>2, <1>3, <1>8, <1>9, <1>10, <1>13 DEF OfflineInv

\* The record an import is about to save is one that a later process will open.
Imported(f, now, trusted, wall) ==
  [rec EXCEPT !.off = [seq |-> f.seq, id |-> f, verifiedAt |-> now, floor |-> trusted, wall |-> wall, file |-> f],
              !.cred = FALSE, !.pend = FALSE]

LEMMA OffSaved ==
  ASSUME OfflineInv, NEW f \in Files, NEW now \in Nat, NEW trusted \in Nat, NEW wall \in Nat,
         now =< trusted, O!Verify(f, rec.inst, now, O!Later(1, rec.off.seq))
  PROVE  /\ Good(Imported(f, now, trusted, wall)) /\ Imported(f, now, trusted, wall).inst = rec.inst
         /\ f.seq >= rec.off.seq
         /\ Imported(f, now, trusted, wall).off =
              [seq |-> f.seq, id |-> f, verifiedAt |-> now, floor |-> trusted, wall |-> wall, file |-> f]
<1> DEFINE off == [seq |-> f.seq, id |-> f, verifiedAt |-> now, floor |-> trusted, wall |-> wall, file |-> f]
           r == Imported(f, now, trusted, wall)
<1> USE OffConstants, OffNone
<1>0. O!TypeOK /\ rec \in O!Records /\ rec.off.seq \in Nat
  BY OffFacts DEF OfflineInv
<1>1. off \in OffRecords /\ f # NoFile
  BY DEF OffRecords
<1>2. /\ f.inst = rec.inst /\ f.seq >= rec.off.seq /\ f.seq >= 1
      /\ f.iat =< now + FileTolerance /\ f.exp > now /\ f.exp > f.iat
  <2>1. /\ f.inst = rec.inst /\ f.seq >= O!Later(1, rec.off.seq) /\ f.seq >= 1
        /\ f.iat =< now + FileTolerance /\ f.exp > now /\ f.exp > f.iat
    BY DEF O!Verify
  <2>2. O!Later(1, rec.off.seq) \in Nat /\ O!Later(1, rec.off.seq) >= rec.off.seq
    BY <1>0, OffLater
  <2> QED BY <1>0, <2>1, <2>2
<1>3. /\ r \in O!Records /\ r.off = off /\ r.inst = rec.inst /\ r.cred = FALSE /\ r.pend = FALSE
  <2>1. r = [rec EXCEPT !.off = off, !.cred = FALSE, !.pend = FALSE]
    BY DEF Imported
  <2> HIDE DEF off
  <2> QED BY <1>0, <1>1, <2>1 DEF O!Records, OffRecords
<1> HIDE DEF r
<1>4. /\ r.off.seq = f.seq /\ r.off.id = f /\ r.off.verifiedAt = now /\ r.off.floor = trusted
      /\ r.off.file = f
  BY <1>3
<1>5. O!Validate(r)
  BY <1>1, <1>2, <1>3, <1>4 DEF O!Validate
<1>6. O!Verify(f, r.inst, now, f.seq) /\ now >= f.iat - FileTolerance
  BY <1>2, <1>3 DEF O!Verify
<1>7. Good(r)
  BY <1>1, <1>3, <1>4, <1>5, <1>6 DEF Good
<1> QED BY <1>2, <1>3, <1>7 DEF r

\* The time an import is checked against: no earlier than the floor, nor than
\* the process's own estimate.
LEMMA OffImportTime ==
  ASSUME OfflineInv, O!Anchored => O!Believed # O!Uncertain /\ O!Believed >= rec.off.floor
  PROVE  /\ O!ImportTime \in Nat /\ rec.off.floor =< O!ImportTime
         /\ O!Anchored => owed + (time - since) =< O!ImportTime
<1>0. O!TypeOK /\ RuntimeInv
  BY DEF OfflineInv
<1>1. O!Wall \in Nat /\ rec.off.floor \in Nat /\ owed \in Nat /\ time \in Nat /\ since \in Nat
  BY <1>0, OffFacts
<1>2. O!Anchored => O!Believed = OffReckoned /\ O!Believed \in Nat
  BY OffBelieved
<1>3. O!Later(O!Wall, rec.off.floor) \in Nat /\ rec.off.floor =< O!Later(O!Wall, rec.off.floor)
  BY <1>1, OffLater
<1>4. CASE O!Anchored
  <2>1. O!ImportTime = O!Later(O!Later(O!Wall, rec.off.floor), O!Believed)
    BY <1>4 DEF O!ImportTime
  <2>2. O!ImportTime \in Nat /\ O!ImportTime >= O!Believed /\ O!ImportTime >= O!Later(O!Wall, rec.off.floor)
    BY <1>2, <1>3, <1>4, <2>1, OffLater
  <2>3. owed + (time - since) =< OffReckoned
    BY <1>0, <1>4 DEF RuntimeInv, OffReckoned
  <2> QED BY <1>1, <1>2, <1>3, <1>4, <2>2, <2>3
<1>5. CASE ~O!Anchored
  <2>1. O!ImportTime = O!Later(O!Later(O!Wall, rec.off.floor), 0)
    BY <1>5 DEF O!ImportTime
  <2>2. O!ImportTime \in Nat /\ O!ImportTime >= O!Later(O!Wall, rec.off.floor)
    BY <1>3, <2>1, OffLater
  <2> QED BY <1>1, <1>3, <1>5, <2>2
<1> QED BY <1>4, <1>5

\* The outcomes of save_offline: refused, failed, or saved.
LEMMA OffSaveOutcomes ==
  ASSUME O!TypeOK, NEW off, NEW o \in O!SaveOffline(off)
  PROVE  LET r == [rec EXCEPT !.off = off, !.cred = FALSE, !.pend = FALSE]
         IN  /\ o.rec \in {rec, r} /\ o.poisoned \in BOOLEAN
             /\ o.ok => o.rec = r
             /\ ~o.ok => o.poisoned \/ (o.rec = rec /\ o.poisoned = poisoned)
<1> DEFINE r == [rec EXCEPT !.off = off, !.cred = FALSE, !.pend = FALSE]
           refused == /\ rec.off.seq > 0
                      /\ \/ off.seq < rec.off.seq
                         \/ off.seq = rec.off.seq /\ off.id # rec.off.id
                         \/ off.floor < rec.off.floor
                         \/ off.wall < rec.off.wall
<1>0. poisoned \in BOOLEAN
  BY DEF O!TypeOK
<1>1. CASE refused
  <2>1. o = [rec |-> rec, poisoned |-> poisoned, ok |-> FALSE]
    BY <1>1 DEF O!SaveOffline
  <2>2. o.rec = rec /\ o.poisoned = poisoned /\ o.ok = FALSE
    BY <2>1
  <2> QED BY <1>0, <2>2
<1>2. CASE ~refused
  <2>1. o \in O!CommitOver(rec, poisoned, r)
    BY <1>2 DEF O!SaveOffline, O!Commit
  <2> HIDE DEF r
  <2>2. o.rec \in {rec, r} /\ o.poisoned \in BOOLEAN /\ (o.ok => o.rec = r) /\ (~o.ok => o.poisoned)
    BY <1>0, <2>1, OffCommit
  <2> QED BY <2>2 DEF r
<1> QED BY <1>1, <1>2

LEMMA OffImports ==
  ASSUME OfflineInv, NEW f \in Files, O!ImportSaves(f)
  PROVE  OfflineInv'
<1> USE OffConstants, OffNone
<1> DEFINE now == O!ImportTime
           trusted == O!Later(now, f.iat)
           wall == O!Later(rec.off.wall, O!Wall)
           off == [seq |-> f.seq, id |-> f, verifiedAt |-> now, floor |-> trusted, wall |-> wall, file |-> f]
           r == [rec EXCEPT !.off = off, !.cred = FALSE, !.pend = FALSE]
           m == [mem EXCEPT !.uncertain = @ /\ ~O!Anchored]
           n == [file |-> f, off |-> off, authorized |-> TRUE, uncertain |-> FALSE,
                 anchor |-> [server |-> trusted, elapsed |-> time, wall |-> O!Wall]]
<1>0. /\ O!TypeOK /\ RecordInv /\ RuntimeInv /\ ImportInv /\ Good(rec) /\ poisoned \in BOOLEAN /\ since =< time
      /\ mem \in O!Runtimes /\ next \in O!Runtimes
  BY DEF OfflineInv, RecordInv, O!TypeOK
<1>1. /\ time \in Nat /\ FileStart =< time /\ O!Wall \in Nat /\ rec.off.floor \in Nat /\ rec.off.wall \in Nat
      /\ paid \in Nat /\ owed \in Nat /\ since \in Nat /\ seen \in Nat /\ rec.off.seq \in Nat
      /\ rec.inst \in Nat /\ mem.anchor.elapsed \in Nat /\ mem.anchor.server \in Nat
  BY <1>0, OffFacts
<1>2. /\ pc = "open" /\ ~poisoned
      /\ O!Anchored => O!Believed # O!Uncertain /\ O!Believed >= rec.off.floor
      /\ O!Verify(f, rec.inst, now, O!Later(1, rec.off.seq))
      /\ f.seq = rec.off.seq => f = rec.off.id
      /\ UNCHANGED <<time, skew, owed, since>>
  BY DEF O!ImportSaves
<1>3. PICK o \in O!SaveOffline(off) :
        /\ O!Applied(o)
        /\ IF o.ok THEN pc' = "importing" /\ mem' = O!Deauthorized(m) /\ next' = n
           ELSE mem' = m /\ UNCHANGED <<pc, next>>
        /\ IF o.rec = rec THEN UNCHANGED <<accepted, seen, paid>>
           ELSE /\ accepted' = accepted \cup {<<rec.inst, f>>}
                /\ seen' = trusted
                /\ paid' = IF seen = 0 THEN now
                           ELSE IF O!Anchored THEN owed + (time - since) ELSE paid
  BY DEF O!ImportSaves
<1>4. /\ now \in Nat /\ rec.off.floor =< now
      /\ O!Anchored => owed + (time - since) =< now
  BY <1>2, OffImportTime
<1> HIDE DEF now
<1>5. trusted \in Nat /\ now =< trusted /\ wall \in Nat
  BY <1>1, <1>4, OffLater
<1> HIDE DEF trusted, wall
<1>6. /\ Good(r) /\ r.inst = rec.inst /\ r.off.seq = f.seq /\ r.off.id = f /\ r.off.floor = trusted
      /\ r.off.file = f /\ r.off.seq >= rec.off.seq /\ r.off = off
  <2>1. r = Imported(f, now, trusted, wall)
    BY DEF Imported
  <2> HIDE DEF r
  <2>2. Good(r) /\ r.inst = rec.inst /\ f.seq >= rec.off.seq /\ r.off = off
    BY <1>2, <1>4, <1>5, <2>1, OffSaved
  <2> QED BY <2>2
<1>7. /\ o.rec \in {rec, r} /\ o.poisoned \in BOOLEAN
      /\ o.ok => o.rec = r
      /\ ~o.ok => o.poisoned \/ (o.rec = rec /\ o.poisoned = poisoned)
  BY <1>0, OffSaveOutcomes
<1>8. /\ rec' = o.rec /\ poisoned' = o.poisoned
  BY <1>3 DEF O!Applied
<1>9. /\ m \in O!Runtimes /\ m.authorized = mem.authorized /\ m.anchor = mem.anchor /\ m.off = mem.off
      /\ m.file = mem.file
  <2>1. (mem.uncertain /\ ~O!Anchored) \in BOOLEAN /\ m = [mem EXCEPT !.uncertain = mem.uncertain /\ ~O!Anchored]
    OBVIOUS
  <2> HIDE DEF m
  <2> QED BY <1>0, <2>1, OffRuntimes
<1>10. /\ n \in O!Runtimes /\ n.file = f /\ n.off = off /\ n.anchor.elapsed = time /\ n.anchor.server = trusted
  <2>1. off \in [seq : Nat, id : Files, verifiedAt : Nat, floor : Nat, wall : Nat, file : Files \cup {NoFile}]
    BY <1>4, <1>5
  <2>2. [server |-> trusted, elapsed |-> time, wall |-> O!Wall] \in O!Anchors
    BY <1>1, <1>5 DEF O!Anchors
  <2> HIDE DEF off
  <2> QED BY <2>1, <2>2 DEF O!Runtimes
<1> HIDE DEF off, r, m, n
<1>11. /\ mem' \in O!Runtimes /\ mem'.anchor = mem.anchor /\ mem'.off = mem.off /\ mem'.file = mem.file
       /\ mem'.authorized => mem.authorized /\ ~o.ok
  <2>1. CASE o.ok
    <3>1. mem' = O!Deauthorized(m)
      BY <1>3, <2>1
    <3> QED BY <1>9, <3>1, OffRuntimes
  <2>2. CASE ~o.ok
    <3>1. mem' = m
      BY <1>3, <2>2
    <3> QED BY <1>9, <2>2, <3>1
  <2> QED BY <2>1, <2>2
<1>12. next' \in O!Runtimes /\ pc' \in {"open", "importing"} /\ (pc' = "importing" => o.ok /\ next' = n)
  BY <1>0, <1>2, <1>3, <1>10
<1>13. Good(rec') /\ seen' = rec'.off.floor /\ paid' \in Nat /\ paid' =< rec'.off.floor /\ rec'.inst = rec.inst
  <2>1. CASE o.rec = rec
    BY <1>0, <1>1, <1>3, <1>8, <2>1 DEF RecordInv
  <2>2. CASE o.rec # rec
    <3>1. rec' = r /\ seen' = trusted /\ paid' = IF seen = 0 THEN now
                                                 ELSE IF O!Anchored THEN owed + (time - since) ELSE paid
      BY <1>3, <1>7, <1>8, <2>2
    <3>2. paid =< rec.off.floor
      BY <1>0 DEF RecordInv
    <3>3. paid' \in Nat /\ paid' =< now
      BY <1>0, <1>1, <1>4, <3>1, <3>2
    <3> QED BY <1>4, <1>5, <1>6, <3>1, <3>3
  <2> QED BY <2>1, <2>2
<1>14. /\ accepted' \subseteq (1..MaxInst) \X Files
       /\ \A a \in accepted' :
            /\ a[1] =< rec'.inst
            /\ a[1] = rec'.inst => a[2].seq =< rec'.off.seq /\ (a[2].seq = rec'.off.seq => a[2] = rec'.off.id)
  <2>0. accepted \subseteq (1..MaxInst) \X Files /\ rec.inst \in 1..MaxInst
    BY <1>0 DEF O!TypeOK, O!Records
  <2>1. CASE o.rec = rec
    BY <1>0, <1>3, <1>8, <2>0, <2>1 DEF RecordInv
  <2>2. CASE o.rec # rec
    <3>1. rec' = r /\ accepted' = accepted \cup {<<rec.inst, f>>}
      BY <1>3, <1>7, <1>8, <2>2
    <3>2. accepted' \subseteq (1..MaxInst) \X Files
      BY <2>0, <3>1
    <3>3. ASSUME NEW a \in accepted'
          PROVE  /\ a[1] =< rec'.inst
                 /\ a[1] = rec'.inst => a[2].seq =< rec'.off.seq /\ (a[2].seq = rec'.off.seq => a[2] = rec'.off.id)
      <4>1. CASE a = <<rec.inst, f>>
        BY <1>1, <1>6, <3>1, <4>1
      <4>2. CASE a \in accepted
        <5>1. /\ a[1] =< rec.inst
              /\ a[1] = rec.inst => a[2].seq =< rec.off.seq /\ (a[2].seq = rec.off.seq => a[2] = rec.off.id)
          BY <1>0, <4>2 DEF RecordInv
        <5>2. a[2] \in Files
          BY <2>0, <4>2
        <5>3. a[2].seq \in Nat
          BY <5>2
        <5> QED BY <1>1, <1>2, <1>6, <3>1, <5>1, <5>3
      <4> QED BY <3>1, <3>3, <4>1, <4>2
    <3> QED BY <3>2, <3>3
  <2> QED BY <2>1, <2>2
<1>15. O!TypeOK'
  <2>1. rec' \in O!Records /\ rec'.off.floor \in Nat
    BY <1>13 DEF Good, O!Records
  <2>2. /\ time' = time /\ skew' = skew /\ {seen, owed, paid, since}' \subseteq Nat /\ poisoned' \in BOOLEAN
        /\ pc' \in {"closed", "open", "importing"}
    BY <1>1, <1>2, <1>7, <1>8, <1>12, <1>13, <2>1
  <2> QED BY <1>0, <1>11, <1>12, <1>14, <2>1, <2>2 DEF O!TypeOK, O!Records
<1>16. RecordInv'
  <2>1. Good(rec)'
    BY <1>13 DEF Good, O!Validate, O!Verify, O!NoOffline, O!Records
  <2> QED BY <1>13, <1>14, <2>1 DEF RecordInv
<1>17. RuntimeInv'
  <2>1. O!Anchored' <=> O!Anchored
    BY <1>11 DEF O!Anchored, O!NoAnchor
  <2>2. ASSUME mem'.authorized, ~poisoned' PROVE Matches(mem, rec)'
    <3>1. rec' = rec /\ mem.authorized
      BY <1>7, <1>8, <1>11, <2>2
    <3>2. Matches(mem, rec)
      BY <1>0, <1>2, <3>1 DEF RuntimeInv
    <3> QED BY <1>11, <3>1, <3>2 DEF Matches
  <2> QED BY <1>0, <1>2, <1>11, <2>1, <2>2 DEF RuntimeInv
<1>18. ImportInv'
  <2> SUFFICES ASSUME pc' = "importing"
               PROVE  /\ ~mem'.authorized
                      /\ next'.file = rec'.off.file /\ next'.file # NoFile /\ next'.off = rec'.off
                      /\ next'.anchor.elapsed =< time' /\ 0 < next'.anchor.elapsed
                      /\ rec'.off.floor =< next'.anchor.server
    BY DEF ImportInv
  <2>1. o.ok /\ next' = n /\ rec' = r
    BY <1>7, <1>8, <1>12
  <2> QED BY <1>1, <1>2, <1>5, <1>6, <1>10, <1>11, <2>1
<1> QED BY <1>0, <1>2, <1>15, <1>16, <1>17, <1>18 DEF OfflineInv

LEMMA OfflineNext ==
  ASSUME OfflineInv, O!Next \/ UNCHANGED O!vars
  PROVE  OfflineInv'
<1>1. CASE UNCHANGED O!vars
  <2>1. /\ O!TypeOK /\ time \in Nat
    BY OffFacts DEF OfflineInv
  <2>2. UNCHANGED <<time, skew, rec, poisoned, pc, mem, next, accepted, seen, owed, paid, since>>
    BY <1>1 DEF O!vars, O!storage, O!history
  <2>3. /\ time' >= time /\ time' \in FileStart..MaxTime /\ skew' \in FileSkews /\ mem' \in O!Runtimes
        /\ poisoned' \in BOOLEAN /\ pc' \in {"closed", "open", "importing"}
    BY <2>1, <2>2 DEF O!TypeOK
  <2> QED BY <2>2, <2>3, OffQuiet
<1>2. CASE O!Next
  <2>1. CASE \/ O!Tick \/ (\E s \in FileSkews : O!SetWall(s))
             \/ O!ImportUncertain \/ O!Snapshot \/ O!StorageFails
    BY <2>1, OffQuietSteps
  <2>2. CASE O!Open
    BY <2>2, OffOpens
  <2>3. CASE O!OpenRebound
    BY <2>3, OffRebinds
  <2>4. CASE O!Close
    BY <2>4, OffCloses
  <2>5. CASE O!Crash
    BY <2>5, OffCrashes
  <2>6. CASE O!ImportFinishes
    BY <2>6, OffFinishes
  <2>7. CASE \E f \in Files : O!ImportSaves(f)
    BY <2>7, OffImports
  <2>8. CASE O!WorkerCheckpoint
    BY <2>8, OffChecks
  <2>9. CASE O!Logout
    BY <2>9, OffLogsOut
  <2>10. CASE O!Activate
    BY <2>10, OffActivates
  <2>11. CASE O!CommitAccess \/ O!ResolvePendingActivation \/ O!ImportDrops
    BY <2>11, OffOnline
  <2> QED BY <1>2, <2>1, <2>2, <2>3, <2>4, <2>5, <2>6, <2>7, <2>8, <2>9, <2>10, <2>11 DEF O!Next
<1> QED BY <1>1, <1>2

LEMMA OfflineSound ==
  ASSUME OfflineInv
  PROVE  /\ O!NewestFileOnly /\ O!OverStaysOver /\ O!ReimportNeverExtends
         /\ O!MemoryMatchesRecord /\ O!OwnRecordOpens
<1> USE OffConstants
<1>0. O!TypeOK /\ RecordInv /\ RuntimeInv /\ Good(rec)
  BY DEF OfflineInv, RecordInv
<1>1. O!OwnRecordOpens
  <2>1. ASSUME rec.off.file # NoFile PROVE O!Restores(rec.off)
    BY <1>0, <2>1 DEF Good, O!Restores, O!Verify
  <2> QED BY <1>0, <2>1 DEF Good, O!OwnRecordOpens
<1>2. ASSUME O!Shown
      PROVE  /\ Matches(mem, rec) /\ mem.file \in Files /\ O!Believed = OffReckoned /\ O!Believed \in Nat
             /\ mem.off.floor =< O!Believed /\ owed + (time - since) =< O!Believed
             /\ O!Believed < mem.file.exp
  <2>1. /\ mem.authorized /\ ~poisoned /\ mem.file # NoFile /\ O!Believed # O!Uncertain
        /\ O!Believed < mem.file.exp
    BY <1>2 DEF O!Shown
  <2>2. O!Believed = OffReckoned /\ O!Believed \in Nat
    BY <2>1, OffBelieved
  <2>3. mem.file \in Files
    BY <1>0, <2>1 DEF O!TypeOK, O!Runtimes
  <2>4. /\ Matches(mem, rec) /\ mem.off.floor =< OffReckoned /\ owed + (time - since) =< OffReckoned
    BY <1>0, <2>1 DEF RuntimeInv, OffReckoned
  <2> QED BY <2>1, <2>2, <2>3, <2>4
<1>3. O!MemoryMatchesRecord
  BY <1>2 DEF O!MemoryMatchesRecord, Matches
<1>4. O!ReimportNeverExtends
  <2>1. owed \in Nat /\ time \in Nat /\ since \in Nat
    BY <1>0, OffFacts
  <2> QED BY <1>2, <2>1 DEF O!ReimportNeverExtends
<1>5. O!OverStaysOver
  <2> SUFFICES ASSUME O!Shown PROVE O!Believed >= seen /\ mem.file.exp > seen
    BY DEF O!OverStaysOver
  <2>1. seen =< mem.off.floor /\ seen \in Nat /\ mem.off.floor \in Nat
    BY <1>0, <1>2, OffFacts DEF RecordInv, Matches
  <2>2. mem.file.exp \in Nat
    BY <1>2
  <2> QED BY <1>2, <2>1, <2>2
<1>6. O!NewestFileOnly
  <2> SUFFICES ASSUME O!Shown, NEW a \in accepted, a[1] = rec.inst
               PROVE  a[2].seq =< mem.file.seq /\ (a[2].seq = mem.file.seq => a[2] = mem.file)
    BY DEF O!NewestFileOnly
  <2>1. mem.file = rec.off.id /\ mem.file.seq = rec.off.seq
    BY <1>0, <1>2 DEF Good, Matches
  <2> QED BY <1>0, <2>1 DEF RecordInv
<1> QED BY <1>1, <1>3, <1>4, <1>5, <1>6

(***************************************************************************)
(* The three parts together                                                *)
(***************************************************************************)

TimeInv ==
  /\ part \in {"clock", "file", "grant"}
  /\ part = "clock" => ClockInv
  /\ part = "file" => OfflineInv
  /\ part = "grant" => GrantInv

LEMMA TimeStarts ==
  ASSUME TimeInit
  PROVE  TimeInv
BY ClockInit, OfflineInit, GrantInit DEF TimeInit, TimeInv

LEMMA TimeStep ==
  ASSUME TimeInv, [TimeNext]_<<vars, part, time, accepted, fileOnly, grantOnly>>
  PROVE  TimeInv'
<1>1. part' = part
  BY DEF TimeNext
<1>2. CASE part = "clock"
  <2>1. [Next]_vars
    BY <1>2 DEF TimeNext
  <2> QED BY <1>1, <1>2, <2>1, ClockNext DEF TimeInv
<1>3. CASE part = "file"
  <2>1. O!Next \/ UNCHANGED O!vars
    <3>1. CASE TimeNext
      BY <1>3, <3>1 DEF TimeNext
    <3>2. CASE UNCHANGED <<vars, part, time, accepted, fileOnly, grantOnly>>
      <4>1. UNCHANGED <<time, skew, rec, poisoned, pc, mem, next, accepted, seen, owed, paid, since>>
        BY <3>2 DEF vars, clocks, history, fileOnly
      <4> QED BY <4>1 DEF O!vars, O!storage, O!history
    <3> QED BY <3>1, <3>2
  <2> QED BY <1>1, <1>3, <2>1, OfflineNext DEF TimeInv
<1>4. CASE part = "grant"
  <2>1. G!Next \/ UNCHANGED G!vars
    BY <1>4 DEF TimeNext, vars, G!vars, grantOnly
  <2> QED BY <1>1, <1>4, <2>1, GrantNext DEF TimeInv
<1> QED BY <1>2, <1>3, <1>4 DEF TimeInv

\* Every state of the three parts satisfies the invariant of its part.
THEOREM TimeInductive == TimeSpec => []TimeInv
<1>1. TimeInit => TimeInv
  BY TimeStarts
<1>2. TimeInv /\ [TimeNext]_<<vars, part, time, accepted, fileOnly, grantOnly>> => TimeInv'
  BY TimeStep
<1> QED BY <1>1, <1>2, PTL DEF TimeSpec

\* The state of the clocks, of an offline file and of a grant's exchange keeps
\* the types the code gives it: times never become negative, and an anchor, a
\* record and a runtime are whole after every step that replaces one.
THEOREM TimeTypes == TimeSpec => []TypesOK
<1>1. TimeInv => TypesOK
  BY DEF TimeInv, TypesOK, ClockInv, OfflineInv, GrantInv
<1> QED BY <1>1, TimeInductive, PTL

\* Time a client believes in (clock.rs, now_with_wall; installed.rs,
\* restored_time) never falls behind a saved floor, counts every second that
\* processes ran, is not late for the server's, and is never called uncertain
\* on a clock nobody set: for every tolerance, resolution and set of skews.
THEOREM TimeClockIsSound == TimeSpec => []ClockIsSound
<1>1. TimeInv => ClockIsSound
  BY ClockSound DEF TimeInv, ClockIsSound
<1> QED BY <1>1, TimeInductive, PTL

\* An offline file (installed.rs, save_offline, checkpoint_offline,
\* restore_offline) that was replaced or was over is never shown again, nothing
\* buys it time, memory shows only what a restart would restore, and the client
\* opens every record it writes: for every set of files and of skews, and after
\* any sequence of imports, crashes, failed commits and rebinds.
THEOREM TimeOfflineIsFinal == TimeSpec => []OfflineIsFinal
<1>1. TimeInv => OfflineIsFinal
  BY OfflineSound DEF TimeInv, OfflineIsFinal
<1> QED BY <1>1, TimeInductive, PTL

\* Verification of a grant (grants.rs; access.rs, verify_reply; installed.rs,
\* restore) turns no honest grant away because keys rotated or the exchange was
\* slow, leaves none usable for longer than the longest lease or beyond the end
\* of its licence or credential, and a restart neither loses nor extends one.
THEOREM TimeGrantIsSound == TimeSpec => []GrantIsSound
<1>1. TimeInv => GrantIsSound
  BY GrantSound DEF TimeInv, GrantIsSound
<1> QED BY <1>1, TimeInductive, PTL
=============================================================================
