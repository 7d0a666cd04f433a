------------------------------- MODULE Management -------------------------------
(***************************************************************************)
(* orbit, the command-line tool of the management API (cli/src).  An       *)
(* operator runs one command after another; a command reads what it needs, *)
(* sends its change, and exits with a status and perhaps the idempotency   *)
(* key to repeat it with.  Requests may arrive late, answers may be lost,  *)
(* and several operators work on the same licences.                        *)
(*                                                                         *)
(* Commands are grouped by how they talk to the service:                   *)
(*   keyed    one change with a key: licences issue, extend, reset-device, *)
(*            replace-key, end-session, offline-file; releases create,     *)
(*            add-artifact, remove-artifact, publish, unpublish            *)
(*   edit     releases edit: read, then a change with a key                *)
(*   policy   policies create, with --from after a read; without a key     *)
(*   status   suspend, reinstate, revoke: a change without a key           *)
(*   merge    entitlements, annotate: read the map, send it back changed   *)
(*   move     change-policy: preview, confirm, apply in batches            *)
(***************************************************************************)
EXTENDS Naturals, Sequences, FiniteSets

CONSTANTS
  Operators, Licences,
  Names,         \* entitlements, or the two annotation fields
  Batches,       \* ids.chunks(BATCH): the licences of change-policy, in batches
  Kinds,         \* the kinds of commands that are run
  MaxTasks,      \* bound: commands, not counting repeats
  MaxRuns        \* bound: runs of the tool, repeats included

VARIABLES
  lic,       \* service: per licence the names turned on, its policy and revision
  made,      \* service: how often each task's change was made
  keys,      \* service: the idempotency keys it has seen
  moves,     \* service: every licence moved, with the task and its terms then
  wire,      \* requests sent and not yet served
  tasks,     \* the commands given so far
  runs,      \* runs so far; a run that draws a key draws its own number
  pc, task, run, used, seen, step, told,   \* per operator: the run that is under way
  known      \* per operator: the key printed to it for its task

service == <<lic, made, keys, moves>>
client == <<pc, task, run, used, seen, step, told, known>>
vars == <<service, wire, tasks, runs, client>>

Keyed == {"keyed", "edit"}
Creating == Keyed \cup {"policy"}
Reading == {"edit", "merge"}

NoKey == 0
Terms == [on : SUBSET Names, policy : {"old", "new"}, rev : 0..MaxTasks]
Blank == [l \in Licences |-> [on |-> {}, policy |-> "old", rev |-> 0]]
Commands == [kind : Kinds, lic : Licences, named : SUBSET Names, on : SUBSET Names, yes : BOOLEAN]

\* How a run ended: exit 0; a usage error; cancelled at the prompt; an error of
\* the API that is certain; one that is not (5xx, 429) or no answer at all;
\* anything else after the change was answered with success.
Endings == {"none", "ok", "usage", "cancelled", "rejected", "uncertain", "other"}

TypeOK ==
  /\ lic \in [Licences -> Terms]
  /\ made \in [1..MaxTasks -> 0..MaxRuns]
  /\ keys \subseteq 1..MaxRuns
  /\ moves \subseteq [task : 1..MaxTasks, lic : Licences, shown : Terms, was : Terms]
  /\ Len(tasks) <= MaxTasks /\ \A t \in 1..Len(tasks) : tasks[t] \in Commands
  /\ runs \in 0..MaxRuns
  /\ \A r \in wire : r.by \in Operators /\ r.task \in 1..Len(tasks) /\ r.key \in 0..r.run /\ r.run <= runs
  /\ pc \in [Operators -> {"idle", "read", "send", "wait", "preview", "confirm"}]
  /\ task \in [Operators -> 0..MaxTasks]
  /\ seen \in [Operators -> [Licences -> Terms]]
  /\ step \in [Operators -> 0..Len(Batches)]
  /\ told \in [Operators -> [end : Endings, moved : 0..Cardinality(Licences)]]
  /\ known \in [Operators -> 0..MaxRuns]
  /\ run \in [Operators -> 0..runs] /\ used \in [Operators -> 0..runs]

Init ==
  /\ lic = Blank
  /\ made = [t \in 1..MaxTasks |-> 0]
  /\ keys = {} /\ moves = {} /\ wire = {} /\ tasks = <<>> /\ runs = 0
  /\ pc = [o \in Operators |-> "idle"]
  /\ task = [o \in Operators |-> 0]
  /\ run = [o \in Operators |-> 0] /\ used = [o \in Operators |-> NoKey]
  /\ seen = [o \in Operators |-> Blank]
  /\ step = [o \in Operators |-> 0]
  /\ told = [o \in Operators |-> [end |-> "none", moved |-> 0]]
  /\ known = [o \in Operators |-> NoKey]

Cmd(o) == tasks[task[o]]
Goto(o, l) == pc' = [pc EXCEPT ![o] = l]

\* run: the exit status, and what was printed beside it.
Exit(o, end) == Goto(o, "idle") /\ told' = [told EXCEPT ![o].end = end]

-----------------------------------------------------------------------------
(* A run of a command *)

\* Which request comes first.  annotate reads only what it was not given; the
\* policy versions that policies create --from reads never change.
FirstStep(c) ==
  IF c.kind = "move" THEN "preview"
  ELSE IF c.kind \in Reading /\ c.named # Names THEN "read" ELSE "send"

Begin(o, t, c) ==
  /\ runs < MaxRuns /\ runs' = runs + 1
  /\ run' = [run EXCEPT ![o] = runs + 1]
  /\ used' = [used EXCEPT ![o] = NoKey]
  /\ Goto(o, FirstStep(c))
  /\ task' = [task EXCEPT ![o] = t]
  /\ seen' = [seen EXCEPT ![o] = Blank]
  /\ step' = [step EXCEPT ![o] = 1]
  /\ told' = [told EXCEPT ![o] = [end |-> "none", moved |-> 0]]

\* A command that is of its own kind: `on` and `named` matter to a merge only,
\* the licence to a merge or a change of status.
Sensible(c) ==
  /\ c.kind = "merge" => c.named # {} /\ c.on \subseteq c.named
  /\ c.kind # "merge" => c.named = {} /\ c.on = {}
  /\ c.kind \in {"merge", "status"} \/ c.lic = CHOOSE l \in Licences : TRUE
  /\ c.yes => c.kind = "move"

\* The operator gives a new command.
Start(o, c) ==
  /\ pc[o] = "idle" /\ Len(tasks) < MaxTasks
  /\ Sensible(c)
  /\ tasks' = Append(tasks, c)
  /\ Begin(o, Len(tasks) + 1, c)
  /\ known' = [known EXCEPT ![o] = NoKey]
  /\ UNCHANGED <<service, wire>>

\* The operator repeats a command whose change may have been made, with the key
\* that was printed, if there was one.
Again(o) ==
  /\ pc[o] = "idle" /\ told[o].end = "uncertain"
  /\ Cmd(o).kind \in Creating
  /\ Begin(o, task[o], Cmd(o))
  /\ UNCHANGED <<service, wire, tasks, known>>

\* The read of entitlements, annotate and releases edit: values as they are now.
ReadCurrent(o) ==
  /\ pc[o] = "read"
  /\ seen' = [seen EXCEPT ![o] = lic]
  /\ Goto(o, "send")
  /\ UNCHANGED <<service, wire, tasks, runs, task, run, used, step, told, known>>

\* A read, a preview or the start of one fails: no key has been used yet.
ReadFails(o) ==
  /\ pc[o] \in {"read", "preview"}
  /\ \E end \in {"usage", "rejected", "uncertain", "other"} : Exit(o, end)
  /\ UNCHANGED <<service, wire, tasks, runs, task, run, used, seen, step, known>>

\* The map that goes back: what was read, with the names passed turned on or off.
Merged(o) ==
  LET c == Cmd(o) IN (seen[o][c.lic].on \ c.named) \cup c.on

\* Mutant: every run draws a new key.
KeyAlwaysNew(o) == IF Cmd(o).kind \in Keyed THEN run[o] ELSE NoKey

\* idempotency_key(): the one passed, or a new one; none for the other kinds.
IdempotencyKey(o) ==
  IF Cmd(o).kind \notin Keyed THEN NoKey
  ELSE IF known[o] # NoKey THEN known[o] ELSE run[o]

\* The licences of batch i that the preview showed as changing.
Pending(o, i) == {l \in Batches[i] : seen[o][l].policy # "new"}

\* Mutant: the revisions are read again when the move is sent.
RevisionsNow(o) == [l \in Licences |-> lic[l].rev]

\* The revisions that the preview returned.
Revisions(o) == [l \in Licences |-> seen[o][l].rev]

\* Api::send: the change goes out.
Send(o) ==
  /\ pc[o] = "send"
  /\ LET c == Cmd(o) IN
     wire' = wire \cup
       {[by |-> o, run |-> run[o], step |-> step[o], task |-> task[o], key |-> IdempotencyKey(o),
         on |-> IF c.kind = "merge" THEN Merged(o) ELSE {},
         lics |-> IF c.kind = "move" THEN Pending(o, step[o]) ELSE {},
         revs |-> Revisions(o), shown |-> seen[o]]}
  /\ used' = [used EXCEPT ![o] = IdempotencyKey(o)]
  /\ Goto(o, "wait")
  /\ UNCHANGED <<service, tasks, runs, task, run, seen, step, told, known>>

-----------------------------------------------------------------------------
(* change-policy *)

\* Batches with something to move, from i on.
Left(o, i) == {j \in i..Len(Batches) : Pending(o, j) # {}}
First(S) == CHOOSE i \in S : \A j \in S : i <= j

\* After the last preview: nothing to move, or the prompt.
Preview(o) ==
  /\ pc[o] = "preview"
  /\ seen' = [seen EXCEPT ![o] = [l \in Licences |->
                IF l \in Batches[step[o]] THEN lic[l] ELSE seen[o][l]]]
  /\ IF step[o] < Len(Batches)
     THEN step' = [step EXCEPT ![o] = @ + 1] /\ UNCHANGED <<pc, told>>
     ELSE Goto(o, "confirm") /\ UNCHANGED <<step, told>>
  /\ UNCHANGED <<service, wire, tasks, runs, task, run, used, known>>

\* Without --yes: no terminal to ask, a no, a yes.
GoOn == {"usage", "cancelled", "send"}

Confirm(o) ==
  /\ pc[o] = "confirm"
  /\ IF Left(o, 1) = {} THEN Exit(o, "ok") /\ UNCHANGED step
     ELSE \E next \in IF Cmd(o).yes THEN {"send"} ELSE GoOn :
            IF next = "send"
            THEN step' = [step EXCEPT ![o] = First(Left(o, 1))] /\ Goto(o, "send") /\ UNCHANGED told
            ELSE Exit(o, next) /\ UNCHANGED step
  /\ UNCHANGED <<service, wire, tasks, runs, task, run, used, seen, known>>

-----------------------------------------------------------------------------
(* The service, as the commands use it *)

\* A key it has seen is answered as before, and changes nothing.
Repeated(r) == r.key \in keys

\* Revisions that are not the previewed ones: policy_change_preview_stale.
StalePreview(r) ==
  tasks[r.task].kind = "move" /\ \E l \in r.lics : lic[l].rev # r.revs[l]

Changed(r, l) ==
  LET c == tasks[r.task]
      bumped == [lic[l] EXCEPT !.rev = @ + 1] IN
  CASE c.kind = "merge" /\ l = c.lic -> [bumped EXCEPT !.on = r.on]
    [] c.kind = "status" /\ l = c.lic -> bumped
    [] c.kind = "move" /\ l \in r.lics -> [bumped EXCEPT !.policy = "new"]
    [] OTHER -> lic[l]

Apply(r) ==
  LET c == tasks[r.task] IN
  /\ lic' = [l \in Licences |-> Changed(r, l)]
  /\ made' = [made EXCEPT ![r.task] = @ + 1]
  /\ keys' = keys \cup ({r.key} \ {NoKey})
  /\ moves' = moves \cup {[task |-> r.task, lic |-> l, shown |-> r.shown[l], was |-> lic[l]] : l \in r.lics}

\* The operator's run still waits for this very request.
Awaited(r) == pc[r.by] = "wait" /\ run[r.by] = r.run /\ step[r.by] = r.step

\* Mutant: the key is not printed.
NeverHinted(end) == FALSE

\* run prints the key when it cannot tell whether the change was made.
Hinted(end) == end = "uncertain"

\* Mutant: the batch that failed is counted as well.
MovedWithThis(o) == told[o].moved + Cardinality(Pending(o, step[o]))

\* "N licence(s) moved before this failure".
MovedBefore(o) == told[o].moved

\* The run ends in an error from the API or the connection.
Fails(o, end) ==
  /\ Goto(o, "idle")
  /\ told' = [told EXCEPT ![o] = [end |-> end, moved |-> MovedBefore(o)]]
  /\ known' = [known EXCEPT ![o] = IF Hinted(end) /\ used[o] # NoKey THEN used[o] ELSE @]
  /\ UNCHANGED step

\* Mutant: every batch's answer is counted as if it held all licences.
CountedWhole(r) == Cardinality(Licences)

\* The licences in the answer to one batch.
Counted(r) == Cardinality(r.lics)

\* The answer is success.  A body that cannot be read, or output that cannot be
\* written (the offline file, the terminal), still ends in an error.
Succeeds(o, r) ==
  LET left == Left(o, r.step + 1)
      moved == told[o].moved + IF Cmd(o).kind = "move" THEN Counted(r) ELSE 0 IN
  \/ /\ Cmd(o).kind = "move" /\ left # {}
     /\ step' = [step EXCEPT ![o] = First(left)]
     /\ told' = [told EXCEPT ![o].moved = moved]
     /\ Goto(o, "send") /\ UNCHANGED known
  \/ /\ Cmd(o).kind # "move" \/ left = {}
     /\ told' = [told EXCEPT ![o] = [end |-> "ok", moved |-> moved]]
     /\ Goto(o, "idle") /\ UNCHANGED <<step, known>>
  \/ Goto(o, "idle") /\ told' = [told EXCEPT ![o] = [end |-> "other", moved |-> 0]]
     /\ UNCHANGED <<step, known>>

\* A request arrives, in time or late, and its answer arrives or is lost.
Serve(r) ==
  /\ wire' = wire \ {r}
  /\ IF Repeated(r) \/ ~StalePreview(r)
     THEN \* The change is made once per key; the answer says so, or fails with 5xx.
          /\ IF Repeated(r) THEN UNCHANGED service ELSE Apply(r)
          /\ \/ UNCHANGED <<pc, step, told, known>>
             \/ Awaited(r) /\ Succeeds(r.by, r)
             \/ Awaited(r) /\ Fails(r.by, "uncertain")
     ELSE /\ UNCHANGED service
          /\ \/ UNCHANGED <<pc, step, told, known>>
             \/ Awaited(r) /\ Fails(r.by, "rejected")
  /\ UNCHANGED <<tasks, runs, task, run, used, seen>>

\* The service refuses the change, for good or for now (429, 5xx).
Refuse(r) ==
  /\ wire' = wire \ {r}
  /\ Awaited(r)
  /\ \E end \in {"rejected", "uncertain"} : Fails(r.by, end)
  /\ UNCHANGED <<service, tasks, runs, task, run, used, seen>>

\* No complete answer arrived: the time limit of the client, or a broken
\* connection (Failure::Transport).  The request may still be served.
TimeOut(o) ==
  /\ pc[o] = "wait"
  /\ Fails(o, "uncertain")
  /\ UNCHANGED <<service, wire, tasks, runs, task, run, used, seen>>

Next ==
  \/ \E o \in Operators, c \in Commands : Start(o, c)
  \/ \E o \in Operators :
       \/ Again(o) \/ ReadCurrent(o) \/ ReadFails(o) \/ Preview(o)
       \/ Confirm(o) \/ Send(o) \/ TimeOut(o)
  \/ \E r \in wire : Serve(r) \/ Refuse(r)

Spec == Init /\ [][Next]_vars

-----------------------------------------------------------------------------
(* Properties *)

Done(o) == pc[o] = "idle" /\ task[o] # 0
MayCome(t) == \E r \in wire : r.task = t
MovedBy(t) == {m.lic : m \in {x \in moves : x.task = t}}

\* "Repeat the same command with --idempotency-key and that key to retry safely
\* without applying it twice" (cli/README.md:199): however often a keyed command
\* is repeated, and however late its requests arrive, its change is made once,
\* and exit status 0 means that it was.
KeyedExactlyOnce ==
  /\ \A t \in 1..Len(tasks) : tasks[t].kind \in Keyed => made[t] <= 1
  /\ \A o \in Operators : Done(o) /\ told[o].end = "ok" /\ Cmd(o).kind \in Creating => made[task[o]] >= 1

\* An operator whose keyed command failed, and who was not given its key, knows
\* that nothing was changed and nothing will be (app.rs, uncertain; the key is
\* drawn only after every read).  A failure after the answer is the exception.
KeyOrCertainty ==
  \A o \in Operators :
    Done(o) /\ Cmd(o).kind \in Keyed /\ known[o] = NoKey /\ told[o].end \notin {"ok", "other"}
      => made[task[o]] = 0 /\ ~MayCome(task[o])

\* "apply with the previewed revisions so a licence that changed in between is
\* not moved" (policies.rs:316): what is moved had the terms that were shown.
PreviewedOnly == \A m \in moves : m.shown = m.was

\* What change-policy says it moved: never more than was; exactly that when it
\* succeeds or Orbit refuses a batch; nothing, ever, after a no.
MoveReport ==
  \A o \in Operators : Done(o) /\ Cmd(o).kind = "move" =>
    LET n == Cardinality(MovedBy(task[o])) IN
    /\ told[o].moved <= n
    /\ told[o].end \in {"ok", "rejected"} => told[o].moved = n
    /\ told[o].end \in {"usage", "cancelled"} => n = 0 /\ ~MayCome(task[o])
=============================================================================
