------------------------------ MODULE PolicyTerms ------------------------------
(***************************************************************************)
(* The terms that `orbit policies create` sends (cli/src/policies.rs,      *)
(* changes, Changes::apply and create): those of the version named with    *)
(* --from, or the defaults, with the flags applied in their order.         *)
(* Terms that are copied or set and touch no other are left out.           *)
(***************************************************************************)
EXTENDS Naturals, FiniteSets

CONSTANTS Names   \* entitlements

VARIABLES phase, from, flags, terms

vars == <<phase, from, flags, terms>>

None == "none"
Modes == {"perpetual", "fixed", "first_activation"}
Maybe(S) == S \cup {None}

\* duration and end are "old" or "new" values, or null; seconds are those of the
\* offline allowance, 0 for none.
Policies == [mode : Modes, duration : {"old", "null"}, end : {"old", "null"},
             offline : {"yes", "no"}, seconds : {"old", "zero"},
             ents : [Names -> {"on", "off", "absent"}]]

\* What the service accepts: a lifetime or an end date in its own mode only, an
\* allowance only with offline use.
Consistent(p) ==
  /\ p.duration # "null" <=> p.mode = "first_activation"
  /\ p.end # "null" <=> p.mode = "fixed"
  /\ p.offline = "no" => p.seconds = "zero"

Flags == [from : BOOLEAN, mode : Maybe(Modes), duration : Maybe({"new"}), end : Maybe({"new"}),
          offline : Maybe({"yes", "no"}), seconds : Maybe({"new"}),
          add : [Names -> {"on", "off", None}], remove : SUBSET Names]

Init ==
  /\ from \in {p \in Policies : Consistent(p)}
  /\ flags \in Flags
  /\ phase = "given"
  /\ terms = from

-----------------------------------------------------------------------------

Given(flag, otherwise) == IF flag = None THEN otherwise ELSE flag

\* The flags that are missing without --from, or contradict each other.
Usage(f) ==
  \/ ~f.from /\ f.mode = None
  \/ \E n \in f.remove : f.add[n] # None

Defaults == [mode |-> "perpetual", duration |-> "null", end |-> "null", offline |-> "no",
             seconds |-> "zero", ents |-> [n \in Names |-> "absent"]]

\* Mutant: a copied lifetime stays whatever the mode becomes.
KeepsDuration(f, base) == base.duration

\* "A copied lifetime or end date belongs only to its own expiry mode."
CopiedDuration(f, base) ==
  IF f.mode \notin {None, "first_activation"} THEN "null" ELSE base.duration

CopiedEnd(f, base) == IF f.mode \notin {None, "fixed"} THEN "null" ELSE base.end

\* --offline false takes the allowance with it, unless another is passed.
CopiedSeconds(f, base) == IF f.offline = "no" THEN "zero" ELSE base.seconds

\* An entitlement to remove must be one of the policy's.
Unknown(f, base) == \E n \in f.remove : base.ents[n] = "absent"

\* Mutant: the copied entitlements are dropped.
EntitlementsLost(f, base) ==
  [n \in Names |-> IF f.add[n] # None THEN f.add[n] ELSE "absent"]

Entitlements(f, base) ==
  [n \in Names |-> IF f.add[n] # None THEN f.add[n]
                   ELSE IF n \in f.remove THEN "absent" ELSE base.ents[n]]

\* Later flags overwrite what the earlier ones set.
Applied(f, base) ==
  [mode |-> Given(f.mode, base.mode),
   duration |-> Given(f.duration, CopiedDuration(f, base)),
   end |-> Given(f.end, CopiedEnd(f, base)),
   offline |-> Given(f.offline, base.offline),
   seconds |-> Given(f.seconds, CopiedSeconds(f, base)),
   ents |-> Entitlements(f, base)]

Create ==
  /\ phase = "given"
  /\ LET base == IF flags.from THEN from ELSE Defaults IN
     IF Usage(flags) \/ Unknown(flags, base)
     THEN phase' = "usage" /\ UNCHANGED terms
     ELSE phase' = "sent" /\ terms' = Applied(flags, base)
  /\ UNCHANGED <<from, flags>>

Next == Create

Spec == Init /\ [][Next]_vars

-----------------------------------------------------------------------------
(* Properties *)

\* A policy that is sent without a contradiction in the flags themselves has
\* none either: nothing copied from --from stays where it does not belong.
CopyIsConsistent ==
  phase = "sent"
    /\ (flags.duration # None <=> flags.mode = "first_activation")
    /\ (flags.end # None <=> flags.mode = "fixed")
    /\ (flags.seconds # None => flags.offline = "yes")
  => Consistent([terms EXCEPT !.duration = IF @ = "new" THEN "old" ELSE @,
                              !.end = IF @ = "new" THEN "old" ELSE @])

\* "`--from` copies a version's terms [...] and applies only the flags you pass"
\* (cli/README.md:127): with no flag the copy is exact, and an entitlement that
\* is neither added nor removed is the version's.
OnlyFlagsApply ==
  phase = "sent" /\ flags.from =>
    /\ flags.mode = None /\ flags.duration = None => terms.duration = from.duration
    /\ flags.mode = None /\ flags.end = None => terms.end = from.end
    /\ flags.offline = None /\ flags.seconds = None => terms.seconds = from.seconds
    /\ \A n \in Names : flags.add[n] = None /\ n \notin flags.remove => terms.ents[n] = from.ents[n]
=============================================================================
