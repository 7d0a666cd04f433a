------------------------------ MODULE MCMetering ------------------------------
EXTENDS Metering, TLC
\* Bound: one call in flight at a time; its requests may still be under way
\* when the next one starts.
OneAtATime == Cardinality({c \in Callers : Busy(c)}) =< 1
\* Bound: the callers work on one job; the server settles each job by itself.
OneJob == Cardinality({task[c].op : c \in Callers} \ {NoOp}) =< 1
Symmetry == Permutations(Callers)
=============================================================================
