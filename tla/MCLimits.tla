------------------------------ MODULE MCLimits ------------------------------
(* Small instances of Limits for TLC.                                      *)
EXTENDS Limits, TLC

CONSTANTS c1, c2, c3, f1, f2, f3

MCSymmetry == Permutations(Requests) \cup Permutations(Failures)

Untouched(calls) == \A c \in calls : at[c] = "idle"

\* The two windows share nothing but the clock, so that nothing is lost if a
\* behaviour is about one of them only.
MCNext ==
    \/ Clock
    \/ Untouched(Failures) /\ \E c \in Requests : CallStep(c)
    \/ Untouched(Requests) /\ \E c \in Failures : CallStep(c)

MCSpec == Init /\ [][MCNext]_vars

=============================================================================
