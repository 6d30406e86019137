---------------------------- MODULE MCScheduling ----------------------------
(* Small instances of Scheduling for TLC.                                  *)
EXTENDS Scheduling, TLC

CONSTANTS h1, h2, m1, m2, s1, s2, r1, a1, a2

\* The reservation is for screening s1, on a seat of hall h1.
MCScreenOf == [r \in Ids |-> s1]
MCHallOf == [r \in Ids |-> h1]

\* Movie m1 lasts 1 slot, m2 two.
MCCutsFixed == [m \in Movies |-> IF m = m1 THEN {1} ELSE {2}]

=============================================================================
