------------------------------- MODULE Cinema -------------------------------
(***************************************************************************)
(* What Scheduling and Catalogue have in common: the rows that the         *)
(* administrators write.                                                   *)
(***************************************************************************)
EXTENDS Naturals

CONSTANTS
    Halls, Movies, Screens,
    Starts,     \* start times of screenings
    NULL

ASSUME CinemaAssumption ==
    /\ Halls \cap Movies = {}
    /\ NULL \notin Halls \cup Movies \cup Starts
    /\ Starts \subseteq Nat

\* The columns of a screening that an administrator chooses.
Placement == [hall : Halls, movie : Movies, start : Starts]

=============================================================================
